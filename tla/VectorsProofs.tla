--------------------------- MODULE VectorsProofs ---------------------------
(***************************************************************************)
(* TLAPS proofs about Vectors, for any number of objects, any elements,    *)
(* and vectors and stack vectors of any size: each holds the sequence that *)
(* it stands for, and every element is constructed, assigned to and        *)
(* destructed in turn, but for those that the code leaves.                                                    *)
(*                                                                         *)
(* The loops come first: what each of them makes of the cells it goes      *)
(* over, step by step.  Then the operations, each on one vector, and last  *)
(* the objects and the blocks they own.                                    *)
(***************************************************************************)
EXTENDS Vectors, ProofLemmas, FiniteSetTheorems

-----------------------------------------------------------------------------
(* Steps on cells.                                                         *)

CellValues == Values \cup {Raw, Moved, Left}
Cells(n) == [0 .. n - 1 -> CellValues]

LEMMA BlankFacts ==
  /\ Raw \in Blank /\ Left \in Blank /\ Moved \notin Blank /\ Blank \subseteq CellValues
  /\ \A x \in Values : x \notin Blank /\ x # Moved
BY VectorsAssumption DEF Blank, CellValues

Steps ==
  [does : {"construct", "assign"}, to : Int, how : {"value", "copy", "move"}, from : Int \cup Values]

\* What a step puts into a cell, whether it may, and what it makes of c.
What(c, s) == IF s.how = "value" THEN s.from ELSE c[s.from]

Legal(c, s) ==
  /\ s.to \in DOMAIN c
  /\ s.how # "value" => s.from \in DOMAIN c
  /\ What(c, s) \in Values
  /\ (s.does = "construct") = (c[s.to] \in Blank)

Result(c, s) ==
  [j \in DOMAIN c |-> IF j = s.to THEN What(c, s)
                      ELSE IF s.how = "move" /\ j = s.from THEN Moved ELSE c[j]]

\* A vector in which nothing has gone wrong.
Vector(data, size, capacity, c) ==
  [m_data |-> data, m_size |-> size, m_capacity |-> capacity, cells |-> c, ok |-> TRUE]

\* A record is a vector if its members are; and what becomes of it when some
\* of them change.
Members(data, size, capacity, c) ==
  [m_data : {data}, m_size : {size}, m_capacity : {capacity}, cells : {c}, ok : {TRUE}]

LEMMA OneVector ==
  ASSUME NEW data, NEW size, NEW capacity, NEW c, NEW v
  PROVE  v \in Members(data, size, capacity, c) <=> v = Vector(data, size, capacity, c)
<1>1. ASSUME v \in Members(data, size, capacity, c) PROVE v = Vector(data, size, capacity, c)
  BY <1>1 DEF Members, Vector
<1>2. Vector(data, size, capacity, c) \in Members(data, size, capacity, c)
  BY DEF Members, Vector
<1> QED BY <1>1, <1>2, Zenon

LEMMA OtherSize ==
  ASSUME NEW data, NEW size, NEW capacity, NEW c, NEW n
  PROVE  WithSize(Vector(data, size, capacity, c), n) = Vector(data, n, capacity, c)
<1>1. ASSUME NEW w \in Members(data, size, capacity, c)
      PROVE  WithSize(w, n) \in Members(data, n, capacity, c)
  BY DEF Members, WithSize
<1> DEFINE v == Vector(data, size, capacity, c)
<1>2. v \in Members(data, size, capacity, c)
  BY OneVector, Zenon
<1> HIDE DEF v
<1>3. WithSize(v, n) \in Members(data, n, capacity, c)
  BY <1>1, <1>2, Zenon
<1>4. WithSize(v, n) = Vector(data, n, capacity, c)
  BY <1>3, OneVector
<1> QED BY <1>4, Zenon DEF v

LEMMA OtherCells ==
  ASSUME NEW data, NEW size, NEW capacity, NEW c, NEW d
  PROVE  WithCells(Vector(data, size, capacity, c), d, TRUE) = Vector(data, size, capacity, d)
<1>1. ASSUME NEW w \in Members(data, size, capacity, c)
      PROVE  WithCells(w, d, TRUE) \in Members(data, size, capacity, d)
  BY DEF Members, WithCells
<1> DEFINE v == Vector(data, size, capacity, c)
<1>2. v \in Members(data, size, capacity, c)
  BY OneVector, Zenon
<1> HIDE DEF v
<1>3. WithCells(v, d, TRUE) \in Members(data, size, capacity, d)
  BY <1>1, <1>2
<1>4. WithCells(v, d, TRUE) = Vector(data, size, capacity, d)
  BY <1>3, OneVector
<1> QED BY <1>4, Zenon DEF v

LEMMA OneStep ==
  ASSUME NEW n \in Nat, NEW c \in Cells(n), NEW s \in Steps, Legal(c, s),
         NEW data, NEW size, NEW capacity
  PROVE  Do(Vector(data, size, capacity, c), s) = Vector(data, size, capacity, Result(c, s))
<1> DEFINE v == Vector(data, size, capacity, c)
           taken == IF s.how = "value" THEN s.from ELSE v.cells[s.from]
           emptied == IF s.how = "move" THEN [v.cells EXCEPT ![s.from] = Moved] ELSE v.cells
           d == [emptied EXCEPT ![s.to] = taken]
<1>1. v.cells = c
  BY DEF Vector
<1>2. taken = What(c, s)
  BY <1>1 DEF What
<1>3. (IF s.how = "value" THEN {s.to} ELSE {s.to, s.from}) \subseteq DOMAIN v.cells
  BY <1>1 DEF Legal
<1>4. d = Result(c, s)
  BY <1>1, <1>2 DEF Result, Cells, Legal
<1>5. (taken \in Values /\ (s.does = "construct") = (v.cells[s.to] \in Blank)) = TRUE
  BY <1>1, <1>2 DEF Legal
<1>6. Do(v, s) = WithCells(v, d, TRUE)
  BY <1>3, <1>5, Zenon DEF Do
<1> HIDE DEF d
<1>7. WithCells(v, d, TRUE) = Vector(data, size, capacity, d)
  BY OtherCells, Zenon
<1> QED BY <1>4, <1>6, <1>7, Zenon

\* The steps, one after the other, make e of c.
Runs(n, c, steps, e) ==
  /\ steps \in Seq(Steps)
  /\ \E C \in [0 .. Len(steps) -> Cells(n)] :
       /\ C[0] = c /\ C[Len(steps)] = e
       /\ \A k \in 1 .. Len(steps) : Legal(C[k - 1], steps[k]) /\ C[k] = Result(C[k - 1], steps[k])

LEMMA AllSteps ==
  ASSUME NEW n \in Nat, NEW c, NEW steps, NEW e, Runs(n, c, steps, e),
         NEW data, NEW size, NEW capacity
  PROVE  DoAll(Vector(data, size, capacity, c), steps) = Vector(data, size, capacity, e)
<1> DEFINE v == Vector(data, size, capacity, c)
           m == Len(steps)
           Solves(f) == f = [k \in 0 .. m |-> IF k = 0 THEN v ELSE Do(f[k - 1], steps[k])]
           F == CHOOSE f : Solves(f)
<1>1. PICK C \in [0 .. m -> Cells(n)] :
        /\ C[0] = c /\ C[m] = e
        /\ \A k \in 1 .. m : Legal(C[k - 1], steps[k]) /\ C[k] = Result(C[k - 1], steps[k])
  BY DEF Runs
<1> DEFINE G == [k \in 0 .. m |-> Vector(data, size, capacity, C[k])]
<1>2. m \in Nat /\ \A k \in 1 .. m : steps[k] \in Steps
  BY LenProperties DEF Runs
<1>3. \A k \in 1 .. m : k \in 0 .. m /\ k - 1 \in 0 .. m /\ k # 0
  BY <1>2
<1>4. ASSUME NEW k \in 1 .. m PROVE G[k] = Do(G[k - 1], steps[k])
  <2>1. /\ C[k - 1] \in Cells(n) /\ steps[k] \in Steps /\ Legal(C[k - 1], steps[k])
        /\ C[k] = Result(C[k - 1], steps[k])
    BY <1>1, <1>2, <1>3
  <2>2. Do(Vector(data, size, capacity, C[k - 1]), steps[k]) = Vector(data, size, capacity, C[k])
    BY <2>1, OneStep
  <2>3. G[k] = Vector(data, size, capacity, C[k]) /\ G[k - 1] = Vector(data, size, capacity, C[k - 1])
    BY <1>3, Zenon
  <2> QED BY <2>2, <2>3, Zenon
<1>5. G[0] = v /\ 0 \in 0 .. m /\ m \in 0 .. m
  BY <1>1, <1>2
<1>6. Solves(G)
  <2>1. \A k \in 0 .. m : G[k] = IF k = 0 THEN v ELSE Do(G[k - 1], steps[k])
    <3> TAKE k \in 0 .. m
    <3>1. k = 0 \/ k \in 1 .. m
      BY <1>2
    <3> HIDE DEF G
    <3> QED BY <3>1, <1>3, <1>4, <1>5, Zenon
  <2>2. G = [k \in 0 .. m |-> G[k]]
    OBVIOUS
  <2> HIDE DEF G
  <2> QED BY <2>1, <2>2, Zenon
<1>7. DoAll(v, steps) = F[m]
  BY Zenon DEF DoAll
<1> HIDE DEF Solves
<1>8. Solves(F)
  BY <1>6, Zenon
<1> HIDE DEF F, v
<1>9. \A k \in 0 .. m : F[k] = IF k = 0 THEN v ELSE Do(F[k - 1], steps[k])
  BY <1>8, Zenon DEF Solves
<1> DEFINE Bad == {k \in 0 .. m : F[k] # G[k]}
<1>10. Bad = {}
  <2> SUFFICES ASSUME Bad # {} PROVE FALSE
    OBVIOUS
  <2>1. Bad \in SUBSET Nat
    OBVIOUS
  <2>2. PICK k \in Bad : \A i \in Bad : k <= i
    BY <2>1, LeastNatural
  <2>3. k \in 0 .. m /\ F[k] # G[k]
    OBVIOUS
  <2>4. k # 0
    BY <1>5, <1>9, <2>3
  <2>5. k \in 1 .. m /\ k - 1 \in 0 .. m /\ ~(k <= k - 1)
    BY <1>2, <2>3, <2>4
  <2>6. F[k - 1] = G[k - 1]
    <3>1. k - 1 \notin Bad
      BY <2>2, <2>5, Zenon
    <3> QED BY <2>5, <3>1, Zenon
  <2>7. F[k] = Do(F[k - 1], steps[k]) /\ G[k] = Do(G[k - 1], steps[k])
    BY <1>4, <1>9, <2>3, <2>4, <2>5, Zenon
  <2> QED BY <2>3, <2>6, <2>7, Zenon
<1>11. F[m] = G[m]
  BY <1>5, <1>10
<1>12. G[m] = Vector(data, size, capacity, e)
  BY <1>1, <1>5, Zenon
<1> QED BY <1>7, <1>11, <1>12, Zenon DEF v

-----------------------------------------------------------------------------
(* The loops.                                                              *)

\* A loop, by what the cells are after each of its turns.
LEMMA Loop ==
  ASSUME NEW n \in Nat, NEW m \in Nat, NEW steps \in [1 .. m -> Steps],
         NEW C \in [0 .. m -> Cells(n)],
         \A k \in 1 .. m :
           /\ Legal(C[k - 1], steps[k])
           /\ \A j \in 0 .. n - 1 : C[k][j] = Result(C[k - 1], steps[k])[j]
  PROVE  Runs(n, C[0], steps, C[m])
<1>1. steps \in Seq(Steps) /\ Len(steps) = m
  BY FunctionIsSequence
<1>2. ASSUME NEW k \in 1 .. m PROVE C[k] = Result(C[k - 1], steps[k])
  <2>1. C[k - 1] \in Cells(n) /\ C[k] \in Cells(n)
    OBVIOUS
  <2>2. DOMAIN Result(C[k - 1], steps[k]) = 0 .. n - 1
    BY <2>1 DEF Result, Cells
  <2>3. Result(C[k - 1], steps[k]) = [j \in 0 .. n - 1 |-> Result(C[k - 1], steps[k])[j]]
    BY <2>2, <2>1 DEF Result, Cells
  <2> QED BY <2>1, <2>3 DEF Cells
<1> QED BY <1>1, <1>2 DEF Runs

\* One loop after another.
LEMMA Then ==
  ASSUME NEW n \in Nat, NEW c, NEW d, NEW e, NEW s, NEW t, Runs(n, c, s, d), Runs(n, d, t, e)
  PROVE  Runs(n, c, s \o t, e)
<1>1. PICK C \in [0 .. Len(s) -> Cells(n)] :
        /\ C[0] = c /\ C[Len(s)] = d
        /\ \A k \in 1 .. Len(s) : Legal(C[k - 1], s[k]) /\ C[k] = Result(C[k - 1], s[k])
  BY DEF Runs
<1>2. PICK D \in [0 .. Len(t) -> Cells(n)] :
        /\ D[0] = d /\ D[Len(t)] = e
        /\ \A k \in 1 .. Len(t) : Legal(D[k - 1], t[k]) /\ D[k] = Result(D[k - 1], t[k])
  BY DEF Runs
<1> DEFINE a == Len(s)
           b == Len(t)
           u == s \o t
           F == [k \in 0 .. a + b |-> IF k <= a THEN C[k] ELSE D[k - a]]
<1>3. /\ a \in Nat /\ b \in Nat /\ u \in Seq(Steps) /\ Len(u) = a + b
      /\ \A k \in 1 .. a + b : u[k] = IF k <= a THEN s[k] ELSE t[k - a]
  BY ConcatProperties, LenProperties DEF Runs
<1> HIDE DEF u, a, b
<1>4. F \in [0 .. a + b -> Cells(n)]
  BY <1>1, <1>2, <1>3 DEF a, b
<1>5. F[0] = c /\ F[a + b] = e
  BY <1>1, <1>2, <1>3 DEF a, b
<1>6. ASSUME NEW k \in 1 .. a + b PROVE Legal(F[k - 1], u[k]) /\ F[k] = Result(F[k - 1], u[k])
  <2>1. CASE k <= a
    <3>1. k \in 1 .. a /\ F[k] = C[k] /\ F[k - 1] = C[k - 1] /\ u[k] = s[k]
      BY <2>1, <1>3
    <3> QED BY <3>1, <1>1 DEF a
  <2>2. CASE ~(k <= a)
    <3>1. k - a \in 1 .. b /\ (k - a) - 1 \in 0 .. b /\ F[k] = D[k - a] /\ u[k] = t[k - a]
      BY <2>2, <1>3
    <3>2. F[k - 1] = D[(k - a) - 1]
      <4>1. CASE k - 1 = a
        BY <4>1, <3>1, <1>1, <1>2, <1>3 DEF a
      <4>2. CASE k - 1 # a
        <5>1. ~(k - 1 <= a) /\ k - 1 \in 0 .. a + b /\ (k - 1) - a = (k - a) - 1
          BY <4>2, <2>2, <1>3
        <5> QED BY <5>1
      <4> QED BY <4>1, <4>2
    <3> QED BY <3>1, <3>2, <1>2 DEF b
  <2> QED BY <2>1, <2>2
<1> HIDE DEF F
<1> QED BY <1>3, <1>4, <1>5, <1>6 DEF Runs, u

\* A single step.
LEMMA Once ==
  ASSUME NEW n \in Nat, NEW c \in Cells(n), NEW s \in Steps, Legal(c, s), Result(c, s) \in Cells(n)
  PROVE  Runs(n, c, <<s>>, Result(c, s))
<1> DEFINE steps == <<s>>
           C == [k \in 0 .. 1 |-> IF k = 0 THEN c ELSE Result(c, s)]
<1>1. steps \in Seq(Steps) /\ Len(steps) = 1 /\ steps[1] = s
  OBVIOUS
<1>2. C \in [0 .. 1 -> Cells(n)] /\ C[0] = c /\ C[1] = Result(c, s)
  OBVIOUS
<1> HIDE DEF steps, C
<1>3. \A k \in 1 .. 1 : Legal(C[k - 1], steps[k]) /\ C[k] = Result(C[k - 1], steps[k])
  BY <1>1, <1>2
<1> QED BY <1>1, <1>2, <1>3 DEF Runs, steps

LEMMA ResultAt ==
  ASSUME NEW n \in Nat, NEW c \in Cells(n), NEW s
  PROVE  /\ DOMAIN c = 0 .. n - 1
         /\ \A j \in 0 .. n - 1 : Result(c, s)[j] = IF j = s.to THEN What(c, s)
                                                    ELSE IF s.how = "move" /\ j = s.from THEN Moved ELSE c[j]
BY DEF Cells, Result

\* Values are put into m cells, one after the other.
PutSteps(does, a, m, xs) ==
  [k \in 1 .. m |-> [does |-> does, to |-> a + k - 1, how |-> "value", from |-> xs[k]]]
PutCells(n, c, a, m, xs) ==
  [j \in 0 .. n - 1 |-> IF a <= j /\ j < a + m THEN xs[j - a + 1] ELSE c[j]]

LEMMA PutValues ==
  ASSUME NEW n \in Nat, NEW c \in Cells(n), NEW a \in Nat, NEW m \in Nat, a + m <= n,
         NEW xs \in [1 .. m -> Values], NEW does \in {"construct", "assign"},
         \A j \in a .. a + m - 1 : (does = "construct") = (c[j] \in Blank)
  PROVE  Runs(n, c, PutSteps(does, a, m, xs), PutCells(n, c, a, m, xs))
<1> DEFINE S(k) == [does |-> does, to |-> a + k - 1, how |-> "value", from |-> xs[k]]
           steps == [k \in 1 .. m |-> S(k)]
           At(k, j) == IF a <= j /\ j < a + k THEN xs[j - a + 1] ELSE c[j]
           C == [k \in 0 .. m |-> [j \in 0 .. n - 1 |-> At(k, j)]]
<1>1. steps \in [1 .. m -> Steps]
  BY DEF Steps
<1>2. C \in [0 .. m -> Cells(n)]
  <2>1. ASSUME NEW k \in 0 .. m, NEW j \in 0 .. n - 1 PROVE At(k, j) \in CellValues
    BY DEF Cells, CellValues
  <2> QED BY <2>1 DEF Cells
<1>3. ASSUME NEW k \in 1 .. m
      PROVE  /\ Legal(C[k - 1], steps[k])
             /\ \A j \in 0 .. n - 1 : C[k][j] = Result(C[k - 1], steps[k])[j]
  <2>1. steps[k] = S(k) /\ S(k).does = does /\ S(k).to = a + k - 1 /\ S(k).how = "value" /\ S(k).from = xs[k]
    OBVIOUS
  <2>2. k \in 0 .. m /\ k - 1 \in 0 .. m /\ a + k - 1 \in 0 .. n - 1 /\ a + k - 1 \in a .. a + m - 1
    OBVIOUS
  <2>3. C[k - 1] \in Cells(n) /\ \A j \in 0 .. n - 1 : C[k - 1][j] = At(k - 1, j) /\ C[k][j] = At(k, j)
    BY <1>2, <2>2
  <2>4. What(C[k - 1], steps[k]) = xs[k] /\ xs[k] \in Values
    BY <2>1 DEF What
  <2>5. At(k - 1, a + k - 1) = c[a + k - 1]
    OBVIOUS
  <2>6. \A j \in 0 .. n - 1 : At(k, j) = IF j = a + k - 1 THEN xs[k] ELSE At(k - 1, j)
    OBVIOUS
  <2> HIDE DEF C, At, S, steps
  <2>7. /\ DOMAIN C[k - 1] = 0 .. n - 1
        /\ \A j \in 0 .. n - 1 : Result(C[k - 1], steps[k])[j] =
             IF j = a + k - 1 THEN xs[k] ELSE At(k - 1, j)
    <3> DEFINE e == C[k - 1]
               s == steps[k]
    <3>1. e \in Cells(n)
      BY <2>3
    <3>2. s.how # "move" /\ s.to = a + k - 1 /\ What(e, s) = xs[k] /\ \A j \in 0 .. n - 1 : e[j] = At(k - 1, j)
      BY <2>1, <2>3, <2>4
    <3> HIDE DEF e, s
    <3>3. /\ DOMAIN e = 0 .. n - 1
          /\ \A j \in 0 .. n - 1 : Result(e, s)[j] = IF j = s.to THEN What(e, s)
                                                   ELSE IF s.how = "move" /\ j = s.from THEN Moved ELSE e[j]
      BY <3>1, ResultAt
    <3>4. DOMAIN e = 0 .. n - 1 /\ \A j \in 0 .. n - 1 : Result(e, s)[j] = IF j = a + k - 1 THEN xs[k] ELSE At(k - 1, j)
      BY <3>2, <3>3
    <3> QED BY <3>4 DEF e, s
  <2>8. Legal(C[k - 1], steps[k])
    BY <2>1, <2>2, <2>3, <2>4, <2>5, <2>7 DEF Legal
  <2> QED BY <2>3, <2>6, <2>7, <2>8
<1>4. C[0] = c /\ C[m] = [j \in 0 .. n - 1 |-> At(m, j)]
  BY DEF Cells
<1> HIDE DEF C, steps, At, S
<1>5. Runs(n, C[0], steps, C[m])
  BY <1>1, <1>2, <1>3, Loop
<1> QED BY <1>4, <1>5 DEF steps, S, At, PutSteps, PutCells


\* m elements from a on are copied to fresh cells from b on.
CopySteps(b, a, m) ==
  [k \in 1 .. m |-> [does |-> "construct", to |-> b + k - 1, how |-> "copy", from |-> a + k - 1]]
CopyCells(n, c, b, a, m) ==
  [j \in 0 .. n - 1 |-> IF b <= j /\ j < b + m THEN c[j - b + a] ELSE c[j]]

LEMMA CopyToFresh ==
  ASSUME NEW n \in Nat, NEW c \in Cells(n), NEW a \in Nat, NEW b \in Nat, NEW m \in Nat,
         a + m <= b, b + m <= n,
         \A j \in a .. a + m - 1 : c[j] \in Values, \A j \in b .. b + m - 1 : c[j] \in Blank
  PROVE  Runs(n, c, CopySteps(b, a, m), CopyCells(n, c, b, a, m))
<1> DEFINE S(k) == [does |-> "construct", to |-> b + k - 1, how |-> "copy", from |-> a + k - 1]
           steps == [k \in 1 .. m |-> S(k)]
           At(k, j) == IF b <= j /\ j < b + k THEN c[j - b + a] ELSE c[j]
           C == [k \in 0 .. m |-> [j \in 0 .. n - 1 |-> At(k, j)]]
<1>1. steps \in [1 .. m -> Steps]
  BY DEF Steps
<1>2. C \in [0 .. m -> Cells(n)]
  <2>1. ASSUME NEW k \in 0 .. m, NEW j \in 0 .. n - 1 PROVE At(k, j) \in CellValues
    BY DEF Cells, CellValues
  <2> QED BY <2>1 DEF Cells
<1>3. ASSUME NEW k \in 1 .. m
      PROVE  /\ Legal(C[k - 1], steps[k])
             /\ \A j \in 0 .. n - 1 : C[k][j] = Result(C[k - 1], steps[k])[j]
  <2>1. /\ steps[k] = S(k) /\ S(k).does = "construct" /\ S(k).to = b + k - 1
        /\ S(k).how = "copy" /\ S(k).from = a + k - 1
    OBVIOUS
  <2>2. k \in 0 .. m /\ k - 1 \in 0 .. m /\ b + k - 1 \in 0 .. n - 1 /\ a + k - 1 \in 0 .. n - 1
    OBVIOUS
  <2>3. C[k - 1] \in Cells(n) /\ \A j \in 0 .. n - 1 : C[k - 1][j] = At(k - 1, j) /\ C[k][j] = At(k, j)
    BY <1>2, <2>2
  <2>4. At(k - 1, a + k - 1) = c[a + k - 1] /\ c[a + k - 1] \in Values
    OBVIOUS
  <2>5. What(C[k - 1], steps[k]) = c[a + k - 1]
    BY <2>1, <2>2, <2>3, <2>4 DEF What
  <2>6. ("construct" = "construct") = (At(k - 1, b + k - 1) \in Blank)
    BY BlankFacts
  <2>7. \A j \in 0 .. n - 1 : At(k, j) = IF j = b + k - 1 THEN c[a + k - 1]
                                       ELSE At(k - 1, j)
    OBVIOUS
  <2> HIDE DEF C, At, S, steps
  <2>8. /\ DOMAIN C[k - 1] = 0 .. n - 1
        /\ \A j \in 0 .. n - 1 : Result(C[k - 1], steps[k])[j] =
             IF j = steps[k].to THEN What(C[k - 1], steps[k])
             ELSE IF steps[k].how = "move" /\ j = steps[k].from THEN Moved ELSE C[k - 1][j]
    BY <2>3, ResultAt
  <2>9. /\ DOMAIN C[k - 1] = 0 .. n - 1
        /\ \A j \in 0 .. n - 1 : Result(C[k - 1], steps[k])[j] =
             IF j = b + k - 1 THEN c[a + k - 1]
             ELSE At(k - 1, j)
    BY <2>1, <2>3, <2>5, <2>8
  <2>10. Legal(C[k - 1], steps[k])
    BY <2>1, <2>2, <2>3, <2>4, <2>5, <2>6, <2>9 DEF Legal
  <2> QED BY <2>3, <2>7, <2>9, <2>10
<1>4. C[0] = c /\ C[m] = [j \in 0 .. n - 1 |-> At(m, j)]
  BY DEF Cells
<1> HIDE DEF C, steps, At, S
<1>5. Runs(n, C[0], steps, C[m])
  <2>1. m \in Nat
    OBVIOUS
  <2> QED BY <2>1, <1>1, <1>2, <1>3, Loop
<1> QED BY <1>4, <1>5 DEF steps, S, At, CopySteps, CopyCells

\* m elements are copied by d cells towards the end e, the last of them first.
BackSteps(e, d, m) ==
  [k \in 1 .. m |-> [does |-> "assign", to |-> e - k, how |-> "copy", from |-> e - k - d]]
BackCells(n, c, e, d, m) ==
  [j \in 0 .. n - 1 |-> IF e - m <= j /\ j < e THEN c[j - d] ELSE c[j]]

LEMMA CopyBackwards ==
  ASSUME NEW n \in Nat, NEW c \in Cells(n), NEW e \in 0 .. n, NEW d \in Nat, NEW m \in Nat,
         m + d <= e, \A j \in e - m - d .. e - 1 : c[j] \in Values
  PROVE  Runs(n, c, BackSteps(e, d, m), BackCells(n, c, e, d, m))
<1> DEFINE S(k) == [does |-> "assign", to |-> e - k, how |-> "copy", from |-> e - k - d]
           steps == [k \in 1 .. m |-> S(k)]
           At(k, j) == IF e - k <= j /\ j < e THEN c[j - d] ELSE c[j]
           C == [k \in 0 .. m |-> [j \in 0 .. n - 1 |-> At(k, j)]]
<1>1. steps \in [1 .. m -> Steps]
  BY DEF Steps
<1>2. C \in [0 .. m -> Cells(n)]
  <2>1. ASSUME NEW k \in 0 .. m, NEW j \in 0 .. n - 1 PROVE At(k, j) \in CellValues
    BY DEF Cells, CellValues
  <2> QED BY <2>1 DEF Cells
<1>3. ASSUME NEW k \in 1 .. m
      PROVE  /\ Legal(C[k - 1], steps[k])
             /\ \A j \in 0 .. n - 1 : C[k][j] = Result(C[k - 1], steps[k])[j]
  <2>1. /\ steps[k] = S(k) /\ S(k).does = "assign" /\ S(k).to = e - k
        /\ S(k).how = "copy" /\ S(k).from = e - k - d
    OBVIOUS
  <2>2. k \in 0 .. m /\ k - 1 \in 0 .. m /\ e - k \in 0 .. n - 1 /\ e - k - d \in 0 .. n - 1
    OBVIOUS
  <2>3. C[k - 1] \in Cells(n) /\ \A j \in 0 .. n - 1 : C[k - 1][j] = At(k - 1, j) /\ C[k][j] = At(k, j)
    BY <1>2, <2>2
  <2>4. At(k - 1, e - k - d) = c[e - k - d] /\ c[e - k - d] \in Values
    OBVIOUS
  <2>5. What(C[k - 1], steps[k]) = c[e - k - d]
    BY <2>1, <2>2, <2>3, <2>4 DEF What
  <2>6. ("assign" = "construct") = (At(k - 1, e - k) \in Blank)
    BY BlankFacts
  <2>7. \A j \in 0 .. n - 1 : At(k, j) = IF j = e - k THEN c[e - k - d]
                                       ELSE At(k - 1, j)
    OBVIOUS
  <2> HIDE DEF C, At, S, steps
  <2>8. /\ DOMAIN C[k - 1] = 0 .. n - 1
        /\ \A j \in 0 .. n - 1 : Result(C[k - 1], steps[k])[j] =
             IF j = steps[k].to THEN What(C[k - 1], steps[k])
             ELSE IF steps[k].how = "move" /\ j = steps[k].from THEN Moved ELSE C[k - 1][j]
    BY <2>3, ResultAt
  <2>9. /\ DOMAIN C[k - 1] = 0 .. n - 1
        /\ \A j \in 0 .. n - 1 : Result(C[k - 1], steps[k])[j] =
             IF j = e - k THEN c[e - k - d]
             ELSE At(k - 1, j)
    BY <2>1, <2>3, <2>5, <2>8
  <2>10. Legal(C[k - 1], steps[k])
    BY <2>1, <2>2, <2>3, <2>4, <2>5, <2>6, <2>9 DEF Legal
  <2> QED BY <2>3, <2>7, <2>9, <2>10
<1>4. C[0] = c /\ C[m] = [j \in 0 .. n - 1 |-> At(m, j)]
  BY DEF Cells
<1> HIDE DEF C, steps, At, S
<1>5. Runs(n, C[0], steps, C[m])
  <2>1. m \in Nat
    OBVIOUS
  <2> QED BY <2>1, <1>1, <1>2, <1>3, Loop
<1> QED BY <1>4, <1>5 DEF steps, S, At, BackSteps, BackCells

\* m elements are moved by d cells towards the beginning, the first of them first.
DownSteps(a, m, d) ==
  [k \in 1 .. m |-> [does |-> "assign", to |-> a + k - 1, how |-> "move", from |-> a + k - 1 + d]]
DownCells(n, c, a, m, d) ==
  [j \in 0 .. n - 1 |-> IF a <= j /\ j < a + m THEN c[j + d]
                        ELSE IF a + d <= j /\ j < a + d + m THEN Moved ELSE c[j]]

LEMMA MoveDown ==
  ASSUME NEW n \in Nat, NEW c \in Cells(n), NEW a \in Nat, NEW m \in Nat, NEW d \in Nat \ {0},
         a + m + d <= n, \A j \in a .. a + m + d - 1 : c[j] \in Values
  PROVE  Runs(n, c, DownSteps(a, m, d), DownCells(n, c, a, m, d))
<1> DEFINE S(k) == [does |-> "assign", to |-> a + k - 1, how |-> "move", from |-> a + k - 1 + d]
           steps == [k \in 1 .. m |-> S(k)]
           At(k, j) == IF a <= j /\ j < a + k THEN c[j + d] ELSE IF a + d <= j /\ j < a + d + k THEN Moved ELSE c[j]
           C == [k \in 0 .. m |-> [j \in 0 .. n - 1 |-> At(k, j)]]
<1>1. steps \in [1 .. m -> Steps]
  BY DEF Steps
<1>2. C \in [0 .. m -> Cells(n)]
  <2>1. ASSUME NEW k \in 0 .. m, NEW j \in 0 .. n - 1 PROVE At(k, j) \in CellValues
    BY DEF Cells, CellValues
  <2> QED BY <2>1 DEF Cells
<1>3. ASSUME NEW k \in 1 .. m
      PROVE  /\ Legal(C[k - 1], steps[k])
             /\ \A j \in 0 .. n - 1 : C[k][j] = Result(C[k - 1], steps[k])[j]
  <2>1. /\ steps[k] = S(k) /\ S(k).does = "assign" /\ S(k).to = a + k - 1
        /\ S(k).how = "move" /\ S(k).from = a + k - 1 + d
    OBVIOUS
  <2>2. k \in 0 .. m /\ k - 1 \in 0 .. m /\ a + k - 1 \in 0 .. n - 1 /\ a + k - 1 + d \in 0 .. n - 1
    OBVIOUS
  <2>3. C[k - 1] \in Cells(n) /\ \A j \in 0 .. n - 1 : C[k - 1][j] = At(k - 1, j) /\ C[k][j] = At(k, j)
    BY <1>2, <2>2
  <2>4. At(k - 1, a + k - 1 + d) = c[a + k - 1 + d] /\ c[a + k - 1 + d] \in Values
    OBVIOUS
  <2>5. What(C[k - 1], steps[k]) = c[a + k - 1 + d]
    BY <2>1, <2>2, <2>3, <2>4 DEF What
  <2>6. ("assign" = "construct") = (At(k - 1, a + k - 1) \in Blank)
    BY BlankFacts
  <2>7. \A j \in 0 .. n - 1 : At(k, j) = IF j = a + k - 1 THEN c[a + k - 1 + d]
                                       ELSE IF j = a + k - 1 + d THEN Moved ELSE At(k - 1, j)
    OBVIOUS
  <2> HIDE DEF C, At, S, steps
  <2>8. /\ DOMAIN C[k - 1] = 0 .. n - 1
        /\ \A j \in 0 .. n - 1 : Result(C[k - 1], steps[k])[j] =
             IF j = steps[k].to THEN What(C[k - 1], steps[k])
             ELSE IF steps[k].how = "move" /\ j = steps[k].from THEN Moved ELSE C[k - 1][j]
    BY <2>3, ResultAt
  <2>9. /\ DOMAIN C[k - 1] = 0 .. n - 1
        /\ \A j \in 0 .. n - 1 : Result(C[k - 1], steps[k])[j] =
             IF j = a + k - 1 THEN c[a + k - 1 + d]
             ELSE IF j = a + k - 1 + d THEN Moved ELSE At(k - 1, j)
    BY <2>1, <2>3, <2>5, <2>8
  <2>10. Legal(C[k - 1], steps[k])
    BY <2>1, <2>2, <2>3, <2>4, <2>5, <2>6, <2>9 DEF Legal
  <2> QED BY <2>3, <2>7, <2>9, <2>10
<1>4. C[0] = c /\ C[m] = [j \in 0 .. n - 1 |-> At(m, j)]
  BY DEF Cells
<1> HIDE DEF C, steps, At, S
<1>5. Runs(n, C[0], steps, C[m])
  <2>1. m \in Nat
    OBVIOUS
  <2> QED BY <2>1, <1>1, <1>2, <1>3, Loop
<1> QED BY <1>4, <1>5 DEF steps, S, At, DownSteps, DownCells

\* m elements are moved by one cell towards the end e, the last of them first.
UpSteps(e, m) ==
  [k \in 1 .. m |-> [does |-> "assign", to |-> e - k, how |-> "move", from |-> e - k - 1]]
UpCells(n, c, e, m) ==
  [j \in 0 .. n - 1 |-> IF e - m <= j /\ j < e THEN c[j - 1] ELSE IF m > 0 /\ j = e - m - 1 THEN Moved ELSE c[j]]

LEMMA MoveUp ==
  ASSUME NEW n \in Nat, NEW c \in Cells(n), NEW e \in 1 .. n, NEW m \in 0 .. e - 1,
         c[e - 1] \notin Blank, \A j \in e - m - 1 .. e - 2 : c[j] \in Values
  PROVE  Runs(n, c, UpSteps(e, m), UpCells(n, c, e, m))
<1> DEFINE S(k) == [does |-> "assign", to |-> e - k, how |-> "move", from |-> e - k - 1]
           steps == [k \in 1 .. m |-> S(k)]
           At(k, j) == IF e - k <= j /\ j < e THEN c[j - 1] ELSE IF k > 0 /\ j = e - k - 1 THEN Moved ELSE c[j]
           C == [k \in 0 .. m |-> [j \in 0 .. n - 1 |-> At(k, j)]]
<1>1. steps \in [1 .. m -> Steps]
  BY DEF Steps
<1>2. C \in [0 .. m -> Cells(n)]
  <2>1. ASSUME NEW k \in 0 .. m, NEW j \in 0 .. n - 1 PROVE At(k, j) \in CellValues
    BY DEF Cells, CellValues
  <2> QED BY <2>1 DEF Cells
<1>3. ASSUME NEW k \in 1 .. m
      PROVE  /\ Legal(C[k - 1], steps[k])
             /\ \A j \in 0 .. n - 1 : C[k][j] = Result(C[k - 1], steps[k])[j]
  <2>1. /\ steps[k] = S(k) /\ S(k).does = "assign" /\ S(k).to = e - k
        /\ S(k).how = "move" /\ S(k).from = e - k - 1
    OBVIOUS
  <2>2. k \in 0 .. m /\ k - 1 \in 0 .. m /\ e - k \in 0 .. n - 1 /\ e - k - 1 \in 0 .. n - 1
    OBVIOUS
  <2>3. C[k - 1] \in Cells(n) /\ \A j \in 0 .. n - 1 : C[k - 1][j] = At(k - 1, j) /\ C[k][j] = At(k, j)
    BY <1>2, <2>2
  <2>4. At(k - 1, e - k - 1) = c[e - k - 1] /\ c[e - k - 1] \in Values
    OBVIOUS
  <2>5. What(C[k - 1], steps[k]) = c[e - k - 1]
    BY <2>1, <2>2, <2>3, <2>4 DEF What
  <2>6. ("assign" = "construct") = (At(k - 1, e - k) \in Blank)
    BY BlankFacts
  <2>7. \A j \in 0 .. n - 1 : At(k, j) = IF j = e - k THEN c[e - k - 1]
                                       ELSE IF j = e - k - 1 THEN Moved ELSE At(k - 1, j)
    OBVIOUS
  <2> HIDE DEF C, At, S, steps
  <2>8. /\ DOMAIN C[k - 1] = 0 .. n - 1
        /\ \A j \in 0 .. n - 1 : Result(C[k - 1], steps[k])[j] =
             IF j = steps[k].to THEN What(C[k - 1], steps[k])
             ELSE IF steps[k].how = "move" /\ j = steps[k].from THEN Moved ELSE C[k - 1][j]
    BY <2>3, ResultAt
  <2>9. /\ DOMAIN C[k - 1] = 0 .. n - 1
        /\ \A j \in 0 .. n - 1 : Result(C[k - 1], steps[k])[j] =
             IF j = e - k THEN c[e - k - 1]
             ELSE IF j = e - k - 1 THEN Moved ELSE At(k - 1, j)
    BY <2>1, <2>3, <2>5, <2>8
  <2>10. Legal(C[k - 1], steps[k])
    BY <2>1, <2>2, <2>3, <2>4, <2>5, <2>6, <2>9 DEF Legal
  <2> QED BY <2>3, <2>7, <2>9, <2>10
<1>4. C[0] = c /\ C[m] = [j \in 0 .. n - 1 |-> At(m, j)]
  BY DEF Cells
<1> HIDE DEF C, steps, At, S
<1>5. Runs(n, C[0], steps, C[m])
  <2>1. m \in Nat
    OBVIOUS
  <2> QED BY <2>1, <1>1, <1>2, <1>3, Loop
<1> QED BY <1>4, <1>5 DEF steps, S, At, UpSteps, UpCells

-----------------------------------------------------------------------------
(* One vector.                                                             *)

Datas == Blocks \cup {Null, Inline}

\* What may be in the cells behind the elements.
Rests == [Nat -> Blank]

\* n cells of which the first hold s and the others no elements.
CellsOf(s, n, z) == [j \in 0 .. n - 1 |-> IF j < Len(s) THEN s[j + 1] ELSE z[j]]

\* The vector v holds s in n cells at data, and may use as many as its capacity.
Has(v, s, data, capacity, n, z) ==
  /\ s \in Seq(Values) /\ data \in Datas /\ capacity \in Nat /\ n \in Nat /\ z \in Rests
  /\ Len(s) <= capacity /\ capacity <= n
  /\ data = Inline => n = N
  /\ v = Vector(data, Len(s), capacity, CellsOf(s, n, z))

Good(v, s) == \E data, capacity, n, z : Has(v, s, data, capacity, n, z)

\* An operation has made w, which holds t, of v, in its place or a new block.
Makes(v, w, t) == Good(w, t) /\ w.m_data \in {v.m_data, FreshBlock}

\* What that says of its members.
Reads(v, s, data, capacity, n, z) ==
  /\ v.m_data = data /\ v.m_size = Len(s) /\ v.m_capacity = capacity /\ v.ok = TRUE
  /\ v.cells = CellsOf(s, n, z) /\ v.cells \in Cells(n) /\ Len(s) \in Nat /\ DOMAIN v.cells = 0 .. n - 1
  /\ \A j \in 0 .. Len(s) - 1 : v.cells[j] = s[j + 1] /\ v.cells[j] \in Values
  /\ \A j \in Len(s) .. n - 1 : v.cells[j] = z[j] /\ v.cells[j] \in Blank
  /\ \A j \in 0 .. n - 1 : (v.cells[j] \in Blank) = (j >= Len(s))

LEMMA HasFacts ==
  ASSUME NEW v, NEW s, NEW data, NEW capacity, NEW n, NEW z, Has(v, s, data, capacity, n, z)
  PROVE  Reads(v, s, data, capacity, n, z)
<1>1. /\ v.m_data = data /\ v.m_size = Len(s) /\ v.m_capacity = capacity /\ v.ok = TRUE
      /\ v.cells = CellsOf(s, n, z)
  <2>1. v = Vector(data, Len(s), capacity, CellsOf(s, n, z))
    BY DEF Has
  <2> QED BY <2>1 DEF Vector
<1>2. Len(s) \in Nat /\ Len(s) <= n /\ n \in Nat /\ \A j \in 1 .. Len(s) : s[j] \in Values
  BY LenProperties DEF Has
<1>3. \A j \in 0 .. Len(s) - 1 : s[j + 1] \in Values /\ s[j + 1] \notin Blank
  BY <1>2, BlankFacts
<1>6. \A j \in 0 .. n - 1 : z[j] \in Blank /\ z[j] \in CellValues
  BY <1>2, BlankFacts DEF Has, Rests
<1>4. /\ CellsOf(s, n, z) \in Cells(n) /\ DOMAIN CellsOf(s, n, z) = 0 .. n - 1
      /\ \A j \in 0 .. Len(s) - 1 : CellsOf(s, n, z)[j] = s[j + 1]
      /\ \A j \in Len(s) .. n - 1 : CellsOf(s, n, z)[j] = z[j] /\ CellsOf(s, n, z)[j] \in Blank
  BY <1>2, <1>3, <1>6 DEF CellsOf, Cells, CellValues
<1>5. \A j \in 0 .. n - 1 : (CellsOf(s, n, z)[j] \in Blank) = (j >= Len(s))
  BY <1>2, <1>3, <1>6 DEF CellsOf
<1> QED BY <1>1, <1>2, <1>3, <1>4, <1>5, <1>6 DEF Reads

\* What an operation leaves in the cells is t.
LEMMA NowHolds ==
  ASSUME NEW data \in Datas, NEW capacity \in Nat, NEW n \in Nat, capacity <= n,
         data = Inline => n = N,
         NEW t \in Seq(Values), Len(t) <= capacity, NEW z \in Rests,
         NEW d, d = CellsOf(t, n, z), NEW size
  PROVE  /\ Has(WithSize(Vector(data, size, capacity, d), Len(t)), t, data, capacity, n, z)
         /\ Has(Vector(data, Len(t), capacity, d), t, data, capacity, n, z)
<1>1. WithSize(Vector(data, size, capacity, d), Len(t)) = Vector(data, Len(t), capacity, d)
  BY OtherSize
<1> QED BY <1>1 DEF Has

Wiped(n, c, first, k) == [j \in 0 .. n - 1 |-> IF first <= j /\ j < first + k THEN Raw ELSE c[j]]

Alive(c, first, k) == \A j \in first .. first + k - 1 : c[j] \notin Blank

LEMMA Destructed ==
  ASSUME NEW data, NEW size, NEW capacity,
         NEW n \in Nat, NEW c \in Cells(n), NEW first \in Nat, NEW k \in Nat, first + k <= n,
         Alive(c, first, k)
  PROVE  Destruct(Vector(data, size, capacity, c), first, k)
         = Vector(data, size, capacity, Wiped(n, c, first, k))
<1> DEFINE v == Vector(data, size, capacity, c)
           there == first .. first + k - 1
           d == [i \in DOMAIN v.cells |-> IF i \in there THEN Raw ELSE v.cells[i]]
           fine == \A i \in there : i \in DOMAIN v.cells /\ v.cells[i] \notin Blank
<1>1. v.cells = c
  BY DEF Vector
<1>2. DOMAIN c = 0 .. n - 1
  BY DEF Cells
<1>3. d = Wiped(n, c, first, k)
  BY <1>1, <1>2 DEF Wiped
<1>4. fine = TRUE
  BY <1>1, <1>2 DEF Alive
<1>5. Destruct(v, first, k) = WithCells(v, d, TRUE)
  BY <1>4, Zenon DEF Destruct
<1> HIDE DEF d
<1>6. WithCells(v, d, TRUE) = Vector(data, size, capacity, d)
  BY OtherCells, Zenon
<1> QED BY <1>3, <1>5, <1>6, Zenon

\* Objects that are left.
LeftIn(n, c, first, k) == [j \in 0 .. n - 1 |-> IF first <= j /\ j < first + k THEN Left ELSE c[j]]

LEMMA Abandoned ==
  ASSUME NEW data, NEW size, NEW capacity,
         NEW n \in Nat, NEW c \in Cells(n), NEW first \in Nat, NEW k \in Nat, first + k <= n,
         Alive(c, first, k)
  PROVE  Abandon(Vector(data, size, capacity, c), first, k)
         = Vector(data, size, capacity, LeftIn(n, c, first, k))
<1> DEFINE v == Vector(data, size, capacity, c)
           there == first .. first + k - 1
           d == [i \in DOMAIN v.cells |-> IF i \in there THEN Left ELSE v.cells[i]]
           fine == \A i \in there : i \in DOMAIN v.cells /\ v.cells[i] \notin Blank
<1>1. v.cells = c
  BY DEF Vector
<1>2. DOMAIN c = 0 .. n - 1
  BY DEF Cells
<1>3. d = LeftIn(n, c, first, k)
  BY <1>1, <1>2 DEF LeftIn
<1>4. fine = TRUE
  BY <1>1, <1>2 DEF Alive
<1>5. Abandon(v, first, k) = WithCells(v, d, TRUE)
  BY <1>4, Zenon DEF Abandon
<1> HIDE DEF d
<1>6. WithCells(v, d, TRUE) = Vector(data, size, capacity, d)
  BY OtherCells, Zenon
<1> QED BY <1>3, <1>5, <1>6, Zenon

\* Elements that are moved to n cells in which no other is alive.
LEMMA MovedThere ==
  ASSUME NEW v, NEW s, NEW data, NEW capacity, NEW k, NEW z, Has(v, s, data, capacity, k, z),
         NEW to \in Datas, NEW room \in Nat, NEW n \in Nat, Len(s) <= room, room <= n,
         to = Inline => n = N, NEW cells \in [0 .. n - 1 -> Blank]
  PROVE  \E y \in Rests : Has(MovedTo(v, to, room, cells), s, to, room, n, y)
<1>1. /\ v.m_size = Len(s) /\ v.ok = TRUE /\ DOMAIN v.cells = 0 .. k - 1 /\ Len(s) \in Nat
      /\ \A j \in 0 .. Len(s) - 1 : v.cells[j] = s[j + 1] /\ v.cells[j] \in Values
      /\ \A j \in Len(s) .. k - 1 : v.cells[j] \in Blank
  <2>1. Reads(v, s, data, capacity, k, z)
    BY HasFacts, Zenon
  <2> QED BY <2>1 DEF Reads
<1> DEFINE y == [j \in Nat |-> IF j \in 0 .. n - 1 THEN cells[j] ELSE Raw]
           d == [i \in DOMAIN cells |-> IF i < v.m_size THEN v.cells[i] ELSE cells[i]]
           fine == /\ v.ok
                   /\ \A i \in DOMAIN v.cells : v.cells[i] \in (IF i < v.m_size THEN Values ELSE Blank)
                   /\ \A i \in 0 .. v.m_size - 1 : i \in DOMAIN cells /\ cells[i] \in Blank
<1>2. y \in Rests
  BY BlankFacts DEF Rests
<1>3. \A j \in 0 .. n - 1 : y[j] = cells[j]
  OBVIOUS
<1> HIDE DEF y
<1>4. d = CellsOf(s, n, y)
  BY <1>1, <1>3 DEF CellsOf
<1>5. k \in Nat
  BY DEF Has
<1>6. fine = TRUE
  <2>1. \A i \in DOMAIN v.cells : v.cells[i] \in (IF i < v.m_size THEN Values ELSE Blank)
    BY <1>1, <1>5
  <2>2. \A i \in 0 .. v.m_size - 1 : i \in DOMAIN cells /\ cells[i] \in Blank
    BY <1>1
  <2> QED BY <1>1, <2>1, <2>2
<1>7. MovedTo(v, to, room, cells) = Vector(to, Len(s), room, d)
  BY <1>1, <1>6, Zenon DEF MovedTo, Vector
<1>8. Has(MovedTo(v, to, room, cells), s, to, room, n, y)
  BY <1>2, <1>4, <1>7, Zenon DEF Has
<1> QED BY <1>2, <1>8

LEMMA Reserved ==
  ASSUME NEW v, NEW s, NEW data, NEW capacity, NEW n, NEW z, Has(v, s, data, capacity, n, z),
         NEW want \in Nat, FreshBlock \in Blocks
  PROVE  \E to, room, k, y : /\ Has(Reserve(v, want), s, to, room, k, y)
                             /\ to \in {data, FreshBlock} /\ want <= room /\ capacity <= room
<1>1. v.m_capacity = capacity /\ capacity \in Nat /\ Len(s) \in Nat /\ Len(s) <= capacity
  <2>1. Reads(v, s, data, capacity, n, z)
    BY HasFacts, Zenon
  <2> QED BY <2>1 DEF Reads, Has
<1>2. CASE want <= capacity
  BY <1>1, <1>2 DEF Reserve
<1>3. CASE ~(want <= capacity)
  <2>1. FreshBlock \in Datas /\ FreshBlock # Inline
    BY VectorsAssumption DEF Datas
  <2> DEFINE cells == RawCells(want)
  <2>2. cells \in [0 .. want - 1 -> Blank]
    BY BlankFacts DEF RawCells
  <2>3. Reserve(v, want) = MovedTo(v, FreshBlock, want, cells)
    BY <1>1, <1>3 DEF Reserve
  <2> HIDE DEF cells
  <2>4. PICK y \in Rests : Has(MovedTo(v, FreshBlock, want, cells), s, FreshBlock, want, want, y)
    BY <1>1, <1>3, <2>1, <2>2, MovedThere
  <2> QED BY <1>1, <1>3, <2>3, <2>4
<1> QED BY <1>2, <1>3

LEMMA Grown ==
  ASSUME NEW n \in Nat
  PROVE  GrowArraySize(n) \in Nat /\ n < GrowArraySize(n)
BY VectorsAssumption DEF GrowArraySize

\* What the steps of a loop have made, and the new size.
LEMMA LoopMakes ==
  ASSUME NEW v, NEW s, NEW data, NEW capacity, NEW n, NEW z, Has(v, s, data, capacity, n, z),
         NEW t \in Seq(Values), Len(t) <= capacity,
         NEW steps, Runs(n, CellsOf(s, n, z), steps, CellsOf(t, n, z))
  PROVE  Has(WithSize(DoAll(v, steps), Len(t)), t, data, capacity, n, z)
<1> DEFINE c == CellsOf(s, n, z)
           d == CellsOf(t, n, z)
           size == Len(s)
<1>1. v = Vector(data, size, capacity, c) /\ n \in Nat
  BY DEF Has
<1> HIDE DEF c, d, size
<1>2. DoAll(Vector(data, size, capacity, c), steps) = Vector(data, size, capacity, d)
  BY <1>1, AllSteps DEF c, d
<1>3. WithSize(Vector(data, size, capacity, d), Len(t)) = Vector(data, Len(t), capacity, d)
  BY OtherSize
<1> QED BY <1>1, <1>2, <1>3 DEF Has, d

\* The vector w holds s where it was, at data, or in a new block, and has room
\* for as many as an operation needs.
HasRoom(w, s, data, least) ==
  \E to, room, k, y : Has(w, s, to, room, k, y) /\ to \in {data, FreshBlock} /\ least <= room

LEMMA Roomy ==
  ASSUME NEW v, NEW s, NEW data, NEW capacity, NEW n, NEW z, Has(v, s, data, capacity, n, z), FreshBlock \in Blocks,
         NEW want \in Nat, NEW least \in Nat, least <= want,
         NEW w, w = Reserve(v, want) \/ (w = v /\ least <= capacity)
  PROVE  HasRoom(w, s, data, least)
<1>1. CASE w = v /\ least <= capacity
  BY <1>1 DEF HasRoom
<1>2. CASE w = Reserve(v, want)
  <2>1. \E to, room, k, y : /\ Has(Reserve(v, want), s, to, room, k, y)
                         /\ to \in {data, FreshBlock} /\ want <= room /\ capacity <= room
    BY Reserved
  <2>2. PICK to, room, k, y : Has(w, s, to, room, k, y) /\ to \in {data, FreshBlock} /\ want <= room
    BY <1>2, <2>1
  <2>3. room \in Nat
    BY <2>2 DEF Has
  <2> QED BY <2>2, <2>3 DEF HasRoom
<1> QED BY <1>1, <1>2

LEMMA MakesIt ==
  ASSUME NEW v, NEW w, NEW t, NEW to, NEW room, NEW k, NEW y, Has(w, t, to, room, k, y), to \in {v.m_data, FreshBlock}
  PROVE  Makes(v, w, t)
<1>1. Reads(w, t, to, room, k, y)
  BY HasFacts, Zenon
<1>2. w.m_data = to
  BY <1>1 DEF Reads
<1> QED BY <1>2 DEF Makes, Good

LEMMA EmplaceBackKeeps ==
  ASSUME NEW v, NEW s, Good(v, s), FreshBlock \in Blocks, NEW x \in Values
  PROVE  Makes(v, EmplaceBack(v, x), Append(s, x))
<1>1. PICK data, capacity, n, z : Has(v, s, data, capacity, n, z)
  BY DEF Good
<1>2. Reads(v, s, data, capacity, n, z)
  BY <1>1, HasFacts, Zenon
<1> DEFINE r == IF v.m_size = v.m_capacity THEN Reserve(v, GrowArraySize(v.m_size)) ELSE v
           t == Append(s, x)
           step == Construct(Len(s), "value", x)
<1>3. /\ v.m_data = data /\ v.m_size = Len(s) /\ v.m_capacity = capacity
      /\ Len(s) \in Nat /\ capacity \in Nat /\ Len(s) <= capacity
  BY <1>1, <1>2 DEF Reads, Has
<1>4. r = Reserve(v, GrowArraySize(Len(s))) \/ (r = v /\ Len(s) + 1 <= capacity)
  BY <1>3
<1>5. GrowArraySize(Len(s)) \in Nat /\ Len(s) + 1 \in Nat /\ Len(s) + 1 <= GrowArraySize(Len(s))
  BY <1>3, Grown, SMTT(60)
<1> DEFINE want == GrowArraySize(Len(s))
           least == Len(s) + 1
<1> HIDE DEF r, want, least
<1>6. PICK to, room, k, y : Has(r, s, to, room, k, y) /\ to \in {data, FreshBlock} /\ Len(s) + 1 <= room
  <2>1. want \in Nat /\ least \in Nat /\ least <= want /\ (r = Reserve(v, want) \/ (r = v /\ least <= capacity))
    BY <1>4, <1>5 DEF want, least
  <2>2. HasRoom(r, s, data, least)
    BY <1>1, <2>1, Roomy, Zenon
  <2> QED BY <2>2 DEF least, HasRoom
<1> DEFINE c == CellsOf(s, k, y)
<1>7. /\ r = Vector(to, Len(s), room, c) /\ k \in Nat /\ room \in Nat /\ room <= k
      /\ s \in Seq(Values) /\ Len(s) < k
  BY <1>3, <1>6 DEF Has
<1>8. /\ c \in Cells(k) /\ DOMAIN c = 0 .. k - 1 /\ c[Len(s)] \in Blank
  <2>1. Reads(r, s, to, room, k, y)
    BY <1>6, HasFacts, Zenon
  <2> QED BY <1>3, <1>7, <2>1 DEF Reads
<1>9. t \in Seq(Values) /\ Len(t) = Len(s) + 1 /\ \A j \in 1 .. Len(s) + 1 : t[j] = IF j <= Len(s) THEN s[j] ELSE x
  BY <1>7, AppendProperties
<1> HIDE DEF c, t
<1>10. step \in Steps /\ step.does = "construct" /\ step.to = Len(s) /\ step.how = "value" /\ step.from = x
  BY <1>3 DEF Construct, Steps
<1> HIDE DEF step
<1>11. Legal(c, step) /\ What(c, step) = x
  BY <1>3, <1>7, <1>8, <1>10 DEF Legal, What
<1>12. Result(c, step) = CellsOf(t, k, y)
  <2>1. Result(c, step) = [j \in 0 .. k - 1 |-> IF j = Len(s) THEN x ELSE c[j]]
    BY <1>8, <1>10, <1>11 DEF Result
  <2>2. \A j \in 0 .. k - 1 : (IF j = Len(s) THEN x ELSE c[j]) = IF j < Len(t) THEN t[j + 1] ELSE y[j]
    BY <1>3, <1>9 DEF c, CellsOf
  <2> QED BY <2>1, <2>2 DEF CellsOf
<1>13. Do(r, step) = Vector(to, Len(s), room, CellsOf(t, k, y))
  BY <1>7, <1>8, <1>10, <1>11, <1>12, OneStep
<1>14. Has(WithSize(Vector(to, Len(s), room, CellsOf(t, k, y)), Len(t)), t, to, room, k, y)
  <2>1. to \in Datas /\ (to = Inline => k = N) /\ Len(t) <= room
    BY <1>3, <1>6, <1>7, <1>9 DEF Has
  <2>2. y \in Rests
    BY <1>6 DEF Has
  <2> QED BY <1>7, <1>9, <2>1, <2>2, NowHolds
<1>15. EmplaceBack(v, x) = WithSize(Do(r, step), Len(t))
  BY <1>3, <1>9 DEF EmplaceBack, r, step
<1> QED BY <1>3, <1>6, <1>13, <1>14, <1>15, MakesIt DEF t

\* k elements are destructed, and what is left is t.
LEMMA Leaves ==
  ASSUME NEW data \in Datas, NEW capacity \in Nat, NEW n \in Nat, capacity <= n,
         data = Inline => n = N,
         NEW c \in Cells(n), NEW first \in Nat, NEW k \in Nat, first + k <= n,
         Alive(c, first, k),
         NEW t \in Seq(Values), Len(t) <= capacity, NEW z \in Rests,
         \A j \in 0 .. n - 1 : (IF first <= j /\ j < first + k THEN Raw ELSE c[j])
                               = IF j < Len(t) THEN t[j + 1] ELSE z[j],
         NEW size
  PROVE  Has(WithSize(Destruct(Vector(data, size, capacity, c), first, k), Len(t)), t, data, capacity, n, z)
<1> DEFINE d == Wiped(n, c, first, k)
<1>1. Destruct(Vector(data, size, capacity, c), first, k) = Vector(data, size, capacity, d)
  BY Destructed
<1>2. d = CellsOf(t, n, z)
  BY DEF CellsOf, Wiped
<1> HIDE DEF d
<1> QED BY <1>1, <1>2, NowHolds

LEMMA FirstOf ==
  ASSUME NEW s \in Seq(Values), NEW n \in 0 .. Len(s)
  PROVE  /\ SubSeq(s, 1, n) \in Seq(Values) /\ Len(SubSeq(s, 1, n)) = n /\ Len(s) \in Nat
         /\ \A i \in 1 .. n : SubSeq(s, 1, n)[i] = s[i]
<1>1. Len(s) \in Nat /\ \A i \in 1 .. Len(s) : s[i] \in Values
  BY LenProperties
<1>2. n \in Int /\ 1 \in Int /\ \A i \in 1 .. n : s[i] \in Values
  BY <1>1
<1> QED BY <1>1, <1>2, SubSeqProperties

\* The vector becomes shorter; what is cut off is destructed.
LEMMA CutOff ==
  ASSUME NEW v, NEW s, Good(v, s), NEW t \in Seq(Values), Len(t) <= Len(s),
         \A i \in 1 .. Len(t) : t[i] = s[i]
  PROVE  /\ Makes(v, WithSize(Destruct(v, Len(t), Len(s) - Len(t)), Len(t)), t)
         /\ v.m_size = Len(s)
<1>1. PICK data, capacity, n, z : Has(v, s, data, capacity, n, z)
  BY DEF Good
<1>2. Reads(v, s, data, capacity, n, z)
  BY <1>1, HasFacts, Zenon
<1> DEFINE c == CellsOf(s, n, z)
           a == Len(t)
           k == Len(s) - Len(t)
           y == [j \in Nat |-> IF Len(t) <= j /\ j < Len(s) THEN Raw ELSE z[j]]
<1>3. /\ data \in Datas /\ capacity \in Nat /\ n \in Nat /\ capacity <= n /\ Len(s) <= capacity
      /\ data = Inline => n = N
      /\ v = Vector(data, Len(s), capacity, c)
      /\ v.cells = c /\ c \in Cells(n) /\ Len(s) \in Nat
      /\ z \in Rests /\ v.m_data = data /\ v.m_size = Len(s)
      /\ \A j \in 0 .. n - 1 : (v.cells[j] \in Blank) = (j >= Len(s))
  BY <1>1, <1>2 DEF Has, Reads
<1>4. a \in Nat /\ k \in Nat /\ a + k = Len(s) /\ a <= capacity /\ a + k <= n
  BY <1>3, LenProperties
<1>5. Alive(c, a, k)
  BY <1>3, <1>4 DEF Alive
<1>6. \A j \in 0 .. n - 1 : (IF a <= j /\ j < a + k THEN Raw ELSE c[j]) = IF j < Len(t) THEN t[j + 1] ELSE y[j]
  <2>1. ASSUME NEW j \in 0 .. n - 1
        PROVE  (IF a <= j /\ j < a + k THEN Raw ELSE c[j]) = IF j < Len(t) THEN t[j + 1] ELSE y[j]
    <3>1. c[j] = IF j < Len(s) THEN s[j + 1] ELSE z[j]
      BY <2>1 DEF CellsOf
    <3>2. y[j] = IF Len(t) <= j /\ j < Len(s) THEN Raw ELSE z[j]
      BY <1>3, <2>1
    <3>3. j < Len(t) => j + 1 \in 1 .. Len(t)
      BY <1>3, <1>4, <2>1
    <3>4. j < Len(t) => t[j + 1] = s[j + 1]
      BY <3>3
    <3> HIDE DEF c, y, k
    <3>5. a + k = Len(s) /\ j \in Int /\ a \in Int /\ Len(s) \in Int /\ a = Len(t) /\ a <= Len(s)
      BY <1>3, <1>4, <2>1
    <3> HIDE DEF a
    <3> QED BY <3>1, <3>2, <3>4, <3>5
  <2> QED BY <2>1
<1>9. y \in Rests
  BY <1>3, BlankFacts DEF Rests
<1> HIDE DEF c, k, y
<1>7. Has(WithSize(Destruct(Vector(data, Len(s), capacity, c), a, k), Len(t)), t, data, capacity, n, y)
  BY <1>3, <1>4, <1>5, <1>6, <1>9, Leaves
<1>8. Makes(v, WithSize(Destruct(v, a, k), a), t)
  BY <1>3, <1>7, MakesIt
<1> QED BY <1>3, <1>8 DEF k

LEMMA PopBackKeeps ==
  ASSUME NEW v, NEW s, Good(v, s), Len(s) > 0
  PROVE  Makes(v, PopBack(v), SubSeq(s, 1, Len(s) - 1))
<1>1. s \in Seq(Values) /\ Len(s) \in Nat /\ Len(s) - 1 \in 0 .. Len(s)
  BY LenProperties DEF Good, Has
<1> DEFINE t == SubSeq(s, 1, Len(s) - 1)
<1>2. t \in Seq(Values) /\ Len(t) = Len(s) - 1 /\ \A i \in 1 .. Len(t) : t[i] = s[i]
  BY <1>1, FirstOf
<1> HIDE DEF t
<1>3. Makes(v, WithSize(Destruct(v, Len(t), Len(s) - Len(t)), Len(t)), t) /\ v.m_size = Len(s)
  BY <1>1, <1>2, CutOff, SMTT(60)
<1>4. Len(s) - Len(t) = 1
  BY <1>1, <1>2
<1> QED BY <1>2, <1>3, <1>4 DEF PopBack, t

LEMMA ClearKeeps ==
  ASSUME NEW v, NEW s, Good(v, s)
  PROVE  Makes(v, Clear(v), <<>>)
<1> DEFINE t == <<>>
<1>1. /\ t \in Seq(Values) /\ Len(t) = 0 /\ Len(s) \in Nat /\ Len(t) <= Len(s)
      /\ \A i \in 1 .. Len(t) : t[i] = s[i]
  BY LenProperties DEF Good, Has
<1> HIDE DEF t
<1>2. Makes(v, WithSize(Destruct(v, Len(t), Len(s) - Len(t)), Len(t)), t) /\ v.m_size = Len(s)
  BY <1>1, CutOff
<1>3. Len(s) - Len(t) = Len(s)
  BY <1>1
<1> QED BY <1>1, <1>2, <1>3 DEF Clear, t

LEMMA ReserveKeeps ==
  ASSUME NEW v, NEW s, Good(v, s), NEW want \in Nat, FreshBlock \in Blocks
  PROVE  Makes(v, Reserve(v, want), s)
<1>1. PICK data, capacity, n, z : Has(v, s, data, capacity, n, z)
  BY DEF Good
<1>2. v.m_data = data
  <2>1. Reads(v, s, data, capacity, n, z)
    BY <1>1, HasFacts, Zenon
  <2> QED BY <2>1 DEF Reads
<1>3. PICK to, room, k, y : Has(Reserve(v, want), s, to, room, k, y) /\ to \in {data, FreshBlock}
  BY <1>1, Reserved
<1> QED BY <1>2, <1>3, MakesIt

LEMMA ResizeKeeps ==
  ASSUME NEW v, NEW s, Good(v, s), FreshBlock \in Blocks, NEW n \in Nat, NEW x \in Values
  PROVE  Makes(v, Resize(v, n, x), [k \in 1 .. n |-> IF k <= Len(s) THEN s[k] ELSE x])
<1> DEFINE t == [k \in 1 .. n |-> IF k <= Len(s) THEN s[k] ELSE x]
           size == Len(s)
<1>1. PICK data, capacity, q, z : Has(v, s, data, capacity, q, z)
  BY DEF Good
<1>2. Reads(v, s, data, capacity, q, z) /\ s \in Seq(Values)
  BY <1>1, HasFacts, Zenon DEF Has
<1>3. v.m_data = data /\ v.m_size = size /\ size \in Nat /\ \A k \in 1 .. size : s[k] \in Values
  BY <1>2, LenProperties DEF Reads
<1>4. t \in Seq(Values) /\ Len(t) = n /\ \A k \in 1 .. n : t[k] = IF k <= size THEN s[k] ELSE x
  <2>1. t \in [1 .. n -> Values]
    BY <1>3
  <2> QED BY <2>1, FunctionIsSequence
<1> HIDE DEF t
<1>5. CASE n < size
  <2>1. Makes(v, WithSize(Destruct(v, Len(t), size - Len(t)), Len(t)), t)
    BY <1>3, <1>4, <1>5, CutOff
  <2>2. Resize(v, n, x) = WithSize(Destruct(v, Len(t), size - Len(t)), Len(t))
    BY <1>3, <1>4, <1>5 DEF Resize
  <2> QED BY <2>1, <2>2 DEF t
<1>6. CASE ~(n < size)
  <2> DEFINE r == Reserve(v, n)
             m == n - size
             steps == [k \in 1 .. m |-> Construct(size + k - 1, "value", x)]
             xs == [k \in 1 .. m |-> x]
  <2>1. PICK to, room, k, y : Has(r, s, to, room, k, y) /\ to \in {data, FreshBlock} /\ n <= room
    BY <1>1, Reserved
  <2>2. Reads(r, s, to, room, k, y) /\ k \in Nat /\ room \in Nat /\ room <= k
    BY <2>1, HasFacts, Zenon DEF Has
  <2> DEFINE c == CellsOf(s, k, y)
             d == PutCells(k, c, size, m, xs)
  <2>3. /\ c \in Cells(k) /\ m \in Nat /\ size + m = n /\ size + m <= k
        /\ \A j \in size .. size + m - 1 : c[j] \in Blank
        /\ xs \in [1 .. m -> Values] /\ \A i \in 1 .. m : xs[i] = x
    <3>1. /\ c \in Cells(k) /\ k \in Nat /\ room \in Nat /\ room <= k
          /\ \A j \in size .. k - 1 : r.cells[j] \in Blank
          /\ r.cells = c
      BY <2>2 DEF Reads
    <3>2. m \in Nat /\ size + m = n /\ size + m <= k
      BY <1>3, <1>6, <2>1, <3>1
    <3>3. \A j \in size .. size + m - 1 : c[j] \in Blank
      BY <1>3, <3>1, <3>2
    <3>4. xs \in [1 .. m -> Values] /\ \A i \in 1 .. m : xs[i] = x
      OBVIOUS
    <3> QED BY <3>1, <3>2, <3>3, <3>4
  <2>4. steps = PutSteps("construct", size, m, xs)
    BY <2>3 DEF Construct, PutSteps
  <2>5. d = CellsOf(t, k, y)
    BY <1>3, <1>4, <1>6, <2>2, <2>3 DEF CellsOf, PutCells
  <2>6. Resize(v, n, x) = WithSize(DoAll(r, steps), n)
    BY <1>3, <1>6 DEF Resize
  <2> HIDE DEF c, d, xs, steps, m, r
  <2>7. "construct" \in {"construct", "assign"}
    OBVIOUS
  <2>8. Runs(k, c, steps, d)
    <3>1. Runs(k, c, PutSteps("construct", size, m, xs), PutCells(k, c, size, m, xs))
      BY <1>3, <2>2, <2>3, <2>7, PutValues
    <3> QED BY <2>4, <3>1, Zenon DEF d
  <2>9. Has(WithSize(DoAll(r, steps), Len(t)), t, to, room, k, y)
    BY <1>4, <2>1, <2>5, <2>8, LoopMakes DEF c
  <2> QED BY <1>3, <1>4, <2>1, <2>6, <2>9, MakesIt DEF t
<1> QED BY <1>5, <1>6

\* t is s with xs in the place of the n elements behind the first i.
Splices(t, s, i, n, xs) ==
  /\ t \in Seq(Values) /\ Len(s) \in Nat /\ Len(xs) \in Nat /\ Len(t) = Len(s) - n + Len(xs)
  /\ \A j \in 1 .. Len(s) - n + Len(xs) :
       t[j] = IF j <= i THEN s[j] ELSE IF j <= i + Len(xs) THEN xs[j - i] ELSE s[j - Len(xs) + n]

LEMMA SplicedFacts ==
  ASSUME NEW s \in Seq(Values), NEW i \in Nat, NEW n \in Nat, i + n <= Len(s), NEW xs \in Seq(Values)
  PROVE  Splices(Spliced(s, i, n, xs), s, i, n, xs)
<1> DEFINE a == SubSeq(s, 1, i)
           b == SubSeq(s, i + n + 1, Len(s))
           u == a \o xs
           m == Len(s) - n - i
<1>1. Len(s) \in Nat /\ Len(xs) \in Nat /\ \A j \in 1 .. Len(s) : s[j] \in Values
  BY LenProperties
<1>2. a \in Seq(Values) /\ Len(a) = i /\ \A j \in 1 .. i : a[j] = s[j]
  <2>1. i \in 0 .. Len(s)
    BY <1>1
  <2> QED BY <2>1, FirstOf
<1>3. b \in Seq(Values) /\ Len(b) = m /\ \A j \in 1 .. m : b[j] = s[i + n + j]
  <2>1. i + n + 1 \in Int /\ Len(s) \in Int /\ \A j \in i + n + 1 .. Len(s) : s[j] \in Values
    BY <1>1
  <2>2. /\ b \in Seq(Values)
        /\ Len(b) = IF i + n + 1 <= Len(s) THEN Len(s) - (i + n + 1) + 1 ELSE 0
        /\ \A j \in 1 .. Len(s) - (i + n + 1) + 1 : b[j] = s[i + n + 1 + j - 1]
    BY <2>1, SubSeqProperties
  <2> HIDE DEF b
  <2> QED BY <1>1, <2>2
<1> HIDE DEF a, b
<1>4. /\ u \in Seq(Values) /\ Len(u) = i + Len(xs)
      /\ \A j \in 1 .. i + Len(xs) : u[j] = IF j <= i THEN a[j] ELSE xs[j - i]
  BY <1>2, ConcatProperties
<1> HIDE DEF u
<1>5. /\ u \o b \in Seq(Values) /\ Len(u \o b) = i + Len(xs) + m
      /\ \A j \in 1 .. i + Len(xs) + m :
           (u \o b)[j] = IF j <= i + Len(xs) THEN u[j] ELSE b[j - (i + Len(xs))]
  <2>0. u \in Seq(Values) /\ b \in Seq(Values)
    BY <1>3, <1>4
  <2>1. /\ u \o b \in Seq(Values) /\ Len(u \o b) = Len(u) + Len(b)
        /\ \A j \in 1 .. Len(u) + Len(b) : (u \o b)[j] = IF j <= Len(u) THEN u[j] ELSE b[j - Len(u)]
    BY <2>0, ConcatProperties
  <2> DEFINE t == u \o b
  <2> HIDE DEF t
  <2>2. /\ t \in Seq(Values) /\ Len(t) = Len(u) + Len(b)
        /\ \A j \in 1 .. Len(u) + Len(b) : t[j] = IF j <= Len(u) THEN u[j] ELSE b[j - Len(u)]
    BY <2>1 DEF t
  <2>3. /\ t \in Seq(Values) /\ Len(t) = i + Len(xs) + m
        /\ \A j \in 1 .. i + Len(xs) + m : t[j] = IF j <= i + Len(xs) THEN u[j] ELSE b[j - (i + Len(xs))]
    BY <1>3, <1>4, <2>2, Zenon
  <2> QED BY <2>3 DEF t
<1>6. Spliced(s, i, n, xs) = u \o b
  BY DEF Spliced, u, a, b
<1> DEFINE t == u \o b
<1> HIDE DEF t
<1>7. t \in Seq(Values) /\ Len(t) = Len(s) - n + Len(xs)
  BY <1>1, <1>5 DEF t
<1>8. ASSUME NEW j \in 1 .. Len(s) - n + Len(xs)
      PROVE  t[j] = IF j <= i THEN s[j] ELSE IF j <= i + Len(xs) THEN xs[j - i] ELSE s[j - Len(xs) + n]
  <2>1. CASE j <= i
    BY <2>1, <1>1, <1>2, <1>4, <1>5 DEF t
  <2>2. CASE ~(j <= i) /\ j <= i + Len(xs)
    BY <2>2, <1>1, <1>4, <1>5 DEF t
  <2>3. CASE ~(j <= i + Len(xs))
    <3>1. j - (i + Len(xs)) \in 1 .. m /\ i + n + (j - (i + Len(xs))) = j - Len(xs) + n
      BY <2>3, <1>1
    <3>2. t[j] = b[j - (i + Len(xs))]
      <4>1. \A q \in 1 .. i + Len(xs) + m : t[q] = IF q <= i + Len(xs) THEN u[q] ELSE b[q - (i + Len(xs))]
        BY <1>5, Zenon DEF t
      <4>2. j \in 1 .. i + Len(xs) + m
        BY <1>1
      <4> QED BY <2>3, <4>1, <4>2
    <3> QED BY <2>3, <1>1, <1>3, <3>1, <3>2, SMTT(60)
  <2> QED BY <2>1, <2>2, <2>3
<1> QED BY <1>1, <1>6, <1>7, <1>8 DEF t, Splices

\* Erasing n elements: the others are moved down, one is destructed, and the
\* rest is left.
LEMMA EraseSome ==
  ASSUME NEW v, NEW s, Good(v, s), NEW i \in Nat, NEW e \in Nat \ {0}, i + e <= Len(s)
  PROVE  Makes(v, EraseMany(v, i, e), Spliced(s, i, e, <<>>))
<1>1. PICK data, capacity, n, z : Has(v, s, data, capacity, n, z)
  BY DEF Good
<1>2. Reads(v, s, data, capacity, n, z)
  BY <1>1, HasFacts, Zenon
<1> DEFINE c == CellsOf(s, n, z)
           size == Len(s)
           last == size - e
           m == last - i
           steps == [k \in 1 .. m |-> Assign(i + k - 1, "move", i + k - 1 + e)]
           d == DownCells(n, c, i, m, e)
           d1 == Wiped(n, d, last, 1)
           d2 == LeftIn(n, d1, last + 1, e - 1)
           t == Spliced(s, i, e, <<>>)
           y == [j \in Nat |-> IF j = last THEN Raw ELSE IF last < j /\ j < size THEN Left ELSE z[j]]
<1>3. /\ data \in Datas /\ capacity \in Nat /\ n \in Nat /\ capacity <= n /\ size <= capacity
      /\ data = Inline => n = N
      /\ v = Vector(data, size, capacity, c) /\ s \in Seq(Values) /\ z \in Rests
      /\ c \in Cells(n) /\ size \in Nat /\ v.m_data = data /\ v.m_size = size
      /\ \A j \in 0 .. size - 1 : c[j] = s[j + 1] /\ c[j] \in Values
      /\ \A j \in size .. n - 1 : c[j] = z[j]
  BY <1>1, <1>2 DEF Has, Reads
<1>4. /\ last \in Nat /\ last + e = size /\ m \in Nat /\ i + m = last /\ i + m + e <= n /\ last <= capacity
      /\ e - 1 \in Nat /\ last + 1 \in Nat /\ (last + 1) + (e - 1) = size /\ last + 1 <= n /\ size <= n
      /\ n \in Nat /\ size \in Nat /\ e \in Nat /\ i \in Nat
  BY <1>3
<1>5. t \in Seq(Values) /\ Len(t) = last /\ \A j \in 1 .. last : t[j] = IF j <= i THEN s[j] ELSE s[j + e]
  <2>1. <<>> \in Seq(Values) /\ Len(<<>>) = 0 /\ e \in Nat
    OBVIOUS
  <2> DEFINE o == <<>>
  <2> HIDE DEF o
  <2>2. o \in Seq(Values) /\ Len(o) = 0
    BY <2>1 DEF o
  <2>3. Splices(Spliced(s, i, e, o), s, i, e, o)
    BY <1>3, <2>1, <2>2, SplicedFacts
  <2>4. t = Spliced(s, i, e, o)
    BY DEF o
  <2> HIDE DEF t
  <2>5. Splices(t, s, i, e, o)
    BY <2>3, <2>4
  <2>6. t \in Seq(Values) /\ Len(t) = last
    BY <1>3, <2>2, <2>5 DEF Splices
  <2> QED BY <1>3, <2>2, <2>5, <2>6 DEF Splices
<1>6. y \in Rests /\ \A j \in Nat : y[j] = IF j = last THEN Raw ELSE IF last < j /\ j < size THEN Left ELSE z[j]
  BY <1>3, BlankFacts DEF Rests
<1> HIDE DEF t, y
<1>7. steps = DownSteps(i, m, e)
  BY DEF Assign, DownSteps
<1>8. EraseMany(v, i, e) = WithSize(Abandon(Destruct(DoAll(v, steps), last, 1), last + 1, e - 1), last)
  BY <1>3 DEF EraseMany
<1> HIDE DEF c, m, steps, last, size
<1>9. \A j \in i .. i + m + e - 1 : c[j] \in Values
  <2>1. \A j \in i .. i + m + e - 1 : j \in 0 .. size - 1
    BY <1>4
  <2> QED BY <1>3, <2>1
<1>10. Runs(n, c, DownSteps(i, m, e), d)
  BY <1>3, <1>4, <1>9, MoveDown
<1>11. DoAll(v, steps) = Vector(data, size, capacity, d)
  BY <1>3, <1>7, <1>10, AllSteps
<1>12. d = [j \in 0 .. n - 1 |-> IF i <= j /\ j < last THEN c[j + e]
                                 ELSE IF i + e <= j /\ j < size THEN Moved ELSE c[j]]
  <2>1. i + e + m = size
    BY <1>4
  <2> QED BY <1>4, <2>1 DEF DownCells
<1> HIDE DEF d
<1>13. d \in Cells(n)
  <2>1. ASSUME NEW j \in 0 .. n - 1 PROVE d[j] \in CellValues
    <3>1. i <= j /\ j < last => j + e \in 0 .. n - 1
      BY <1>4
    <3> QED BY <1>3, <1>12, <3>1 DEF Cells, CellValues
  <2> QED BY <1>12, <2>1 DEF Cells
<1>14. \A j \in last .. size - 1 : d[j] \notin Blank
  BY <1>3, <1>4, <1>12, BlankFacts
<1>15. Destruct(Vector(data, size, capacity, d), last, 1) = Vector(data, size, capacity, d1)
  <2>1. Alive(d, last, 1)
    BY <1>4, <1>14 DEF Alive
  <2>2. 1 \in Nat /\ last + 1 <= n
    BY <1>4
  <2> QED BY <1>3, <1>4, <1>13, <2>1, <2>2, Destructed
<1>16. d1 = [j \in 0 .. n - 1 |-> IF j = last THEN Raw ELSE d[j]]
  BY <1>4 DEF Wiped
<1> HIDE DEF d1
<1>17. d1 \in Cells(n)
  <2>1. \A j \in 0 .. n - 1 : d1[j] \in CellValues
    BY <1>13, <1>16 DEF Cells, CellValues
  <2> QED BY <1>16, <2>1 DEF Cells
<1>18. Abandon(Vector(data, size, capacity, d1), last + 1, e - 1) = Vector(data, size, capacity, d2)
  <2>1. \A j \in last + 1 .. (last + 1) + (e - 1) - 1 : j \in last .. size - 1 /\ j \in 0 .. n - 1 /\ j # last
    BY <1>4
  <2>2. Alive(d1, last + 1, e - 1)
    BY <1>14, <1>16, <2>1 DEF Alive
  <2>3. (last + 1) + (e - 1) <= n
    BY <1>4
  <2> QED BY <1>3, <1>4, <1>17, <2>2, <2>3, Abandoned
<1>19. d2 = CellsOf(t, n, y)
  <2>1. ASSUME NEW j \in 0 .. n - 1
        PROVE  (IF last + 1 <= j /\ j < (last + 1) + (e - 1) THEN Left ELSE d1[j])
               = IF j < Len(t) THEN t[j + 1] ELSE y[j]
    <3>1. CASE j < last
      <4>1. j + 1 \in 1 .. last /\ j \in 0 .. size - 1 /\ j + e \in 0 .. size - 1 /\ (j + 1 <= i <=> ~(i <= j))
            /\ (j + 1) + e = (j + e) + 1 /\ ~(last + 1 <= j) /\ j # last
        BY <1>4, <3>1
      <4>2. t[j + 1] = IF i <= j THEN c[j + e] ELSE c[j]
        <5>1. t[j + 1] = IF j + 1 <= i THEN s[j + 1] ELSE s[(j + 1) + e]
          BY <1>5, <4>1
        <5>2. c[j] = s[j + 1] /\ c[j + e] = s[(j + e) + 1]
          BY <1>3, <4>1
        <5> QED BY <4>1, <5>1, <5>2
      <4>3. d[j] = IF i <= j THEN c[j + e] ELSE c[j]
        <5>1. ~(i <= j) => ~(i + e <= j)
          BY <3>1
        <5> QED BY <1>12, <3>1, <5>1
      <4> QED BY <1>5, <1>16, <3>1, <4>1, <4>2, <4>3
    <3>2. CASE j = last
      BY <1>4, <1>5, <1>6, <1>16, <3>2
    <3>3. CASE last < j /\ j < size
      BY <1>4, <1>5, <1>6, <3>3
    <3>4. CASE size <= j
      <4>1. /\ ~(j < last) /\ j # last /\ ~(last < j /\ j < size) /\ j \in size .. n - 1
            /\ ~(last + 1 <= j /\ j < (last + 1) + (e - 1)) /\ ~(j < last) /\ ~(j < size) /\ j \in Nat
        BY <1>4, <3>4
      <4>2. y[j] = z[j]
        BY <1>6, <4>1
      <4>3. d1[j] = c[j] /\ c[j] = z[j]
        BY <1>3, <1>12, <1>16, <4>1
      <4> QED BY <1>5, <4>1, <4>2, <4>3
    <3> QED BY <1>3, <1>4, <3>1, <3>2, <3>3, <3>4
  <2> QED BY <2>1 DEF LeftIn, CellsOf
<1> HIDE DEF d2
<1>20. Has(WithSize(Vector(data, size, capacity, d2), Len(t)), t, data, capacity, n, y)
  BY <1>3, <1>4, <1>5, <1>6, <1>19, NowHolds
<1> QED BY <1>3, <1>5, <1>8, <1>11, <1>15, <1>18, <1>20, MakesIt DEF t

\* Nothing is left of a single element.
LEMMA EraseKeeps ==
  ASSUME NEW v, NEW s, Good(v, s), NEW i \in Nat, i < Len(s)
  PROVE  Makes(v, Erase(v, i), Spliced(s, i, 1, <<>>))
<1>1. PICK data, capacity, n, z : Has(v, s, data, capacity, n, z)
  BY DEF Good
<1>2. Reads(v, s, data, capacity, n, z)
  BY <1>1, HasFacts, Zenon
<1> DEFINE c == CellsOf(s, n, z)
           size == Len(s)
           m == size - 1 - i
           steps == [k \in 1 .. m |-> Assign(i + k - 1, "move", i + k)]
           these == [k \in 1 .. m |-> Assign(i + k - 1, "move", i + k - 1 + 1)]
           d == DownCells(n, c, i, m, 1)
           d1 == Wiped(n, d, size - 1, 1)
           w == Vector(data, size, capacity, d1)
<1>3. /\ n \in Nat /\ size <= n /\ v = Vector(data, size, capacity, c) /\ c \in Cells(n)
      /\ size \in Nat /\ v.m_size = size /\ \A j \in 0 .. size - 1 : c[j] \in Values
  BY <1>1, <1>2 DEF Has, Reads
<1>4. /\ m \in Nat /\ i + m + 1 <= n /\ size - 1 \in Nat /\ (size - 1) + 1 <= n /\ i + m = size - 1
      /\ n \in Nat /\ size \in Nat
  BY <1>3
<1>5. these = steps /\ these = DownSteps(i, m, 1)
  <2>1. \A k \in 1 .. m : i + k - 1 + 1 = i + k
    BY <1>4
  <2> QED BY <2>1 DEF DownSteps, Assign
<1>6. Erase(v, i) = WithSize(Destruct(DoAll(v, steps), size - 1, 1), size - 1)
  BY <1>3 DEF Erase
<1>7. EraseMany(v, i, 1) = WithSize(Abandon(Destruct(DoAll(v, these), size - 1, 1), (size - 1) + 1, 1 - 1), size - 1)
  BY <1>3 DEF EraseMany
<1>8. \A j \in i .. i + m + 1 - 1 : c[j] \in Values
  BY <1>3, <1>4
<1> HIDE DEF c, m, steps, these
<1>9. Runs(n, c, DownSteps(i, m, 1), d)
  BY <1>3, <1>4, <1>8, MoveDown
<1>10. DoAll(v, these) = Vector(data, size, capacity, d)
  BY <1>3, <1>5, <1>9, AllSteps
<1>11. d = [j \in 0 .. n - 1 |-> IF i <= j /\ j < i + m THEN c[j + 1]
                                 ELSE IF i + 1 <= j /\ j < i + 1 + m THEN Moved ELSE c[j]]
  BY DEF DownCells
<1> HIDE DEF d
<1>12. d \in Cells(n) /\ d[size - 1] \notin Blank
  <2>1. ASSUME NEW j \in 0 .. n - 1 PROVE d[j] \in CellValues
    <3>1. i <= j /\ j < i + m => j + 1 \in 0 .. n - 1
      BY <1>4
    <3> QED BY <1>3, <1>11, <3>1 DEF Cells, CellValues
  <2>2. d[size - 1] \notin Blank
    <3>1. size - 1 \in 0 .. n - 1 /\ size - 1 \in 0 .. size - 1 /\ ~(size - 1 < i + m)
      BY <1>3, <1>4
    <3>2. d[size - 1] = Moved \/ d[size - 1] = c[size - 1]
      BY <1>11, <3>1
    <3> QED BY <1>3, <3>1, <3>2, BlankFacts
  <2> QED BY <1>11, <2>1, <2>2 DEF Cells
<1>13. Destruct(DoAll(v, these), size - 1, 1) = w
  <2>1. Alive(d, size - 1, 1)
    BY <1>4, <1>12 DEF Alive
  <2>2. 1 \in Nat
    OBVIOUS
  <2>3. Destruct(Vector(data, size, capacity, d), size - 1, 1) = w
    BY <1>3, <1>4, <1>12, <2>1, <2>2, Destructed
  <2> QED BY <1>10, <2>3
<1>14. d1 \in Cells(n)
  BY <1>12 DEF Wiped, Cells, CellValues
<1> HIDE DEF d1
<1>15. Abandon(w, (size - 1) + 1, 1 - 1) = w
  <2>1. /\ (size - 1) + 1 \in Nat /\ 1 - 1 \in Nat /\ ((size - 1) + 1) + (1 - 1) <= n
        /\ Alive(d1, (size - 1) + 1, 1 - 1)
    BY <1>3, <1>4 DEF Alive
  <2>2. Abandon(w, (size - 1) + 1, 1 - 1) = Vector(data, size, capacity, LeftIn(n, d1, (size - 1) + 1, 1 - 1))
    BY <1>3, <1>14, <2>1, Abandoned
  <2>3. LeftIn(n, d1, (size - 1) + 1, 1 - 1) = d1
    BY <1>3, <1>14 DEF LeftIn, Cells
  <2> QED BY <2>2, <2>3
<1>16. Erase(v, i) = EraseMany(v, i, 1)
  BY <1>5, <1>6, <1>7, <1>13, <1>15
<1>17. Makes(v, EraseMany(v, i, 1), Spliced(s, i, 1, <<>>))
  <2>1. 1 \in Nat \ {0} /\ i + 1 <= Len(s)
    BY <1>3
  <2> QED BY <2>1, EraseSome
<1> QED BY <1>16, <1>17

\* The last element takes the place of the i-th.
LEMMA SwapEraseKeeps ==
  ASSUME NEW v, NEW s, Good(v, s), NEW i \in Nat, i < Len(s)
  PROVE  Makes(v, SwapErase(v, i), SubSeq([s EXCEPT ![i + 1] = s[Len(s)]], 1, Len(s) - 1))
<1>1. PICK data, capacity, n, z : Has(v, s, data, capacity, n, z)
  BY DEF Good
<1>2. Reads(v, s, data, capacity, n, z)
  BY <1>1, HasFacts, Zenon
<1> DEFINE c == CellsOf(s, n, z)
           size == Len(s)
           u == [s EXCEPT ![i + 1] = s[size]]
           t == SubSeq(u, 1, size - 1)
           step == Assign(i, "move", size - 1)
           d == Result(c, step)
           y == [j \in Nat |-> IF j = size - 1 THEN Raw ELSE z[j]]
<1>3. /\ data \in Datas /\ capacity \in Nat /\ n \in Nat /\ capacity <= n /\ size <= capacity
      /\ data = Inline => n = N
      /\ v = Vector(data, size, capacity, c) /\ s \in Seq(Values)
      /\ c \in Cells(n) /\ DOMAIN c = 0 .. n - 1 /\ size \in Nat /\ v.m_data = data /\ v.m_size = size
      /\ \A j \in 0 .. size - 1 : c[j] = s[j + 1] /\ c[j] \in Values
      /\ \A j \in size .. n - 1 : c[j] = z[j]
      /\ z \in Rests
  BY <1>1, <1>2 DEF Has, Reads
<1>4. size \in 1 .. size /\ i + 1 \in 1 .. size /\ size - 1 \in Nat /\ \A j \in 1 .. size : s[j] \in Values
  BY <1>3, LenProperties
<1>5. CASE i = size - 1
  <2>1. u = s
    BY <1>3, <1>4, <1>5
  <2>2. SwapErase(v, i) = PopBack(v)
    BY <1>3, <1>5 DEF SwapErase
  <2>3. Makes(v, PopBack(v), SubSeq(s, 1, size - 1))
    BY <1>4, PopBackKeeps
  <2> QED BY <2>1, <2>2, <2>3, Zenon
<1>6. CASE i # size - 1
  <2>1. /\ t \in Seq(Values) /\ Len(t) = size - 1
        /\ \A j \in 1 .. size - 1 : t[j] = IF j = i + 1 THEN s[size] ELSE s[j]
    <3>1. DOMAIN s = 1 .. size
      BY <1>3, LenProperties
    <3>2. u \in [1 .. size -> Values] /\ \A j \in 1 .. size : u[j] = IF j = i + 1 THEN s[size] ELSE s[j]
      BY <1>3, <1>4, <3>1, LenProperties
    <3> HIDE DEF u
    <3>3. u \in Seq(Values) /\ Len(u) = size
      BY <1>3, <3>2, FunctionIsSequence
    <3>4. size - 1 \in 0 .. Len(u)
      BY <1>3, <1>4, <3>3
    <3>5. t \in Seq(Values) /\ Len(t) = size - 1 /\ \A j \in 1 .. size - 1 : t[j] = u[j]
      BY <3>3, <3>4, FirstOf
    <3> HIDE DEF t
    <3> QED BY <1>3, <1>4, <3>2, <3>5
  <2>0. y \in Rests /\ \A j \in Nat : y[j] = IF j = size - 1 THEN Raw ELSE z[j]
    BY <1>3, BlankFacts DEF Rests
  <2> HIDE DEF c, t, y
  <2>2. step \in Steps /\ step.does = "assign" /\ step.to = i /\ step.how = "move" /\ step.from = size - 1
    BY <1>3 DEF Assign, Steps
  <2> HIDE DEF step
  <2>3. i \in 0 .. n - 1 /\ size - 1 \in 0 .. n - 1 /\ i \in 0 .. size - 1 /\ size - 1 \in 0 .. size - 1
    BY <1>3, <1>4
  <2>4. What(c, step) = c[size - 1] /\ c[size - 1] \in Values /\ c[i] \notin Blank
    BY <1>3, <2>2, <2>3, BlankFacts DEF What
  <2>5. Legal(c, step)
    BY <1>3, <2>2, <2>3, <2>4 DEF Legal
  <2>6. d = [j \in 0 .. n - 1 |-> IF j = i THEN s[size] ELSE IF j = size - 1 THEN Moved ELSE c[j]]
    BY <1>3, <1>4, <2>2, <2>3, <2>4 DEF Result
  <2>7. Do(v, step) = Vector(data, size, capacity, d)
    BY <1>3, <2>2, <2>5, OneStep
  <2> HIDE DEF d
  <2>8. d \in Cells(n)
    BY <1>3, <1>4, <2>6 DEF Cells, CellValues
  <2>9. Alive(d, size - 1, 1)
    BY <1>3, <1>4, <1>6, <2>3, <2>6, BlankFacts DEF Alive
  <2>10. \A j \in 0 .. n - 1 : (IF size - 1 <= j /\ j < size - 1 + 1 THEN Raw ELSE d[j])
                               = IF j < Len(t) THEN t[j + 1] ELSE y[j]
    <3> TAKE j \in 0 .. n - 1
    <3>0. d[j] = IF j = i THEN s[size] ELSE IF j = size - 1 THEN Moved ELSE c[j]
      BY <2>6, Zenon
    <3>1. CASE j >= size
      BY <1>3, <1>4, <2>0, <2>1, <3>0, <3>1, SMTT(60)
    <3>2. CASE j = size - 1
      BY <1>3, <1>4, <2>0, <2>1, <3>2
    <3>3. CASE j < size - 1
      <4>1. j \in 0 .. size - 1 /\ j + 1 \in 1 .. size - 1 /\ (j + 1 = i + 1) = (j = i)
        BY <1>3, <1>4, <3>3
      <4>2. t[j + 1] = IF j = i THEN s[size] ELSE s[j + 1]
        BY <2>1, <4>1
      <4>3. d[j] = IF j = i THEN s[size] ELSE s[j + 1]
        BY <1>3, <3>0, <3>3, <4>1, SMTT(60)
      <4> QED BY <1>3, <2>1, <3>3, <4>2, <4>3
    <3> QED BY <1>3, <1>4, <3>1, <3>2, <3>3
  <2> DEFINE w == Vector(data, size, capacity, d)
  <2>11. SwapErase(v, i) = WithSize(Destruct(w, size - 1, 1), size - 1)
    <3>1. w.m_size = size
      BY DEF Vector
    <3> HIDE DEF w
    <3>2. SwapErase(v, i) = PopBack(w)
      BY <1>3, <1>6, <2>7 DEF SwapErase, step, w
    <3> QED BY <3>1, <3>2, Zenon DEF PopBack
  <2> HIDE DEF size
  <2>12. Has(WithSize(Destruct(Vector(data, size, capacity, d), size - 1, 1), Len(t)), t, data, capacity, n, y)
    <3>1. 1 \in Nat /\ (size - 1) + 1 <= n /\ size - 1 <= capacity
      BY <1>3, <1>4
    <3> QED BY <1>3, <1>4, <2>0, <2>1, <2>8, <2>9, <2>10, <3>1, Leaves
  <2> QED BY <1>3, <2>1, <2>11, <2>12, MakesIt DEF t, size
<1> QED BY <1>5, <1>6

\* Nothing is spliced in or out.
LEMMA NothingSpliced ==
  ASSUME NEW s \in Seq(Values), NEW i \in Nat, i <= Len(s)
  PROVE  Spliced(s, i, 0, <<>>) = s
<1> DEFINE e == <<>>
           t == Spliced(s, i, 0, e)
<1>1. e \in Seq(Values) /\ Len(e) = 0 /\ 0 \in Nat /\ Len(s) \in Nat /\ i + 0 <= Len(s)
  BY LenProperties
<1> HIDE DEF e
<1>2. Splices(t, s, i, 0, e)
  BY <1>1, SplicedFacts
<1> HIDE DEF t
<1>3. t \in Seq(Values) /\ Len(t) = Len(s) /\ \A j \in 1 .. Len(t) : t[j] = s[j]
  BY <1>1, <1>2 DEF Splices
<1>4. t = s
  BY <1>3, SeqEqual
<1> QED BY <1>4 DEF t, e

LEMMA EraseManyKeeps ==
  ASSUME NEW v, NEW s, Good(v, s), NEW i \in Nat, NEW n \in Nat, i + n <= Len(s)
  PROVE  Makes(v, EraseMany(v, i, n), Spliced(s, i, n, <<>>))
<1>1. CASE n = 0
  <2>1. s \in Seq(Values) /\ i <= Len(s)
    BY <1>1 DEF Good, Has
  <2>2. Spliced(s, i, 0, <<>>) = s
    BY <2>1, NothingSpliced
  <2>3. EraseMany(v, i, n) = v
    BY <1>1 DEF EraseMany
  <2>4. Makes(v, v, s)
    BY Zenon DEF Makes
  <2> QED BY <1>1, <2>2, <2>3, <2>4, Zenon
<1>2. CASE n # 0
  <2>1. n \in Nat \ {0}
    BY <1>2
  <2> QED BY <2>1, EraseSome
<1> QED BY <1>1, <1>2

\* The cells before and after, by the sequences they hold.
LEMMA CellsFacts ==
  ASSUME NEW s \in Seq(Values), NEW n \in Nat, Len(s) <= n, NEW z \in Rests
  PROVE  /\ CellsOf(s, n, z) \in Cells(n) /\ DOMAIN CellsOf(s, n, z) = 0 .. n - 1 /\ Len(s) \in Nat
         /\ \A j \in 0 .. Len(s) - 1 : CellsOf(s, n, z)[j] = s[j + 1] /\ CellsOf(s, n, z)[j] \in Values
         /\ \A j \in Len(s) .. n - 1 : CellsOf(s, n, z)[j] = z[j] /\ CellsOf(s, n, z)[j] \in Blank
<1>1. Len(s) \in Nat /\ \A j \in 1 .. Len(s) : s[j] \in Values
  BY LenProperties
<1>2. \A j \in 0 .. Len(s) - 1 : s[j + 1] \in Values
  BY <1>1
<1>3. \A j \in 0 .. n - 1 : z[j] \in Blank /\ z[j] \in CellValues
  BY BlankFacts DEF Rests
<1> QED BY <1>1, <1>2, <1>3 DEF CellsOf, Cells, CellValues

\* The element behind the last is made of it, the others are moved up, and
\* the new one is put into its place.
LEMMA InsertRuns ==
  ASSUME NEW s \in Seq(Values), NEW i \in Nat, i < Len(s), NEW n \in Nat, Len(s) + 1 <= n, NEW z \in Rests,
         NEW x \in Values, NEW t, Splices(t, s, i, 0, <<x>>)
  PROVE  Runs(n, CellsOf(s, n, z),
              <<Construct(Len(s), "move", Len(s) - 1)>>
              \o [k \in 1 .. Len(s) - 1 - i |-> Assign(Len(s) - k, "move", Len(s) - k - 1)]
              \o <<Assign(i, "value", x)>>,
              CellsOf(t, n, z))
<1> DEFINE size == Len(s)
           c == CellsOf(s, n, z)
           m == size - 1 - i
           first == Construct(size, "move", size - 1)
           loop == [k \in 1 .. m |-> Assign(size - k, "move", size - k - 1)]
           last == Assign(i, "value", x)
           c1 == Result(c, first)
           c2 == UpCells(n, c1, size, m)
           c3 == Result(c2, last)
<1>1. /\ c \in Cells(n) /\ DOMAIN c = 0 .. n - 1 /\ size \in Nat
      /\ \A j \in 0 .. size - 1 : c[j] = s[j + 1] /\ c[j] \in Values
      /\ \A j \in size .. n - 1 : c[j] = z[j] /\ c[j] \in Blank
  <2>1. Len(s) <= n
    BY LenProperties
  <2> QED BY <2>1, CellsFacts
<1>2. m \in 0 .. size - 1 /\ size \in 1 .. n /\ size - m = i + 1
  BY <1>1
<1>3. /\ t \in Seq(Values) /\ Len(t) = size + 1
      /\ \A j \in 1 .. size + 1 : t[j] = IF j <= i THEN s[j] ELSE IF j = i + 1 THEN x ELSE s[j - 1]
  <2> DEFINE xs == <<x>>
  <2>1. Len(xs) = 1 /\ xs[1] = x
    OBVIOUS
  <2> HIDE DEF xs
  <2>2. Splices(t, s, i, 0, xs)
    BY DEF xs
  <2>3. /\ t \in Seq(Values) /\ Len(t) = size - 0 + Len(xs)
        /\ \A j \in 1 .. size - 0 + Len(xs) :
             t[j] = IF j <= i THEN s[j] ELSE IF j <= i + Len(xs) THEN xs[j - i] ELSE s[j - Len(xs) + 0]
    BY <2>2 DEF Splices
  <2>4. t \in Seq(Values) /\ Len(t) = size + 1
    BY <1>1, <2>1, <2>3
  <2>5. ASSUME NEW j \in 1 .. size + 1
        PROVE  t[j] = IF j <= i THEN s[j] ELSE IF j = i + 1 THEN x ELSE s[j - 1]
    <3>1. t[j] = IF j <= i THEN s[j] ELSE IF j <= i + 1 THEN xs[j - i] ELSE s[j - 1]
      BY <1>1, <2>1, <2>3
    <3>2. ~(j <= i) /\ j <= i + 1 => j - i = 1
      BY <1>1
    <3> QED BY <1>1, <2>1, <3>1, <3>2
  <2> QED BY <2>4, <2>5
<1> HIDE DEF c
<1>4. /\ first \in Steps /\ first.does = "construct" /\ first.to = size
      /\ first.how = "move" /\ first.from = size - 1
  BY <1>1 DEF Construct, Steps
<1>5. /\ last \in Steps /\ last.does = "assign" /\ last.to = i /\ last.how = "value" /\ last.from = x
  BY <1>1 DEF Assign, Steps
<1> HIDE DEF first, last
<1>6. Legal(c, first) /\ What(c, first) = c[size - 1]
  <2>1. size \in 0 .. n - 1 /\ size - 1 \in 0 .. n - 1 /\ size - 1 \in 0 .. size - 1 /\ size \in size .. n - 1
    BY <1>1
  <2>2. What(c, first) = c[size - 1] /\ c[size - 1] \in Values /\ c[size] \in Blank
    BY <1>1, <1>4, <2>1 DEF What
  <2> QED BY <1>1, <1>4, <2>1, <2>2 DEF Legal
<1>7. c1 = [j \in 0 .. n - 1 |-> IF j = size THEN c[size - 1] ELSE IF j = size - 1 THEN Moved ELSE c[j]]
  BY <1>1, <1>4, <1>6 DEF Result
<1> HIDE DEF c1
<1>8. c1 \in Cells(n)
  BY <1>1, <1>2, <1>7 DEF Cells, CellValues
<1>9. Runs(n, c, <<first>>, c1)
  BY <1>1, <1>4, <1>6, <1>8, Once DEF c1
<1>10. loop = UpSteps(size, m)
  BY DEF Assign, UpSteps
<1>11. Runs(n, c1, loop, c2)
  <2>1. c1[size - 1] \notin Blank
    BY <1>1, <1>2, <1>7, BlankFacts
  <2>2. \A j \in size - m - 1 .. size - 2 : c1[j] \in Values
    BY <1>1, <1>2, <1>7
  <2> HIDE DEF size, m, loop
  <2>3. Runs(n, c1, UpSteps(size, m), UpCells(n, c1, size, m))
    BY <1>2, <1>8, <2>1, <2>2, MoveUp
  <2> QED BY <1>10, <2>3
<1>12. c2 = [j \in 0 .. n - 1 |-> IF i + 1 <= j /\ j < size THEN c1[j - 1]
                                  ELSE IF m > 0 /\ j = i THEN Moved ELSE c1[j]]
  BY <1>2 DEF UpCells
<1> HIDE DEF c2
<1>13. c2 = [j \in 0 .. n - 1 |-> IF i + 1 <= j /\ j <= size THEN c[j - 1] ELSE IF j = i THEN Moved ELSE c[j]]
  <2>1. ASSUME NEW j \in 0 .. n - 1
        PROVE  (IF i + 1 <= j /\ j < size THEN c1[j - 1] ELSE IF m > 0 /\ j = i THEN Moved ELSE c1[j])
               = IF i + 1 <= j /\ j <= size THEN c[j - 1] ELSE IF j = i THEN Moved ELSE c[j]
    <3>1. CASE i + 1 <= j /\ j < size
      <4>1. j - 1 \in 0 .. n - 1 /\ j - 1 # size /\ j - 1 # size - 1
        BY <1>1, <3>1
      <4> QED BY <1>1, <1>7, <3>1, <4>1
    <3>2. CASE j = size
      BY <1>1, <1>7, <3>2
    <3>3. CASE j = i
      BY <1>1, <1>2, <1>7, <3>3
    <3>4. CASE j < i \/ j > size
      BY <1>1, <1>2, <1>7, <3>4
    <3> QED BY <1>1, <3>1, <3>2, <3>3, <3>4
  <2> QED BY <1>12, <2>1
<1>14. c2 \in Cells(n)
  <2>1. \A j \in 0 .. n - 1 : c2[j] \in CellValues
    BY <1>1, <1>2, <1>13 DEF Cells, CellValues
  <2> QED BY <1>13, <2>1 DEF Cells
<1>15. Legal(c2, last) /\ What(c2, last) = x
  <2>1. i \in 0 .. n - 1 /\ c2[i] = Moved /\ DOMAIN c2 = 0 .. n - 1
    BY <1>1, <1>13
  <2> QED BY <1>5, <2>1, BlankFacts DEF Legal, What
<1>16. c3 = [j \in 0 .. n - 1 |-> IF j = i THEN x ELSE c2[j]]
  BY <1>5, <1>13, <1>15 DEF Result
<1>17. c3 = CellsOf(t, n, z)
  <2>1. ASSUME NEW j \in 0 .. n - 1
        PROVE  (IF j = i THEN x ELSE c2[j]) = IF j < Len(t) THEN t[j + 1] ELSE z[j]
    <3>1. CASE j = i
      BY <1>1, <1>3, <3>1
    <3>2. CASE j < i
      <4>1. j \in 0 .. size - 1 /\ j + 1 \in 1 .. size + 1 /\ j + 1 <= i /\ j # i
        BY <1>1, <3>2
      <4>2. t[j + 1] = s[j + 1] /\ c2[j] = c[j] /\ c[j] = s[j + 1]
        BY <1>1, <1>3, <1>13, <3>2, <4>1
      <4> QED BY <1>1, <1>3, <3>2, <4>1, <4>2
    <3>3. CASE i < j /\ j <= size
      <4>1. j - 1 \in 0 .. size - 1 /\ j + 1 \in 1 .. size + 1 /\ ~(j + 1 <= i) /\ j + 1 # i + 1
        BY <1>1, <3>3
      <4>2. t[j + 1] = s[j] /\ c2[j] = c[j - 1] /\ c[j - 1] = s[j]
        BY <1>1, <1>3, <1>13, <3>3, <4>1
      <4> QED BY <1>1, <1>3, <3>3, <4>1, <4>2
    <3>4. CASE j > size
      BY <1>1, <1>3, <1>13, <3>4, SMTT(60)
    <3> QED BY <1>1, <3>1, <3>2, <3>3, <3>4
  <2> QED BY <1>16, <2>1 DEF CellsOf
<1> HIDE DEF c3
<1>18. Runs(n, c2, <<last>>, c3)
  <2>1. c3 \in Cells(n)
    <3>1. \A j \in 0 .. n - 1 : c3[j] \in CellValues
      BY <1>1, <1>14, <1>16 DEF Cells, CellValues
    <3> QED BY <1>16, <3>1 DEF Cells
  <2> QED BY <1>5, <1>14, <1>15, <2>1, Once DEF c3
<1> HIDE DEF loop
<1>19. Runs(n, c, <<first>> \o loop \o <<last>>, c3)
  <2>1. Runs(n, c, <<first>> \o loop, c2)
    BY <1>9, <1>11, Then
  <2> QED BY <1>18, <2>1, Then
<1> QED BY <1>17, <1>19 DEF c, first, loop, last

LEMMA InsertKeeps ==
  ASSUME NEW v, NEW s, Good(v, s), FreshBlock \in Blocks, NEW i \in Nat, i <= Len(s), NEW x \in Values
  PROVE  Makes(v, Insert(v, i, x), Spliced(s, i, 0, <<x>>))
<1>1. PICK data, capacity, q, z : Has(v, s, data, capacity, q, z)
  BY DEF Good
<1> DEFINE size == Len(s)
           t == Spliced(s, i, 0, <<x>>)
           want == GrowArraySize(capacity)
           least == size + 1
           r == IF size + 1 > v.m_capacity THEN Reserve(v, GrowArraySize(v.m_capacity)) ELSE v
           one == <<Construct(size, "value", x)>>
           many == <<Construct(size, "move", size - 1)>>
                   \o [k \in 1 .. size - 1 - i |-> Assign(size - k, "move", size - k - 1)]
                   \o <<Assign(i, "value", x)>>
           steps == IF i = size THEN one ELSE many
<1>2. /\ v.m_data = data /\ v.m_size = size /\ v.m_capacity = capacity
      /\ size \in Nat /\ s \in Seq(Values) /\ capacity \in Nat /\ size <= capacity
  <2>1. Reads(v, s, data, capacity, q, z)
    BY <1>1, HasFacts, Zenon
  <2> QED BY <1>1, <2>1 DEF Reads, Has
<1>3. Splices(t, s, i, 0, <<x>>)
  <2> DEFINE xs == <<x>>
  <2>1. xs \in Seq(Values) /\ 0 \in Nat /\ i + 0 <= Len(s)
    BY <1>2
  <2> HIDE DEF xs
  <2>2. Splices(Spliced(s, i, 0, xs), s, i, 0, xs)
    BY <1>2, <2>1, SplicedFacts
  <2> QED BY <2>2 DEF xs
<1> HIDE DEF t
<1>4. /\ t \in Seq(Values) /\ Len(t) = size + 1
      /\ \A j \in 1 .. size + 1 : t[j] = IF j <= i THEN s[j] ELSE IF j <= i + 1 THEN <<x>>[j - i] ELSE s[j - 1]
  <2> DEFINE xs == <<x>>
  <2>1. Len(xs) = 1
    OBVIOUS
  <2> HIDE DEF xs
  <2>2. Splices(t, s, i, 0, xs)
    BY <1>3 DEF xs
  <2>3. t \in Seq(Values) /\ Len(t) = size + 1
    BY <1>2, <2>1, <2>2 DEF Splices
  <2>4. \A j \in 1 .. size + 1 : t[j] = IF j <= i THEN s[j] ELSE IF j <= i + 1 THEN xs[j - i] ELSE s[j - 1]
    BY <1>2, <2>1, <2>2 DEF Splices
  <2> QED BY <2>3, <2>4 DEF xs
<1>5. PICK to, room, k, y : Has(r, s, to, room, k, y) /\ to \in {data, FreshBlock} /\ size + 1 <= room
  <2>1. r = Reserve(v, want) \/ (r = v /\ least <= capacity)
    BY <1>2
  <2> HIDE DEF r
  <2>2. want \in Nat /\ capacity < want
    BY <1>2, Grown
  <2> HIDE DEF want
  <2>3. want \in Nat /\ least \in Nat /\ least <= want /\ (r = Reserve(v, want) \/ (r = v /\ least <= capacity))
    BY <1>2, <2>1, <2>2
  <2> HIDE DEF least
  <2>4. HasRoom(r, s, data, least)
    BY <1>1, <2>3, Roomy, Zenon
  <2> QED BY <2>4 DEF least, HasRoom
<1>6. y \in Rests /\ k \in Nat /\ room \in Nat /\ room <= k
  BY <1>5 DEF Has
<1>7. Runs(k, CellsOf(s, k, y), steps, CellsOf(t, k, y))
  <2>1. CASE i = size
    <3> DEFINE c == CellsOf(s, k, y)
               step == Construct(size, "value", x)
    <3>1. c \in Cells(k) /\ DOMAIN c = 0 .. k - 1 /\ size \in 0 .. k - 1 /\ size \in size .. k - 1
          /\ c[size] \in Blank /\ \A j \in 0 .. size - 1 : c[j] = s[j + 1]
      <4>1. Len(s) <= k /\ size \in 0 .. k - 1 /\ size \in size .. k - 1
        BY <1>2, <1>5, <1>6
      <4> QED BY <1>2, <1>6, <4>1, CellsFacts
    <3>2. step \in Steps /\ step.does = "construct" /\ step.to = size /\ step.how = "value" /\ step.from = x
      BY <1>2 DEF Construct, Steps
    <3> HIDE DEF step
    <3>3. Legal(c, step) /\ What(c, step) = x
      BY <3>1, <3>2 DEF Legal, What
    <3>4. Result(c, step) = [j \in 0 .. k - 1 |-> IF j = size THEN x ELSE c[j]]
      BY <3>1, <3>2, <3>3 DEF Result
    <3>5. Result(c, step) = CellsOf(t, k, y)
      <4>1. ASSUME NEW j \in 0 .. k - 1
            PROVE  (IF j = size THEN x ELSE c[j]) = IF j < Len(t) THEN t[j + 1] ELSE y[j]
        <5>1. CASE j = size
          <6>1. j + 1 - i = 1
            BY <1>2, <2>1, <5>1
          <6> QED BY <1>2, <1>4, <2>1, <5>1, <6>1
        <5>2. CASE j < size
          <6>1. j \in 0 .. size - 1 /\ j + 1 \in 1 .. size + 1 /\ j + 1 <= i
            BY <1>2, <2>1, <5>2
          <6>2. t[j + 1] = s[j + 1] /\ c[j] = s[j + 1]
            BY <1>4, <3>1, <6>1
          <6> QED BY <1>2, <1>4, <5>2, <6>1, <6>2
        <5>3. CASE j > size
          BY <1>2, <1>4, <5>3 DEF CellsOf
        <5> QED BY <1>2, <5>1, <5>2, <5>3
      <4> QED BY <3>4, <4>1 DEF CellsOf
    <3> HIDE DEF c
    <3>6. Result(c, step) \in Cells(k)
      <4>1. \A j \in 0 .. k - 1 : (IF j = size THEN x ELSE c[j]) \in CellValues
        BY <3>1 DEF Cells, CellValues
      <4> QED BY <3>4, <4>1 DEF Cells
    <3>7. Runs(k, c, <<step>>, Result(c, step))
      BY <1>6, <3>1, <3>2, <3>3, <3>6, Once
    <3> QED BY <2>1, <3>5, <3>7 DEF c, step
  <2>2. CASE i # size
    <3>1. i < Len(s) /\ Len(s) + 1 <= k
      BY <1>2, <1>5, <1>6, <2>2
    <3>2. Runs(k, CellsOf(s, k, y), many, CellsOf(t, k, y))
      BY <1>2, <1>3, <1>6, <3>1, InsertRuns
    <3> QED BY <2>2, <3>2
  <2> QED BY <2>1, <2>2
<1>8. Insert(v, i, x) = WithSize(DoAll(r, steps), size + 1)
  BY <1>2 DEF Insert
<1> HIDE DEF r, steps
<1>9. Has(WithSize(DoAll(r, steps), Len(t)), t, to, room, k, y)
  BY <1>4, <1>5, <1>7, LoopMakes
<1> QED BY <1>2, <1>4, <1>5, <1>8, <1>9, MakesIt DEF t

\* The n values xs before the i-th of size cells; those from it on are moved up.
Parted(k, c, i, size, n, xs) ==
  [j \in 0 .. k - 1 |-> IF j < i THEN c[j] ELSE IF j < i + n THEN xs[j - i + 1]
                        ELSE IF j < size + n THEN c[j - n] ELSE c[j]]

LEMMA SplicedCells ==
  ASSUME NEW s \in Seq(Values), NEW xs \in Seq(Values), NEW i \in Nat, i <= Len(s),
         NEW k \in Nat, NEW y \in Rests, Len(s) + Len(xs) <= k, NEW t, Splices(t, s, i, 0, xs)
  PROVE  CellsOf(t, k, y) = Parted(k, CellsOf(s, k, y), i, Len(s), Len(xs), xs)
<1> DEFINE size == Len(s)
           n == Len(xs)
           c == CellsOf(s, k, y)
<1>1. size \in Nat /\ n \in Nat /\ size + n <= k
  BY LenProperties
<1>2. /\ \A j \in 0 .. size - 1 : c[j] = s[j + 1]
      /\ \A j \in size .. k - 1 : c[j] = y[j]
  <2>1. Len(s) <= k
    BY <1>1
  <2> QED BY <2>1, CellsFacts
<1>3. /\ Len(t) = size + n
      /\ \A j \in 1 .. size + n : t[j] = IF j <= i THEN s[j] ELSE IF j <= i + n THEN xs[j - i] ELSE s[j - n]
  <2>1. /\ Len(t) = size - 0 + n
        /\ \A j \in 1 .. size - 0 + n : t[j] = IF j <= i THEN s[j] ELSE IF j <= i + n THEN xs[j - i] ELSE s[j - n + 0]
    BY DEF Splices
  <2>2. size - 0 + n = size + n /\ \A j \in 1 .. size + n : j - n + 0 = j - n
    BY <1>1
  <2> QED BY <2>1, <2>2
<1> HIDE DEF c, size, n
<1>4. ASSUME NEW j \in 0 .. k - 1
      PROVE  (IF j < Len(t) THEN t[j + 1] ELSE y[j])
             = IF j < i THEN c[j] ELSE IF j < i + n THEN xs[j - i + 1] ELSE IF j < size + n THEN c[j - n] ELSE c[j]
  <2>0. i <= size
    BY DEF size
  <2>1. CASE j < i
    <3>1. j \in 0 .. size - 1 /\ j + 1 \in 1 .. size + n /\ j + 1 <= i
      BY <1>1, <2>0, <2>1
    <3>2. t[j + 1] = s[j + 1] /\ c[j] = s[j + 1]
      BY <1>2, <1>3, <3>1
    <3> QED BY <1>1, <1>3, <2>0, <2>1, <3>2
  <2>2. CASE ~(j < i) /\ j < i + n
    <3>1. j + 1 \in 1 .. size + n /\ ~(j + 1 <= i) /\ j + 1 <= i + n /\ j + 1 - i = j - i + 1
      BY <1>1, <2>0, <2>2
    <3>2. t[j + 1] = xs[j - i + 1]
      BY <1>3, <3>1
    <3> QED BY <1>1, <1>3, <2>0, <2>2, <3>2
  <2>3. CASE ~(j < i + n) /\ j < size + n
    <3>1. /\ j + 1 \in 1 .. size + n /\ ~(j + 1 <= i) /\ ~(j + 1 <= i + n) /\ j + 1 - n = j - n + 1
          /\ j - n \in 0 .. size - 1
      BY <1>1, <2>0, <2>3
    <3>2. t[j + 1] = s[j - n + 1]
      <4>1. t[j + 1] = s[(j + 1) - n]
        BY <1>3, <3>1
      <4> QED BY <1>1, <3>1, <4>1
    <3>3. c[j - n] = s[j - n + 1]
      BY <1>2, <3>1
    <3> QED BY <1>1, <1>3, <2>0, <2>3, <3>2, <3>3
  <2>4. CASE ~(j < size + n)
    <3>1. j \in size .. k - 1 /\ ~(j < i) /\ ~(j < i + n)
      BY <1>1, <2>0, <2>4
    <3> QED BY <1>2, <1>3, <2>4, <3>1
  <2> QED BY <1>1, <2>0, <2>1, <2>2, <2>3, <2>4
<1>5. CellsOf(t, k, y) = Parted(k, c, i, size, n, xs)
  BY <1>4 DEF CellsOf, Parted
<1> QED BY <1>5 DEF c, size, n

\* At the end they are constructed one after the other.
LEMMA RangeAtEnd ==
  ASSUME NEW size \in Nat, NEW n \in Nat, NEW k \in Nat, size + n <= k,
         NEW c \in Cells(k), \A j \in size .. k - 1 : c[j] \in Blank,
         NEW xs \in [1 .. n -> Values]
  PROVE  Runs(k, c, [q \in 1 .. n |-> Construct(size + q - 1, "value", xs[q])], Parted(k, c, size, size, n, xs))
<1>1. [q \in 1 .. n |-> Construct(size + q - 1, "value", xs[q])] = PutSteps("construct", size, n, xs)
  BY DEF PutSteps, Construct
<1>2. Parted(k, c, size, size, n, xs) = PutCells(k, c, size, n, xs)
  BY DEF Parted, PutCells
<1>3. "construct" \in {"construct", "assign"} /\ \A j \in size .. size + n - 1 : ("construct" = "construct") = (c[j] \in Blank)
  OBVIOUS
<1>4. Runs(k, c, PutSteps("construct", size, n, xs), PutCells(k, c, size, n, xs))
  BY <1>3, PutValues
<1> QED BY <1>1, <1>2, <1>4

\* No more than what is behind the i-th: its last n elements are copied behind
\* the end, the others moved up to it, and the new ones take their places.
LEMMA RangeInside ==
  ASSUME NEW size \in Nat, NEW n \in Nat, NEW i \in Nat, i + n <= size, NEW k \in Nat, size + n <= k,
         NEW c \in Cells(k), \A j \in 0 .. size - 1 : c[j] \in Values, \A j \in size .. k - 1 : c[j] \in Blank,
         NEW xs \in [1 .. n -> Values]
  PROVE  Runs(k, c, ShiftBackwards(size, i, n) \o [q \in 1 .. n |-> Assign(i + q - 1, "value", xs[q])],
              Parted(k, c, i, size, n, xs))
<1> DEFINE m == size - n - i
           a == CopySteps(size, size - n, n)
           b == BackSteps(size, n, m)
           d == PutSteps("assign", i, n, xs)
           c1 == CopyCells(k, c, size, size - n, n)
           c2 == BackCells(k, c1, size, n, m)
           c3 == PutCells(k, c2, i, n, xs)
<1>1. m \in Nat /\ size - m = i + n /\ size - n \in Nat /\ size - n + n <= size /\ m + n <= size /\ size \in 0 .. k
  OBVIOUS
<1>2. ShiftBackwards(size, i, n) = a \o b
  BY DEF ShiftBackwards, CopySteps, BackSteps, Construct, Assign
<1>3. [q \in 1 .. n |-> Assign(i + q - 1, "value", xs[q])] = d
  BY DEF PutSteps, Assign
<1>4. Runs(k, c, a, c1)
  BY <1>1, CopyToFresh
<1>5. c1 = [j \in 0 .. k - 1 |-> IF size <= j /\ j < size + n THEN c[j - n] ELSE c[j]]
  <2>1. \A j \in 0 .. k - 1 : size <= j => j - size + (size - n) = j - n
    OBVIOUS
  <2> QED BY <2>1 DEF CopyCells
<1> HIDE DEF c1, a
<1>6. c1 \in Cells(k) /\ \A j \in size - m - n .. size - 1 : c1[j] \in Values
  <2>1. \A j \in 0 .. k - 1 : c1[j] \in CellValues
    BY <1>5 DEF Cells, CellValues
  <2> QED BY <1>1, <1>5, <2>1 DEF Cells
<1> HIDE DEF m
<1>7. Runs(k, c1, b, c2)
  BY <1>1, <1>6, CopyBackwards
<1>8. c2 = [j \in 0 .. k - 1 |-> IF i + n <= j /\ j < size THEN c1[j - n] ELSE c1[j]]
  BY <1>1 DEF BackCells
<1> HIDE DEF c2, b
<1>9. c2 = [j \in 0 .. k - 1 |-> IF i + n <= j /\ j < size + n THEN c[j - n] ELSE c[j]]
  <2>1. ASSUME NEW j \in 0 .. k - 1
        PROVE  (IF i + n <= j /\ j < size THEN c1[j - n] ELSE c1[j])
               = IF i + n <= j /\ j < size + n THEN c[j - n] ELSE c[j]
    <3>1. CASE i + n <= j /\ j < size
      <4>1. j - n \in 0 .. k - 1 /\ ~(size <= j - n)
        BY <3>1
      <4> QED BY <1>5, <3>1, <4>1
    <3>2. CASE size <= j /\ j < size + n
      BY <1>5, <3>2
    <3>3. CASE j < i + n \/ size + n <= j
      BY <1>5, <3>3
    <3> QED BY <3>1, <3>2, <3>3
  <2> QED BY <1>8, <2>1
<1>10. c2 \in Cells(k) /\ \A j \in i .. i + n - 1 : c2[j] \in Values
  <2>1. \A j \in 0 .. k - 1 : c2[j] \in CellValues
    BY <1>9 DEF Cells, CellValues
  <2> QED BY <1>9, <2>1 DEF Cells
<1>11. Runs(k, c2, d, c3)
  <2>1. "assign" \in {"construct", "assign"} /\ \A j \in i .. i + n - 1 : ("assign" = "construct") = (c2[j] \in Blank)
    BY <1>10, BlankFacts
  <2>2. i + n <= k
    OBVIOUS
  <2> QED BY <1>10, <2>1, <2>2, PutValues
<1>12. c3 = Parted(k, c, i, size, n, xs)
  BY <1>9 DEF PutCells, Parted
<1> HIDE DEF c3, d
<1>13. Runs(k, c, (a \o b) \o d, c3)
  <2>1. Runs(k, c, a \o b, c2)
    BY <1>4, <1>7, Then
  <2> QED BY <1>11, <2>1, Then
<1> QED BY <1>2, <1>3, <1>12, <1>13

\* More than what is behind the i-th: the last of the new ones are constructed
\* at the end, the m elements copied behind them, and the others assigned.
LEMMA RangeOver ==
  ASSUME NEW size \in Nat, NEW n \in Nat, NEW i \in Nat, NEW m \in Nat, i + m = size, m < n,
         NEW k \in Nat, size + n <= k,
         NEW c \in Cells(k), \A j \in 0 .. size - 1 : c[j] \in Values, \A j \in size .. k - 1 : c[j] \in Blank,
         NEW xs \in [1 .. n -> Values]
  PROVE  Runs(k, c,
              [q \in 1 .. n - m |-> Construct(size + q - 1, "value", xs[m + q])]
              \o [q \in 1 .. m |-> Construct(size + n - m + q - 1, "copy", i + q - 1)]
              \o [q \in 1 .. m |-> Assign(i + q - 1, "value", xs[q])],
              Parted(k, c, i, size, n, xs))
<1> DEFINE l == n - m
           e == size + n - m
           ys == [q \in 1 .. l |-> xs[m + q]]
           zs == [q \in 1 .. m |-> xs[q]]
           a == PutSteps("construct", size, l, ys)
           b == CopySteps(e, i, m)
           d == PutSteps("assign", i, m, zs)
           c1 == PutCells(k, c, size, l, ys)
           c2 == CopyCells(k, c1, e, i, m)
           c3 == PutCells(k, c2, i, m, zs)
<1>1. l \in Nat /\ e \in Nat /\ size + l = e /\ e + m = size + n /\ e <= k /\ size <= e /\ i <= size
  OBVIOUS
<1>2. ys \in [1 .. l -> Values] /\ zs \in [1 .. m -> Values]
  OBVIOUS
<1>3. [q \in 1 .. n - m |-> Construct(size + q - 1, "value", xs[m + q])] = a
  BY DEF PutSteps, Construct
<1>4. [q \in 1 .. m |-> Construct(size + n - m + q - 1, "copy", i + q - 1)] = b
  BY DEF CopySteps, Construct
<1>5. [q \in 1 .. m |-> Assign(i + q - 1, "value", xs[q])] = d
  BY DEF PutSteps, Assign
<1>6. c1 = [j \in 0 .. k - 1 |-> IF size <= j /\ j < e THEN xs[j - i + 1] ELSE c[j]]
  <2>1. ASSUME NEW j \in 0 .. k - 1, size <= j, j < size + l PROVE ys[j - size + 1] = xs[j - i + 1]
    <3>1. j - size + 1 \in 1 .. l /\ m + (j - size + 1) = j - i + 1
      BY <2>1
    <3> QED BY <3>1
  <2> HIDE DEF ys
  <2> QED BY <1>1, <2>1 DEF PutCells
<1> HIDE DEF ys
<1>7. Runs(k, c, a, c1)
  <2>1. "construct" \in {"construct", "assign"} /\ \A j \in size .. size + l - 1 : ("construct" = "construct") = (c[j] \in Blank)
    BY <1>1
  <2> HIDE DEF l, e
  <2> QED BY <1>1, <1>2, <2>1, PutValues
<1> HIDE DEF c1, a
<1>8. /\ c1 \in Cells(k) /\ \A j \in i .. i + m - 1 : c1[j] \in Values
      /\ \A j \in e .. e + m - 1 : c1[j] \in Blank
  <2>1. \A j \in 0 .. k - 1 : c1[j] \in CellValues
    BY <1>1, <1>6 DEF Cells, CellValues
  <2> QED BY <1>1, <1>6, <2>1 DEF Cells
<1>9. Runs(k, c1, b, c2)
  <2>1. i + m <= e /\ e + m <= k
    BY <1>1
  <2> HIDE DEF l, e
  <2> QED BY <1>1, <1>8, <2>1, CopyToFresh
<1>10. c2 = [j \in 0 .. k - 1 |-> IF e <= j /\ j < e + m THEN c[j - n] ELSE c1[j]]
  <2>1. ASSUME NEW j \in 0 .. k - 1, e <= j, j < e + m PROVE c1[j - e + i] = c[j - n]
    <3>1. j - e + i = j - n /\ j - n \in 0 .. k - 1 /\ ~(size <= j - n)
      BY <2>1
    <3> QED BY <1>6, <3>1
  <2> QED BY <2>1 DEF CopyCells
<1> HIDE DEF c2, b
<1>11. c2 \in Cells(k) /\ \A j \in i .. i + m - 1 : c2[j] \in Values
  <2>1. \A j \in 0 .. k - 1 : c2[j] \in CellValues
    <3> TAKE j \in 0 .. k - 1
    <3>1. CASE e <= j /\ j < e + m
      <4>1. j - n \in 0 .. k - 1
        BY <3>1
      <4> QED BY <1>10, <3>1, <4>1 DEF Cells
    <3>2. CASE ~(e <= j /\ j < e + m)
      BY <1>8, <1>10, <3>2 DEF Cells
    <3> QED BY <3>1, <3>2
  <2> QED BY <1>1, <1>8, <1>10, <2>1 DEF Cells
<1>12. Runs(k, c2, d, c3)
  <2>1. "assign" \in {"construct", "assign"} /\ \A j \in i .. i + m - 1 : ("assign" = "construct") = (c2[j] \in Blank)
    BY <1>11, BlankFacts
  <2>2. i + m <= k
    OBVIOUS
  <2> HIDE DEF zs
  <2> QED BY <1>2, <1>11, <2>1, <2>2, PutValues
<1>13. c3 = Parted(k, c, i, size, n, xs)
  <2>1. ASSUME NEW j \in 0 .. k - 1
        PROVE  (IF i <= j /\ j < i + m THEN zs[j - i + 1] ELSE c2[j])
               = IF j < i THEN c[j] ELSE IF j < i + n THEN xs[j - i + 1] ELSE IF j < size + n THEN c[j - n] ELSE c[j]
    <3>1. CASE i <= j /\ j < i + m
      <4>1. j - i + 1 \in 1 .. m
        BY <3>1
      <4> QED BY <3>1, <4>1
    <3>2. CASE j < i
      BY <1>1, <1>6, <1>10, <3>2
    <3>3. CASE size <= j /\ j < e
      <4>1. ~(j < i) /\ j < i + n /\ ~(j < i + m) /\ ~(e <= j)
        BY <3>3
      <4>2. c2[j] = xs[j - i + 1]
        BY <1>6, <1>10, <3>3, <4>1
      <4> QED BY <4>1, <4>2
    <3>4. CASE e <= j /\ j < e + m
      <4>1. ~(j < i) /\ ~(j < i + n) /\ ~(j < i + m) /\ j < size + n
        BY <3>4
      <4> QED BY <1>10, <3>4, <4>1
    <3>5. CASE e + m <= j
      <4>1. ~(j < i) /\ ~(j < i + n) /\ ~(j < i + m) /\ ~(j < size + n) /\ ~(j < e)
        BY <3>5
      <4> QED BY <1>6, <1>10, <3>5, <4>1
    <3>6. (i <= j /\ j < i + m) \/ j < i \/ (size <= j /\ j < e) \/ (e <= j /\ j < e + m) \/ e + m <= j
      BY <1>1
    <3> QED BY <3>1, <3>2, <3>3, <3>4, <3>5, <3>6
  <2> QED BY <2>1 DEF PutCells, Parted
<1> HIDE DEF c3, d
<1>14. Runs(k, c, (a \o b) \o d, c3)
  <2>1. Runs(k, c, a \o b, c2)
    BY <1>7, <1>9, Then
  <2> QED BY <1>12, <2>1, Then
<1> HIDE DEF a, b, l, e, zs
<1> QED BY <1>3, <1>4, <1>5, <1>13, <1>14

LEMMA InsertRangeKeeps ==
  ASSUME NEW v, NEW s, Good(v, s), FreshBlock \in Blocks, NEW i \in Nat, i <= Len(s), NEW xs \in Seq(Values)
  PROVE  Makes(v, InsertRange(v, i, xs), Spliced(s, i, 0, xs))
<1>1. PICK data, capacity, p, z : Has(v, s, data, capacity, p, z)
  BY DEF Good
<1> DEFINE size == Len(s)
           n == Len(xs)
           m == size - i
           t == Spliced(s, i, 0, xs)
           want == Larger(GrowArraySize(capacity), size + n)
           least == size + n
           r == IF size + n >= v.m_capacity
                THEN Reserve(v, Larger(GrowArraySize(v.m_capacity), size + n)) ELSE v
           atEnd == [k \in 1 .. n |-> Construct(size + k - 1, "value", xs[k])]
           inside == ShiftBackwards(size, i, n) \o [k \in 1 .. n |-> Assign(i + k - 1, "value", xs[k])]
           over == [k \in 1 .. n - m |-> Construct(size + k - 1, "value", xs[m + k])]
                   \o [k \in 1 .. m |-> Construct(size + n - m + k - 1, "copy", i + k - 1)]
                   \o [k \in 1 .. m |-> Assign(i + k - 1, "value", xs[k])]
           steps == IF i = size THEN atEnd ELSE IF m >= n THEN inside ELSE over
<1>2. /\ v.m_data = data /\ v.m_size = size /\ v.m_capacity = capacity
      /\ size \in Nat /\ s \in Seq(Values) /\ capacity \in Nat /\ size <= capacity
      /\ n \in Nat /\ xs \in [1 .. n -> Values]
  <2>1. Reads(v, s, data, capacity, p, z)
    BY <1>1, HasFacts, Zenon
  <2>2. n \in Nat /\ xs \in [1 .. n -> Values]
    BY LenProperties
  <2> QED BY <1>1, <2>1, <2>2 DEF Reads, Has
<1>3. Splices(t, s, i, 0, xs)
  <2>1. 0 \in Nat /\ i + 0 <= Len(s)
    BY <1>2
  <2> QED BY <1>2, <2>1, SplicedFacts
<1> HIDE DEF t
<1>4. t \in Seq(Values) /\ Len(t) = size + n
  <2>1. t \in Seq(Values) /\ Len(t) = size - 0 + n
    BY <1>3 DEF Splices
  <2> QED BY <1>2, <2>1
<1>5. PICK to, room, k, y : Has(r, s, to, room, k, y) /\ to \in {data, FreshBlock} /\ size + n <= room
  <2>1. r = Reserve(v, want) \/ (r = v /\ least <= capacity)
    BY <1>2
  <2> HIDE DEF r
  <2>2. want \in Nat /\ least \in Nat /\ least <= want
    <3>1. GrowArraySize(capacity) \in Nat
      BY <1>2, Grown
    <3> QED BY <1>2, <3>1 DEF Larger
  <2> HIDE DEF want, least
  <2>3. HasRoom(r, s, data, least)
    BY <1>1, <2>1, <2>2, Roomy, Zenon
  <2> QED BY <2>3 DEF least, HasRoom
<1>6. y \in Rests /\ k \in Nat /\ room \in Nat /\ room <= k /\ size + n <= k /\ size <= k
  <2>1. y \in Rests /\ k \in Nat /\ room \in Nat /\ room <= k
    BY <1>5 DEF Has
  <2> QED BY <1>2, <1>5, <2>1
<1>7. InsertRange(v, i, xs) = WithSize(DoAll(r, steps), size + n)
  BY <1>2 DEF InsertRange
<1> DEFINE c == CellsOf(s, k, y)
<1>8. /\ c \in Cells(k) /\ \A j \in 0 .. size - 1 : c[j] \in Values
      /\ \A j \in size .. k - 1 : c[j] \in Blank
  BY <1>2, <1>6, CellsFacts
<1>9. CellsOf(t, k, y) = Parted(k, c, i, size, n, xs)
  BY <1>2, <1>3, <1>6, SplicedCells
<1> HIDE DEF c, r, size, n
<1>10. i <= size
  BY DEF size
<1>11. Runs(k, c, steps, CellsOf(t, k, y))
  <2>1. CASE i = size
    <3>1. Runs(k, c, atEnd, Parted(k, c, size, size, n, xs))
      BY <1>2, <1>6, <1>8, RangeAtEnd
    <3> QED BY <1>9, <2>1, <3>1
  <2>2. CASE i # size /\ m >= n
    <3>1. i + n <= size
      BY <1>2, <1>10, <2>2
    <3>2. Runs(k, c, inside, Parted(k, c, i, size, n, xs))
      BY <1>2, <1>6, <1>8, <3>1, RangeInside
    <3> QED BY <1>9, <2>2, <3>2
  <2>3. CASE i # size /\ ~(m >= n)
    <3>1. m \in Nat /\ i + m = size /\ m < n
      BY <1>2, <1>10, <2>3
    <3> HIDE DEF m
    <3>2. Runs(k, c, over, Parted(k, c, i, size, n, xs))
      BY <1>2, <1>6, <1>8, <3>1, RangeOver
    <3> QED BY <1>9, <2>3, <3>2
  <2> QED BY <2>1, <2>2, <2>3
<1> HIDE DEF steps
<1>12. Has(WithSize(DoAll(r, steps), Len(t)), t, to, room, k, y)
  <2>1. Len(t) <= room
    BY <1>4, <1>5
  <2> QED BY <1>4, <1>5, <1>11, <2>1, LoopMakes DEF c
<1> QED BY <1>2, <1>4, <1>5, <1>7, <1>12, MakesIt DEF t

\* Constructors put the elements into raw cells.
LEMMA NewHolds ==
  ASSUME NEW xs \in Seq(Values), NEW data \in Datas, NEW capacity \in Nat, Len(xs) <= capacity,
         NEW n \in Nat, capacity <= n, data = Inline => n = N
  PROVE  \E z : Has(DoAll(Vector(data, Len(xs), capacity, RawCells(n)),
                          [k \in DOMAIN xs |-> Construct(k - 1, "value", xs[k])]),
                    xs, data, capacity, n, z)
<1> DEFINE m == Len(xs)
           c == RawCells(n)
           z == [j \in Nat |-> Raw]
           d == CellsOf(xs, n, z)
           steps == [k \in DOMAIN xs |-> Construct(k - 1, "value", xs[k])]
<1>1. m \in Nat /\ DOMAIN xs = 1 .. m /\ xs \in [1 .. m -> Values] /\ m <= n
  BY LenProperties
<1>2. steps = PutSteps("construct", 0, m, xs)
  <2>1. \A k \in 1 .. m : 0 + k - 1 = k - 1
    BY <1>1
  <2> QED BY <1>1, <2>1 DEF PutSteps, Construct
<1>3. c \in Cells(n) /\ \A j \in 0 .. n - 1 : c[j] = Raw /\ c[j] \in Blank
  BY BlankFacts DEF RawCells, Cells, CellValues
<1>4. PutCells(n, c, 0, m, xs) = d
  <2>1. \A j \in 0 .. n - 1 : (IF 0 <= j /\ j < 0 + m THEN xs[j - 0 + 1] ELSE c[j]) = IF j < m THEN xs[j + 1] ELSE z[j]
    BY <1>1, <1>3
  <2> QED BY <2>1 DEF PutCells, CellsOf
<1>5. z \in Rests
  BY BlankFacts DEF Rests
<1> HIDE DEF c, d, steps, m, z
<1>6. Runs(n, c, PutSteps("construct", 0, m, xs), PutCells(n, c, 0, m, xs))
  <2>1. /\ "construct" \in {"construct", "assign"} /\ 0 \in Nat /\ 0 + m <= n
        /\ \A j \in 0 .. 0 + m - 1 : ("construct" = "construct") = (c[j] \in Blank)
    BY <1>1, <1>3
  <2> QED BY <1>1, <1>3, <2>1, PutValues
<1>7. DoAll(Vector(data, m, capacity, c), steps) = Vector(data, m, capacity, d)
  BY <1>2, <1>4, <1>6, AllSteps
<1>8. Has(Vector(data, m, capacity, d), xs, data, capacity, n, z)
  BY <1>5 DEF Has, m, d
<1> QED BY <1>7, <1>8 DEF c, steps, m

-----------------------------------------------------------------------------
(* The objects and their blocks.                                           *)

\* Whose block is whose: every one that is allocated is of one object.
Where(w) == [o \in Objects |-> w[o].m_data]

Owners(d, h) ==
  /\ DOMAIN d = Objects
  /\ h = {b \in Blocks : \E o \in Objects : d[o] = b}
  /\ \A o, p \in Objects : o # p /\ d[o] = d[p] => d[o] \notin Blocks

LEMMA FreshBlockIsFree ==
  ASSUME NEW d, Owners(d, heap)
  PROVE  FreshBlock \in Blocks \ heap
<1>1. \E b \in Blocks : b \notin heap
  <2> SUFFICES ASSUME \A b \in Blocks : \E o \in Objects : d[o] = b PROVE FALSE
    BY DEF Owners
  <2> DEFINE f == [b \in Blocks |-> CHOOSE o \in Objects : d[o] = b]
  <2>1. \A b \in Blocks : f[b] \in Objects /\ d[f[b]] = b
    OBVIOUS
  <2>2. f \in [Blocks -> Objects]
    BY <2>1
  <2> HIDE DEF f
  <2>3. \E b, c \in Blocks : b # c /\ f[b] = f[c]
    BY <2>2, BlocksAssumption, FS_PigeonHole
  <2> QED BY <2>1, <2>3
<1> QED BY <1>1 DEF FreshBlock

\* An object gives up its block, if it has one, for x: a fresh block, the one
\* it has, or none.
LEMMA OwnersSet ==
  ASSUME NEW d, NEW h, Owners(d, h), NEW o \in Objects, NEW x, x \notin h \/ x = d[o]
  PROVE  /\ Owners([d EXCEPT ![o] = x],
                   (h \cup ({x} \cap Blocks)) \ (({d[o]} \cap Blocks) \ ({x} \cap Blocks)))
         /\ ({d[o]} \cap Blocks) \ ({x} \cap Blocks) \subseteq h
<1> DEFINE e == [d EXCEPT ![o] = x]
           g == (h \cup ({x} \cap Blocks)) \ (({d[o]} \cap Blocks) \ ({x} \cap Blocks))
<1>1. DOMAIN e = Objects /\ \A p \in Objects : e[p] = IF p = o THEN x ELSE d[p]
  BY DEF Owners
<1> HIDE DEF e
<1>2. \A p \in Objects : p # o /\ d[p] \in Blocks => d[p] # d[o] /\ d[p] # x
  BY DEF Owners
<1>3. ASSUME NEW b \in Blocks PROVE b \in g <=> \E p \in Objects : e[p] = b
  <2>1. b \in h <=> \E p \in Objects : d[p] = b
    BY DEF Owners
  <2>2. ASSUME b \in g PROVE \E p \in Objects : e[p] = b
    BY <1>1, <2>1, <2>2
  <2>3. ASSUME NEW p \in Objects, e[p] = b PROVE b \in g
    BY <1>1, <1>2, <2>1, <2>3
  <2> QED BY <2>2, <2>3
<1>4. g \subseteq Blocks
  BY DEF Owners
<1>5. \A p, q \in Objects : p # q /\ e[p] = e[q] => e[p] \notin Blocks
  BY <1>1, <1>2 DEF Owners
<1> QED BY <1>1, <1>3, <1>4, <1>5 DEF e, Owners

\* The block of p, if it has one, becomes that of o, which has none.
LEMMA OwnersMove ==
  ASSUME NEW d, NEW h, Owners(d, h), NEW o \in Objects, NEW p \in Objects, o # p, NEW x, x \notin Blocks
  PROVE  /\ Owners([d EXCEPT ![o] = d[p], ![p] = x], h \ ({d[o]} \cap Blocks))
         /\ {d[o]} \cap Blocks \subseteq h
<1> DEFINE e == [d EXCEPT ![o] = d[p], ![p] = x]
           g == h \ ({d[o]} \cap Blocks)
<1>1. DOMAIN e = Objects /\ \A q \in Objects : e[q] = IF q = p THEN x ELSE IF q = o THEN d[p] ELSE d[q]
  BY DEF Owners
<1> HIDE DEF e
<1>2. \A q \in Objects : q # o /\ d[q] \in Blocks => d[q] # d[o]
  BY DEF Owners
<1>3. ASSUME NEW b \in Blocks PROVE b \in g <=> \E q \in Objects : e[q] = b
  <2>1. b \in h <=> \E q \in Objects : d[q] = b
    BY DEF Owners
  <2>2. ASSUME b \in g PROVE \E q \in Objects : e[q] = b
    <3>1. PICK q \in Objects : d[q] = b /\ q # o
      BY <2>1, <2>2
    <3>2. CASE q = p
      BY <1>1, <3>1, <3>2
    <3>3. CASE q # p
      BY <1>1, <3>1, <3>3
    <3> QED BY <3>2, <3>3
  <2>3. ASSUME NEW q \in Objects, e[q] = b PROVE b \in g
    <3>1. q # p
      BY <1>1, <2>3
    <3>2. CASE q = o
      BY <1>1, <1>2, <2>1, <2>3, <3>1, <3>2
    <3>3. CASE q # o
      BY <1>1, <1>2, <2>1, <2>3, <3>1, <3>3
    <3> QED BY <3>2, <3>3
  <2> QED BY <2>2, <2>3
<1>4. g \subseteq Blocks
  BY DEF Owners
<1>5. \A q, r \in Objects : q # r /\ e[q] = e[r] => e[q] \notin Blocks
  BY <1>1, <1>2 DEF Owners
<1> QED BY <1>1, <1>3, <1>4, <1>5 DEF e, Owners

AllGood(w, e) == \A o \in Objects : w[o].m_data # Gone => Good(w[o], e[o])

\* What may be in m_initial_data while the elements are elsewhere.
InlineCells == [0 .. N - 1 -> Blank]
Inlines == [Objects -> InlineCells]

\* The inductive invariant: every object that exists holds its sequence, in
\* order and with no other element behind it, and the blocks that are
\* allocated are those of the objects, each of one.
VectorsInv ==
  /\ DOMAIN vec = Objects /\ DOMAIN elements = Objects
  /\ AllGood(vec, elements)
  /\ inline \in Inlines
  /\ Owners(Where(vec), heap)
  /\ ruined = FALSE

LEMMA WhereSet ==
  ASSUME DOMAIN vec = Objects, NEW o \in Objects, NEW v
  PROVE  /\ Where([vec EXCEPT ![o] = v]) = [Where(vec) EXCEPT ![o] = v.m_data]
         /\ Where(vec)[o] = vec[o].m_data /\ DOMAIN [vec EXCEPT ![o] = v] = Objects
         /\ \A p \in Objects : [vec EXCEPT ![o] = v][p] = IF p = o THEN v ELSE vec[p]
<1> DEFINE w == [vec EXCEPT ![o] = v]
<1>1. DOMAIN w = Objects /\ \A p \in Objects : w[p] = IF p = o THEN v ELSE vec[p]
  OBVIOUS
<1> HIDE DEF w
<1>2. Where(w) = [Where(vec) EXCEPT ![o] = v.m_data]
  BY <1>1 DEF Where
<1> QED BY <1>1, <1>2 DEF w, Where

LEMMA GoodIsThere ==
  ASSUME NEW v, NEW s, Good(v, s)
  PROVE  s \in Seq(Values) /\ v.m_data \in Datas /\ v.m_data # Gone
<1>1. PICK data, capacity, n, z : Has(v, s, data, capacity, n, z)
  BY DEF Good
<1>2. Reads(v, s, data, capacity, n, z)
  BY <1>1, HasFacts, Zenon
<1> QED BY <1>1, <1>2, VectorsAssumption DEF Reads, Has, Datas

\* What is in an object itself when the elements are gone, or were moved out.
LEMMA InsideFacts ==
  ASSUME NEW v, NEW s, Good(v, s), v.m_data = Inline
  PROVE  /\ [i \in 0 .. N - 1 |-> IF i < v.m_size THEN Raw ELSE v.cells[i]] \in InlineCells
         /\ LeftInline(v) \in InlineCells
<1>1. PICK data, capacity, n, z : Has(v, s, data, capacity, n, z)
  BY DEF Good
<1>2. Reads(v, s, data, capacity, n, z)
  BY <1>1, HasFacts, Zenon
<1>3. n = N /\ N \in Nat /\ v.m_size = Len(s) /\ Len(s) \in Nat /\ \A j \in Len(s) .. n - 1 : v.cells[j] \in Blank
  BY <1>1, <1>2, VectorsAssumption DEF Reads, Has
<1>4. \A j \in 0 .. N - 1 : ~(j < v.m_size) => v.cells[j] \in Blank
  BY <1>3
<1> QED BY <1>4, BlankFacts DEF InlineCells, LeftInline

LEMMA VacatedFacts ==
  ASSUME VectorsInv, NEW o \in Objects
  PROVE  Vacated(o) \in InlineCells
<1>1. CASE vec[o].m_data = Inline
  <2>1. Good(vec[o], elements[o])
    BY <1>1, VectorsAssumption DEF VectorsInv, AllGood
  <2>2. [i \in 0 .. N - 1 |-> IF i < vec[o].m_size THEN Raw ELSE vec[o].cells[i]] \in InlineCells
    BY <1>1, <2>1, InsideFacts
  <2> QED BY <1>1, <2>2 DEF Vacated
<1>2. CASE vec[o].m_data # Inline
  BY <1>2 DEF Vacated, VectorsInv, Inlines
<1> QED BY <1>1, <1>2

LEMMA RawInline == RawCells(N) \in InlineCells
BY BlankFacts DEF RawCells, InlineCells

\* An object without elements, in which no cell is alive.
LEMMA EmptiedHolds ==
  ASSUME VectorsInv, NEW o \in Objects
  PROVE  Good(Emptied(o), <<>>) /\ Emptied(o).m_data \in {Null, Inline}
<1> DEFINE data == IF stack THEN Inline ELSE Null
           n == IF stack THEN N ELSE 0
           cells == IF stack THEN Vacated(o) ELSE RawCells(0)
           z == [j \in Nat |-> IF j \in 0 .. n - 1 THEN cells[j] ELSE Raw]
           s == <<>>
<1>1. data \in Datas /\ n \in Nat /\ (data = Inline => n = N) /\ data \in {Null, Inline}
  BY VectorsAssumption DEF Datas
<1>2. s \in Seq(Values) /\ Len(s) = 0
  OBVIOUS
<1> HIDE DEF s
<1>3. cells \in [0 .. n - 1 -> Blank]
  <2>1. CASE stack
    BY <2>1, VacatedFacts DEF InlineCells
  <2>2. CASE ~stack
    BY <2>2 DEF RawCells
  <2> QED BY <2>1, <2>2
<1>4. Emptied(o) = Vector(data, Len(s), n, cells)
  BY <1>2 DEF Emptied, Vector
<1> HIDE DEF data, n, cells
<1>5. z \in Rests /\ \A j \in 0 .. n - 1 : z[j] = cells[j]
  BY <1>1, <1>3, BlankFacts DEF Rests
<1> HIDE DEF z
<1>6. cells = CellsOf(s, n, z)
  BY <1>1, <1>2, <1>3, <1>5 DEF CellsOf
<1>7. Has(Emptied(o), s, data, n, n, z)
  BY <1>1, <1>2, <1>4, <1>5, <1>6 DEF Has
<1>8. Reads(Emptied(o), s, data, n, n, z)
  BY <1>7, HasFacts, Zenon
<1>9. Emptied(o).m_data = data
  BY <1>8 DEF Reads
<1> QED BY <1>1, <1>7, <1>9 DEF Good, s

LEMMA TakenKeeps ==
  ASSUME VectorsInv, NEW o \in Objects, NEW p \in Objects, Good(vec[p], elements[p])
  PROVE  Good(Taken(o, p), elements[p]) /\ Taken(o, p).m_data = vec[p].m_data
<1> DEFINE v == vec[p]
           s == elements[p]
           cells == Vacated(o)
<1>1. PICK data, capacity, n, z : Has(v, s, data, capacity, n, z)
  BY DEF Good
<1>2. Reads(v, s, data, capacity, n, z)
  BY <1>1, HasFacts, Zenon
<1>3. v.m_data = data /\ v.m_capacity = capacity /\ capacity \in Nat /\ Len(s) \in Nat /\ Len(s) <= capacity
      /\ (data = Inline => capacity <= N)
  BY <1>1, <1>2 DEF Reads, Has
<1>4. cells \in [0 .. N - 1 -> Blank]
  BY VacatedFacts DEF InlineCells
<1>5. CASE v.m_data = Inline
  <2>1. Inline \in Datas /\ N \in Nat /\ capacity <= N
    BY <1>3, <1>5, VectorsAssumption DEF Datas
  <2>2. Taken(o, p) = MovedTo(v, Inline, capacity, cells)
    BY <1>3, <1>5 DEF Taken
  <2> HIDE DEF v, s, cells
  <2>3. PICK y \in Rests : Has(MovedTo(v, Inline, capacity, cells), s, Inline, capacity, N, y)
    BY <1>1, <1>3, <1>4, <2>1, MovedThere
  <2>4. Reads(Taken(o, p), s, Inline, capacity, N, y)
    BY <2>2, <2>3, HasFacts
  <2>5. Taken(o, p).m_data = Inline
    BY <2>4 DEF Reads
  <2> QED BY <1>5, <2>2, <2>3, <2>5 DEF Good, v, s
<1>6. CASE v.m_data # Inline
  BY <1>6 DEF Taken
<1> QED BY <1>5, <1>6

\* One object changes, and what it gives up is freed.
LEMMA ObjectKeeps ==
  ASSUME VectorsInv, NEW o \in Objects, NEW v, NEW s, v.m_data = Gone \/ Good(v, s),
         v.m_data \in {vec[o].m_data, FreshBlock, Null, Inline, Gone},
         vec' = [vec EXCEPT ![o] = v], elements' = [elements EXCEPT ![o] = s],
         heap' = (heap \cup BlockOf(v)) \ (BlockOf(vec[o]) \ BlockOf(v)),
         inline' \in Inlines,
         ruined' = FALSE \/ ruined' = ~ (BlockOf(vec[o]) \ BlockOf(v) \subseteq heap)
  PROVE  VectorsInv'
<1> DEFINE x == v.m_data
           d == Where(vec)
<1>1. DOMAIN vec = Objects /\ DOMAIN elements = Objects /\ AllGood(vec, elements) /\ Owners(d, heap)
  BY DEF VectorsInv
<1>2. /\ Where(vec') = [d EXCEPT ![o] = x] /\ d[o] = vec[o].m_data /\ DOMAIN vec' = Objects
      /\ \A p \in Objects : vec'[p] = IF p = o THEN v ELSE vec[p]
  BY <1>1, WhereSet
<1>3. DOMAIN elements' = Objects /\ \A p \in Objects : elements'[p] = IF p = o THEN s ELSE elements[p]
  BY <1>1
<1>4. BlockOf(v) = {x} \cap Blocks /\ BlockOf(vec[o]) = {d[o]} \cap Blocks
  BY <1>2 DEF BlockOf
<1>5. x \notin heap \/ x = d[o]
  <2>1. FreshBlock \notin heap /\ heap \subseteq Blocks
    BY <1>1, FreshBlockIsFree DEF Owners
  <2> QED BY <1>2, <2>1, VectorsAssumption
<1> HIDE DEF x, d
<1>6. /\ Owners([d EXCEPT ![o] = x], (heap \cup ({x} \cap Blocks)) \ (({d[o]} \cap Blocks) \ ({x} \cap Blocks)))
      /\ ({d[o]} \cap Blocks) \ ({x} \cap Blocks) \subseteq heap
  BY <1>1, <1>5, OwnersSet
<1>7. Owners(Where(vec'), heap') /\ ruined' = FALSE
  BY <1>2, <1>4, <1>6
<1>8. AllGood(vec', elements')
  BY <1>1, <1>2, <1>3 DEF AllGood
<1> QED BY <1>2, <1>3, <1>7, <1>8 DEF VectorsInv

LEMMA BecomesKeeps ==
  ASSUME VectorsInv, NEW o \in Objects, NEW v, NEW s, Makes(vec[o], v, s), Becomes(o, v, s)
  PROVE  VectorsInv'
<1>1. Good(v, s) /\ v.m_data \in {vec[o].m_data, FreshBlock, Null, Inline, Gone}
  BY DEF Makes
<1>2. ruined = FALSE
  BY DEF VectorsInv
<1>3. /\ vec' = [vec EXCEPT ![o] = v] /\ elements' = [elements EXCEPT ![o] = s]
      /\ heap' = (heap \cup BlockOf(v)) \ (BlockOf(vec[o]) \ BlockOf(v))
      /\ ruined' = ~ (BlockOf(vec[o]) \ BlockOf(v) \subseteq heap)
  BY <1>2 DEF Becomes, Account
<1>4. inline' \in Inlines
  <2>1. vec[o].m_data = Inline => LeftInline(vec[o]) \in InlineCells
    BY InsideFacts, VectorsAssumption DEF VectorsInv, AllGood
  <2> QED BY <2>1 DEF Becomes, VectorsInv, Inlines
<1> QED BY <1>1, <1>3, <1>4, ObjectKeeps

LEMMA NewKeeps ==
  ASSUME VectorsInv, NEW o \in Objects, NEW xs \in Seq(Values), NEW capacity \in Nat, Len(xs) <= capacity,
         NEW data \in {Null, Inline, FreshBlock}, data = Inline => capacity <= N,
         New(o, xs, capacity, data)
  PROVE  VectorsInv'
<1> DEFINE n == IF data = Inline THEN N ELSE capacity
           u == [m_data |-> data, m_size |-> Len(xs), m_capacity |-> capacity, cells |-> RawCells(n), ok |-> TRUE]
           steps == [k \in DOMAIN xs |-> Construct(k - 1, "value", xs[k])]
           v == DoAll(u, steps)
<1>1. n \in Nat /\ capacity <= n /\ (data = Inline => n = N)
  BY VectorsAssumption
<1>2. data \in Datas
  <2>1. FreshBlock \in Blocks
    BY FreshBlockIsFree DEF VectorsInv
  <2> QED BY <2>1 DEF Datas
<1>3. /\ vec' = [vec EXCEPT ![o] = v] /\ elements' = [elements EXCEPT ![o] = xs]
      /\ heap' = (heap \cup ({data} \cap Blocks)) \ {} /\ ruined' = (ruined \/ ~ ({} \subseteq heap))
      /\ vec[o].m_data = Gone /\ inline' = inline
  BY Zenon DEF New, Account, Exists
<1>4. u = Vector(data, Len(xs), capacity, RawCells(n))
  BY DEF Vector
<1> HIDE DEF n, u
<1>5. PICK z : Has(v, xs, data, capacity, n, z)
  BY <1>1, <1>2, <1>4, NewHolds
<1> HIDE DEF v
<1>6. Reads(v, xs, data, capacity, n, z)
  BY <1>5, HasFacts, Zenon
<1>7. v.m_data = data /\ Good(v, xs)
  BY <1>5, <1>6 DEF Reads, Good
<1>8. /\ heap' = (heap \cup BlockOf(v)) \ (BlockOf(vec[o]) \ BlockOf(v))
      /\ ruined' = FALSE
  <2>1. BlockOf(v) = {data} \cap Blocks /\ BlockOf(vec[o]) = {}
    BY <1>3, <1>7, VectorsAssumption DEF BlockOf
  <2>2. ruined = FALSE
    BY DEF VectorsInv
  <2> QED BY <1>3, <2>1, <2>2
<1>9. inline' \in Inlines
  BY <1>3 DEF VectorsInv
<1> QED BY <1>3, <1>7, <1>8, <1>9, ObjectKeeps

LEMMA DisposeFacts ==
  ASSUME NEW o \in Objects, NEW s, Good(vec[o], s), BlockOf(vec[o]) \subseteq heap, ruined = FALSE, Dispose(o)
  PROVE  heap' = heap \ BlockOf(vec[o]) /\ ruined' = FALSE
<1>1. PICK data, capacity, n, z : Has(vec[o], s, data, capacity, n, z)
  BY DEF Good
<1>2. Reads(vec[o], s, data, capacity, n, z)
  BY <1>1, HasFacts, Zenon
<1> DEFINE size == Len(s)
           c == CellsOf(s, n, z)
           d == Wiped(n, c, 0, size)
           v == Destruct(vec[o], 0, size)
<1>3. /\ n \in Nat /\ size \in Nat /\ size <= n /\ c \in Cells(n)
      /\ vec[o] = Vector(data, size, capacity, c) /\ vec[o].m_data = data /\ vec[o].m_size = size
      /\ \A j \in 0 .. n - 1 : (c[j] \in Blank) = (j >= size)
  BY <1>1, <1>2 DEF Has, Reads
<1>4. Alive(c, 0, size)
  BY <1>3 DEF Alive
<1>5. \A i \in DOMAIN d : d[i] \in Blank
  BY <1>3, BlankFacts DEF Wiped
<1> HIDE DEF c, d, size
<1>6. v = Vector(data, size, capacity, d)
  <2>1. 0 \in Nat /\ 0 + size <= n
    BY <1>3
  <2>2. Destruct(Vector(data, size, capacity, c), 0, size) = Vector(data, size, capacity, Wiped(n, c, 0, size))
    BY <1>3, <1>4, <2>1, Destructed
  <2> QED BY <1>3, <2>2, Zenon DEF d
<1> HIDE DEF v
<1>7. v.ok = TRUE /\ v.cells = d /\ v.m_data = data
  BY <1>6 DEF Vector
<1>8. /\ heap' = heap \ BlockOf(v)
      /\ ruined' = (ruined \/ ~v.ok \/ ~ (BlockOf(v) \subseteq heap) \/ \E i \in DOMAIN v.cells : v.cells[i] \notin Blank)
  BY <1>3, Zenon DEF Dispose, v
<1>9. BlockOf(v) = BlockOf(vec[o])
  BY <1>3, <1>7 DEF BlockOf
<1> QED BY <1>5, <1>7, <1>8, <1>9

LEMMA DataForFacts ==
  ASSUME NEW n \in Nat
  PROVE  DataFor(n) \in {Null, Inline, FreshBlock} /\ (DataFor(n) = Inline /\ Inline # FreshBlock => stack /\ n <= N)
BY DEF DataFor

LEMMA CreateKeeps ==
  ASSUME VectorsInv, NEW o \in Objects, Create(o)
  PROVE  VectorsInv'
<1>1. FreshBlock \in Blocks /\ FreshBlock # Inline
  <2>1. FreshBlock \in Blocks
    BY FreshBlockIsFree DEF VectorsInv
  <2> QED BY <2>1, VectorsAssumption
<1>2. ASSUME NewDefault(o) PROVE VectorsInv'
  <2> DEFINE xs == <<>>
             data == IF stack THEN Inline ELSE Null
             capacity == IF stack THEN N ELSE 0
  <2>1. /\ xs \in Seq(Values) /\ capacity \in Nat /\ Len(xs) <= capacity /\ data \in {Null, Inline, FreshBlock}
        /\ (data = Inline => capacity <= N)
    BY VectorsAssumption
  <2>2. New(o, xs, capacity, data)
    BY <1>2 DEF NewDefault
  <2> HIDE DEF xs, data, capacity
  <2> QED BY <2>1, <2>2, NewKeeps
<1>3. ASSUME NEW n \in 0 .. Room, NewSized(o, n) PROVE VectorsInv'
  <2> DEFINE xs == [k \in 1 .. n |-> Default]
             data == DataFor(n)
             capacity == IF stack THEN Larger(N, n) ELSE n
  <2>1. n \in Nat
    BY <1>3
  <2>2. capacity \in Nat /\ n <= capacity /\ (stack /\ n <= N => capacity <= N)
    BY <2>1, VectorsAssumption DEF Larger
  <2>3. xs \in Seq(Values) /\ Len(xs) = n
    <3>1. xs \in [1 .. n -> Values]
      BY VectorsAssumption
    <3> HIDE DEF xs
    <3> QED BY <2>1, <3>1, FunctionIsSequence
  <2>4. data \in {Null, Inline, FreshBlock} /\ (data = Inline => stack /\ n <= N)
    BY <1>1, <2>1, DataForFacts
  <2>5. New(o, xs, capacity, data)
    BY <1>3 DEF NewSized
  <2> HIDE DEF xs, data, capacity
  <2>6. Len(xs) <= capacity /\ (data = Inline => capacity <= N)
    BY <2>2, <2>3, <2>4
  <2> QED BY <2>2, <2>3, <2>4, <2>5, <2>6, NewKeeps
<1>4. ASSUME NEW xs \in Seq(Values), NewOf(o, xs) PROVE VectorsInv'
  <2> DEFINE n == Len(xs)
             data == DataFor(n)
  <2>1. n \in Nat
    BY LenProperties
  <2>2. New(o, xs, n, data)
    BY <1>4 DEF NewOf
  <2> HIDE DEF n
  <2>3. data \in {Null, Inline, FreshBlock} /\ (data = Inline => stack /\ n <= N)
    BY <1>1, <2>1, DataForFacts
  <2> HIDE DEF data
  <2>4. Len(xs) <= n /\ (data = Inline => n <= N)
    BY <2>1, <2>3 DEF n
  <2> QED BY <2>1, <2>2, <2>3, <2>4, NewKeeps
<1>5. \A xs \in Lists : xs \in Seq(Values)
  BY FunctionIsSequence DEF Lists
<1> QED BY <1>2, <1>3, <1>4, <1>5 DEF Create

LEMMA ThereAndGood ==
  ASSUME VectorsInv, NEW o \in Objects, Exists(o)
  PROVE  /\ Good(vec[o], elements[o]) /\ elements[o] \in Seq(Values) /\ Len(elements[o]) \in Nat
         /\ BlockOf(vec[o]) \subseteq heap /\ FreshBlock \in Blocks
<1>1. Good(vec[o], elements[o])
  BY DEF VectorsInv, AllGood, Exists
<1>2. elements[o] \in Seq(Values) /\ Len(elements[o]) \in Nat
  BY <1>1, GoodIsThere, LenProperties
<1>3. BlockOf(vec[o]) \subseteq heap
  BY DEF VectorsInv, Owners, Where, BlockOf
<1>4. FreshBlock \in Blocks
  BY FreshBlockIsFree DEF VectorsInv
<1> QED BY <1>1, <1>2, <1>3, <1>4

LEMMA LengthenKeeps ==
  ASSUME VectorsInv, NEW o \in Objects, Lengthen(o)
  PROVE  VectorsInv'
<1> DEFINE v == vec[o]
           s == elements[o]
           size == Len(s)
<1>1. /\ Good(v, s) /\ s \in Seq(Values) /\ size \in Nat /\ FreshBlock \in Blocks
  BY ThereAndGood DEF Lengthen
<1>2. ASSUME NEW n \in 0 .. size + Room, Becomes(o, Reserve(v, n), s) PROVE VectorsInv'
  <2>1. n \in Nat
    BY <1>2
  <2>2. Makes(v, Reserve(v, n), s)
    BY <1>1, <2>1, ReserveKeeps
  <2> QED BY <1>2, <2>2, BecomesKeeps
<1>3. ASSUME NEW x \in Values, Becomes(o, EmplaceBack(v, x), Append(s, x)) PROVE VectorsInv'
  <2>1. Makes(v, EmplaceBack(v, x), Append(s, x))
    BY <1>1, EmplaceBackKeeps
  <2> QED BY <1>3, <2>1, BecomesKeeps
<1>4. ASSUME NEW x \in Values, NEW i \in 0 .. size, Becomes(o, Insert(v, i, x), Spliced(s, i, 0, <<x>>))
      PROVE  VectorsInv'
  <2>1. i \in Nat /\ i <= Len(s)
    BY <1>1
  <2>2. Makes(v, Insert(v, i, x), Spliced(s, i, 0, <<x>>))
    BY <1>1, <2>1, InsertKeeps
  <2> QED BY <1>4, <2>2, BecomesKeeps
<1>5. ASSUME NEW i \in 0 .. size, NEW xs \in Lists, Becomes(o, InsertRange(v, i, xs), Spliced(s, i, 0, xs))
      PROVE  VectorsInv'
  <2>1. i \in Nat /\ i <= Len(s) /\ xs \in Seq(Values)
    BY <1>1, FunctionIsSequence DEF Lists
  <2>2. Makes(v, InsertRange(v, i, xs), Spliced(s, i, 0, xs))
    BY <1>1, <2>1, InsertRangeKeeps
  <2> QED BY <1>5, <2>2, BecomesKeeps
<1>6. ASSUME NEW n \in 0 .. size + Room, NEW x \in Values,
             Becomes(o, Resize(v, n, x), [k \in 1 .. n |-> IF k <= size THEN s[k] ELSE x])
      PROVE  VectorsInv'
  <2>1. n \in Nat
    BY <1>6
  <2>2. Makes(v, Resize(v, n, x), [k \in 1 .. n |-> IF k <= size THEN s[k] ELSE x])
    BY <1>1, <2>1, ResizeKeeps
  <2> QED BY <1>6, <2>2, BecomesKeeps
<1> QED BY <1>2, <1>3, <1>4, <1>5, <1>6, Zenon DEF Lengthen

LEMMA ShortenKeeps ==
  ASSUME VectorsInv, NEW o \in Objects, Shorten(o)
  PROVE  VectorsInv'
<1> DEFINE v == vec[o]
           s == elements[o]
           size == Len(s)
<1>1. /\ Good(v, s) /\ s \in Seq(Values) /\ size \in Nat /\ FreshBlock \in Blocks
  BY ThereAndGood DEF Shorten
<1>2. ASSUME Becomes(o, Clear(v), <<>>) PROVE VectorsInv'
  <2>1. Makes(v, Clear(v), <<>>)
    BY <1>1, ClearKeeps
  <2> QED BY <1>2, <2>1, BecomesKeeps
<1>3. ASSUME size > 0, Becomes(o, PopBack(v), SubSeq(s, 1, size - 1)) PROVE VectorsInv'
  <2>1. Makes(v, PopBack(v), SubSeq(s, 1, size - 1))
    BY <1>1, <1>3, PopBackKeeps
  <2> QED BY <1>3, <2>1, BecomesKeeps
<1>4. ASSUME NEW i \in 0 .. size - 1, Becomes(o, Erase(v, i), Spliced(s, i, 1, <<>>)) PROVE VectorsInv'
  <2>1. i \in Nat /\ i < Len(s)
    BY <1>1
  <2>2. Makes(v, Erase(v, i), Spliced(s, i, 1, <<>>))
    BY <1>1, <2>1, EraseKeeps
  <2> QED BY <1>4, <2>2, BecomesKeeps
<1>5. ASSUME NEW i \in 0 .. size - 1,
             Becomes(o, SwapErase(v, i), SubSeq([s EXCEPT ![i + 1] = s[size]], 1, size - 1))
      PROVE  VectorsInv'
  <2>1. i \in Nat /\ i < Len(s)
    BY <1>1
  <2>2. Makes(v, SwapErase(v, i), SubSeq([s EXCEPT ![i + 1] = s[size]], 1, size - 1))
    BY <1>1, <2>1, SwapEraseKeeps
  <2> QED BY <1>5, <2>2, BecomesKeeps
<1>6. ASSUME NEW i \in 0 .. size - 1, NEW n \in 0 .. size - i, Becomes(o, EraseMany(v, i, n), Spliced(s, i, n, <<>>))
      PROVE  VectorsInv'
  <2>1. i \in Nat /\ n \in Nat /\ i + n <= Len(s)
    BY <1>1
  <2>2. Makes(v, EraseMany(v, i, n), Spliced(s, i, n, <<>>))
    BY <1>1, <2>1, EraseManyKeeps
  <2> QED BY <1>6, <2>2, BecomesKeeps
<1> QED BY <1>2, <1>3, <1>4, <1>5, <1>6, Zenon DEF Shorten

LEMMA DeleteKeeps ==
  ASSUME VectorsInv, NEW o \in Objects, Delete(o)
  PROVE  VectorsInv'
<1>1. Exists(o) /\ Dispose(o) /\ vec' = [vec EXCEPT ![o] = NoObject] /\ elements' = [elements EXCEPT ![o] = <<>>]
      /\ inline' \in Inlines
  BY RawInline DEF Delete, VectorsInv, Inlines
<1>2. Good(vec[o], elements[o]) /\ BlockOf(vec[o]) \subseteq heap /\ ruined = FALSE
  BY <1>1, ThereAndGood DEF VectorsInv
<1>3. heap' = heap \ BlockOf(vec[o]) /\ ruined' = FALSE
  BY <1>1, <1>2, DisposeFacts
<1>4. NoObject.m_data = Gone /\ BlockOf(NoObject) = {}
  BY VectorsAssumption DEF NoObject, BlockOf
<1>5. heap' = (heap \cup BlockOf(NoObject)) \ (BlockOf(vec[o]) \ BlockOf(NoObject))
  BY <1>3, <1>4
<1> DEFINE v == NoObject
           s == <<>>
<1> HIDE DEF v, s
<1>6. /\ v.m_data = Gone \/ Good(v, s)
      /\ v.m_data \in {vec[o].m_data, FreshBlock, Null, Inline, Gone}
      /\ vec' = [vec EXCEPT ![o] = v] /\ elements' = [elements EXCEPT ![o] = s]
      /\ heap' = (heap \cup BlockOf(v)) \ (BlockOf(vec[o]) \ BlockOf(v))
      /\ ruined' = FALSE
  BY <1>1, <1>3, <1>4, <1>5 DEF v, s
<1> QED BY <1>1, <1>6, ObjectKeeps

\* What moves and assignments leave: o has what p had, and p nothing.
LEMMA TakenFrom ==
  ASSUME VectorsInv, NEW o \in Objects, NEW p \in Objects, o # p, Exists(p),
         Takes(o, p),
         heap' = heap \ BlockOf(vec[o]), ruined' = FALSE
  PROVE  VectorsInv'
<1> DEFINE d == Where(vec)
           x == Emptied(p).m_data
<1>1. DOMAIN vec = Objects /\ DOMAIN elements = Objects /\ AllGood(vec, elements) /\ Owners(d, heap)
  BY DEF VectorsInv
<1>2. Good(Taken(o, p), elements[p]) /\ Taken(o, p).m_data = vec[p].m_data
  BY ThereAndGood, TakenKeeps
<1>3. Good(Emptied(p), <<>>) /\ x \notin Blocks
  BY EmptiedHolds, VectorsAssumption
<1>4. /\ DOMAIN vec' = Objects
      /\ \A q \in Objects : vec'[q] = IF q = p THEN Emptied(p) ELSE IF q = o THEN Taken(o, p) ELSE vec[q]
  BY <1>1 DEF Takes
<1>5. /\ DOMAIN elements' = Objects
      /\ \A q \in Objects : elements'[q] = IF q = p THEN <<>> ELSE IF q = o THEN elements[p] ELSE elements[q]
  BY <1>1 DEF Takes
<1>6. AllGood(vec', elements')
  BY <1>1, <1>2, <1>3, <1>4, <1>5 DEF AllGood
<1>7. Where(vec') = [d EXCEPT ![o] = d[p], ![p] = x]
  <2>1. \A q \in Objects : vec'[q].m_data = IF q = p THEN x ELSE IF q = o THEN vec[p].m_data ELSE vec[q].m_data
    BY <1>2, <1>4
  <2> HIDE DEF x
  <2> QED BY <2>1 DEF Where
<1>8. BlockOf(vec[o]) = {d[o]} \cap Blocks
  BY DEF BlockOf, Where
<1> HIDE DEF d, x
<1>9. Owners([d EXCEPT ![o] = d[p], ![p] = x], heap \ ({d[o]} \cap Blocks))
  BY <1>1, <1>3, OwnersMove
<1>10. Owners(Where(vec'), heap')
  BY <1>7, <1>8, <1>9
<1>11. inline' \in Inlines
  BY RawInline, VacatedFacts DEF Takes, VectorsInv, Inlines
<1> QED BY <1>4, <1>5, <1>6, <1>10, <1>11 DEF VectorsInv

LEMMA MoveKeeps ==
  ASSUME VectorsInv, NEW o \in Objects, NEW p \in Objects, Move(o, p)
  PROVE  VectorsInv'
<1>1. /\ o # p /\ Exists(p) /\ vec[o].m_data = Gone
      /\ Takes(o, p) /\ heap' = heap /\ ruined' = ruined
  BY DEF Move, Exists
<1>2. BlockOf(vec[o]) = {}
  BY <1>1, VectorsAssumption DEF BlockOf
<1>3. heap' = heap \ BlockOf(vec[o]) /\ ruined' = FALSE
  BY <1>1, <1>2 DEF VectorsInv
<1> QED BY <1>1, <1>3, TakenFrom

LEMMA AssignFromKeeps ==
  ASSUME VectorsInv, NEW o \in Objects, NEW p \in Objects, AssignFrom(o, p)
  PROVE  VectorsInv'
<1>1. CASE o = p
  <2>1. UNCHANGED vars
    BY <1>1 DEF AssignFrom
  <2> QED BY <2>1 DEF vars, VectorsInv, AllGood, Where, Owners
<1>2. CASE o # p
  <2>1. Exists(o) /\ Exists(p) /\ Dispose(o) /\ Takes(o, p)
    BY <1>2 DEF AssignFrom
  <2>2. Good(vec[o], elements[o]) /\ BlockOf(vec[o]) \subseteq heap /\ ruined = FALSE
    BY <2>1, ThereAndGood DEF VectorsInv
  <2>3. heap' = heap \ BlockOf(vec[o]) /\ ruined' = FALSE
    BY <2>1, <2>2, DisposeFacts
  <2> QED BY <1>2, <2>1, <2>3, TakenFrom
<1> QED BY <1>1, <1>2

-----------------------------------------------------------------------------
LEMMA InitKeeps == Init => VectorsInv
<1> SUFFICES ASSUME Init PROVE VectorsInv
  OBVIOUS
<1>1. \A o \in Objects : vec[o].m_data = Gone
  BY DEF Init, NoObject
<1>2. DOMAIN vec = Objects /\ DOMAIN elements = Objects /\ heap = {} /\ ruined = FALSE /\ inline \in Inlines
  BY RawInline DEF Init, Inlines
<1>3. AllGood(vec, elements)
  BY <1>1 DEF AllGood
<1>4. Owners(Where(vec), heap)
  BY <1>1, <1>2, VectorsAssumption DEF Owners, Where
<1> QED BY <1>2, <1>3, <1>4 DEF VectorsInv

LEMMA NextKeeps == VectorsInv /\ [Next]_vars => VectorsInv'
<1> SUFFICES ASSUME VectorsInv, [Next]_vars PROVE VectorsInv'
  OBVIOUS
<1>1. CASE Next
  <2>1. PICK o \in Objects :
          \/ Create(o) \/ Lengthen(o) \/ Shorten(o) \/ Delete(o)
          \/ \E p \in Objects : Move(o, p) \/ AssignFrom(o, p)
    BY <1>1, Zenon DEF Next
  <2>2. CASE Create(o)
    BY <2>2, CreateKeeps
  <2>3. CASE Lengthen(o)
    BY <2>3, LengthenKeeps
  <2>4. CASE Shorten(o)
    BY <2>4, ShortenKeeps
  <2>5. CASE Delete(o)
    BY <2>5, DeleteKeeps
  <2>6. CASE \E p \in Objects : Move(o, p) \/ AssignFrom(o, p)
    BY <2>6, MoveKeeps, AssignFromKeeps
  <2> QED BY <2>1, <2>2, <2>3, <2>4, <2>5, <2>6, Zenon
<1>2. CASE UNCHANGED vars
  BY <1>2 DEF vars, VectorsInv, AllGood, Where, Owners
<1> QED BY <1>1, <1>2

LEMMA VectorsInvHolds == Spec => []VectorsInv
BY InitKeeps, NextKeeps, PTL DEF Spec

\* Whatever is inserted, erased, resized, moved and assigned, and however the
\* vectors grow: each holds the elements it stands for, in their order
\* (ix_Vector.hpp, ix_StackVector.hpp, ix_Vector_util.hpp).
THEOREM SequenceTheorem == Spec => []HoldsTheSequence
<1>1. VectorsInv => HoldsTheSequence
  <2> SUFFICES ASSUME VectorsInv, NEW o \in Objects, Exists(o)
               PROVE  /\ vec[o].m_size = Len(elements[o])
                      /\ \A k \in DOMAIN elements[o] :
                           k - 1 \in DOMAIN vec[o].cells /\ vec[o].cells[k - 1] = elements[o][k]
    BY DEF HoldsTheSequence
  <2> DEFINE v == vec[o]
             s == elements[o]
  <2>1. Good(v, s) /\ s \in Seq(Values)
    BY ThereAndGood
  <2> HIDE DEF v, s
  <2>2. PICK data, capacity, n, z : Has(v, s, data, capacity, n, z)
    BY <2>1 DEF Good
  <2>3. Reads(v, s, data, capacity, n, z) /\ Len(s) <= n /\ n \in Nat /\ DOMAIN s = 1 .. Len(s) /\ Len(s) \in Nat
    BY <2>1, <2>2, HasFacts, LenProperties DEF Has
  <2>4. /\ v.m_size = Len(s) /\ DOMAIN v.cells = 0 .. n - 1
        /\ \A j \in 0 .. Len(s) - 1 : v.cells[j] = s[j + 1]
    BY <2>3 DEF Reads
  <2>5. ASSUME NEW k \in DOMAIN s PROVE k - 1 \in DOMAIN v.cells /\ v.cells[k - 1] = s[k]
    <3>1. k - 1 \in 0 .. Len(s) - 1 /\ (k - 1) + 1 = k /\ k - 1 \in 0 .. n - 1
      BY <2>3
    <3> QED BY <2>4, <3>1
  <2> QED BY <2>4, <2>5 DEF v, s
<1> QED BY <1>1, VectorsInvHolds, PTL

\* Every element of a vector is alive; none is constructed, assigned to, moved
\* from or destructed out of turn; what is behind the end was destructed, or
\* left by reserve in m_initial_data or by the erasing of several, and nothing
\* reads or destructs that (ix_StackVector.hpp:216, ix_Vector_util.hpp:190);
\* and every block has one owner, which frees it once.
THEOREM AliveTheorem == Spec => []ObjectsAreAliveInTurn
<1>1. VectorsInv => ObjectsAreAliveInTurn
  <2> SUFFICES ASSUME VectorsInv PROVE ObjectsAreAliveInTurn
    OBVIOUS
  <2>1. ~ruined
    BY DEF VectorsInv
  <2>2. ASSUME NEW o \in Objects, Exists(o)
        PROVE  /\ vec[o].ok
               /\ vec[o].m_size <= vec[o].m_capacity
               /\ 0 .. vec[o].m_capacity - 1 \subseteq DOMAIN vec[o].cells
               /\ \A i \in DOMAIN vec[o].cells :
                    vec[o].cells[i] \in (IF i < vec[o].m_size THEN Values ELSE Blank)
    <3> DEFINE v == vec[o]
               s == elements[o]
    <3>1. Good(v, s)
      BY <2>2, ThereAndGood
    <3> HIDE DEF v, s
    <3>2. PICK data, capacity, n, z : Has(v, s, data, capacity, n, z)
      BY <3>1 DEF Good
    <3>3. /\ Reads(v, s, data, capacity, n, z) /\ capacity \in Nat /\ n \in Nat
          /\ Len(s) <= capacity /\ capacity <= n
      BY <3>2, HasFacts DEF Has
    <3>4. /\ v.m_size = Len(s) /\ v.m_capacity = capacity /\ v.ok = TRUE /\ DOMAIN v.cells = 0 .. n - 1
          /\ \A j \in 0 .. Len(s) - 1 : v.cells[j] \in Values
          /\ \A j \in Len(s) .. n - 1 : v.cells[j] \in Blank
          /\ Len(s) \in Nat
      BY <3>3 DEF Reads
    <3>5. 0 .. capacity - 1 \subseteq 0 .. n - 1
      BY <3>3
    <3> QED BY <3>3, <3>4, <3>5 DEF v
  <2>3. Owners(Where(vec), heap)
    BY DEF VectorsInv
  <2>4. ASSUME NEW o \in Objects, NEW b \in Blocks, vec[o].m_data = b PROVE Exists(o)
    BY <2>4, VectorsAssumption DEF Exists
  <2>5. heap = UNION {BlockOf(vec[o]) : o \in {p \in Objects : Exists(p)}}
    BY <2>3, <2>4 DEF Owners, Where, BlockOf
  <2>6. \A o, p \in Objects : Exists(o) /\ Exists(p) /\ o # p => BlockOf(vec[o]) \cap BlockOf(vec[p]) = {}
    BY <2>3 DEF Owners, Where, BlockOf
  <2> QED BY <2>1, <2>2, <2>5, <2>6 DEF ObjectsAreAliveInTurn
<1> QED BY <1>1, VectorsInvHolds, PTL
=============================================================================
