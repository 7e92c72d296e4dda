-------------------------- MODULE ThreadPoolProofs --------------------------
(***************************************************************************)
(* The thread pool as textunpack_unpack uses it: one root at a time, made  *)
(* by add_empty_job, children added to it that do not call the pool, then  *)
(* wait, for any number of workers, roots and children, any size of the    *)
(* job pools, and shutdowns in between.  For such a program the ttl counts *)
(* right and wait covers the tree, although finalize_job reads the parent  *)
(* of a slot that may have been filled again: the new job in it has the    *)
(* same parent as the old one.                                             *)
(***************************************************************************)
EXTENDS ThreadPool, ProofLemmas, FiniteSetTheorems

\* Which call may come next, with a root that waits for its wait and without.
InOrder(op, before, after) ==
  \/ op.op = "empty" /\ ~before /\ after
  \/ op.op = "child" /\ Body[op.entry] = <<>> /\ before /\ after
  \/ op.op = "wait" /\ before /\ ~after
  \/ op.op = "shutdown" /\ ~before /\ ~after

Orderly(code, rooted) ==
  \E f \in [0 .. Len(code) -> BOOLEAN] :
    f[0] = rooted /\ \A i \in 1 .. Len(code) : InOrder(code[i], f[i - 1], f[i])

\* The script of worker 0 is one root after the other.
RootByRoot == Orderly(option.main, FALSE)

-----------------------------------------------------------------------------
(* The inductive invariant.                                                *)

PCs == {"run", "scan", "full", "adopt", "push", "count", "batch", "wait",
        "release", "climb", "join"}

Maybe == JobIds \cup {NoJob}
Frames == [job : Maybe, code : Seq(Ops), root : Maybe, first : Nat]
Calls == [pc : PCs, job : Maybe, n : Nat, victim : Workers]

Types ==
  /\ option \in Setups
  /\ ttl \in [JobIds -> Nat]
  /\ parent \in [JobIds -> Maybe] /\ ancestor \in [JobIds -> Maybe]
  /\ entry \in [JobIds -> Entries \cup {CHOOSE e \in Entries : TRUE}]
  /\ next \in [Workers -> Nat]
  /\ deque \in [Workers -> Seq(JobIds)]
  /\ stack \in [Workers -> Seq(Frames)]
  /\ call \in [Workers -> Calls]
  /\ spawned \in 0 .. NumWorkers
  /\ stopping \in BOOLEAN /\ exited \in SUBSET Workers

\* The frame of the script of worker 0.
Main == stack[0][1]
Root == Main.root
NextOp == Head(Main.code).op

\* w runs a job.
Inside(w) == Len(stack[w]) = IF w = 0 THEN 2 ELSE 1

\* A job calls nothing, so no worker ever runs a job inside another.
StackInv ==
  /\ Main \in Frames /\ Main.job = NoJob
  /\ Orderly(Main.code, Root # NoJob)
  /\ \A w \in Workers :
       \/ stack[w] = IF w = 0 THEN <<Main>> ELSE <<>>
       \/ \E j \in JobIds :
            stack[w] = IF w = 0 THEN <<Main, Frame(j, <<>>)>> ELSE <<Frame(j, <<>>)>>
  /\ Inside(0) => Main.code # <<>> /\ NextOp \in AddOps \cup {"wait"}

\* What a worker's place in the library says of its call.
CallInv(w) ==
  LET c == call[w]
  IN  /\ c.pc \in {"scan", "full", "adopt", "push", "wait", "join"} =>
           w = 0 /\ ~Inside(w) /\ Main.code # <<>>
      /\ c.pc \in {"scan", "full"} => NextOp \in AddOps
      /\ c.pc \in {"adopt", "push"} => NextOp = "child"
      /\ c.pc = "wait" => NextOp = "wait"
      /\ c.pc = "join" => NextOp = "shutdown"
      /\ c.pc \in {"count", "batch"} =>
           /\ ~Inside(w) /\ c.victim # w
           /\ w = 0 => Main.code # <<>> /\ NextOp \in AddOps \cup {"wait"}
      /\ c.pc = "count" => c.n # 0
      /\ c.pc \in {"adopt", "push", "count", "batch", "release", "climb"} => c.job # NoJob
      /\ c.pc \in {"release", "climb"} /\ ~Inside(w) =>
           /\ w = 0 /\ Main.code # <<>> /\ NextOp = "wait" /\ c.job = Root
           /\ c.pc = "release" => ttl[Root] = 1
           /\ c.pc = "climb" => ttl[Root] = 0 /\ c.n = 1
      /\ c.pc = "climb" /\ Inside(w) /\ c.n = 1 =>
           Root # NoJob /\ c.job # Root /\ parent[c.job] = Root

\* The job that w is about to put into a deque, to run, or is running, until
\* its finalizer has told that it is done.
Held(w) ==
  IF call[w].pc \in {"adopt", "push", "count", "batch"} THEN call[w].job
  ELSE IF ~Inside(w) THEN NoJob
  ELSE IF call[w].pc = "run" THEN Top(w).job
  ELSE IF call[w].pc = "release" /\ call[w].job # Root THEN call[w].job
  ELSE NoJob

\* A child of the root that is not done.
Kid(j) ==
  /\ j \in JobIds /\ Root # NoJob /\ j # Root
  /\ ttl[j] = 1 /\ parent[j] = Root /\ ancestor[j] = Root
  /\ entry[j] \in Entries /\ Body[entry[j]] = <<>>

\* A child that is not done is in one place.
JobsInv ==
  /\ \A w \in Workers : \A j \in Range(deque[w]) : Kid(j)
  /\ \A w \in Workers : Held(w) # NoJob => Kid(Held(w))
  /\ \A w \in Workers : IsInjective(deque[w])
  /\ \A w, v \in Workers : w # v => Range(deque[w]) \cap Range(deque[v]) = {}
  /\ \A w, v \in Workers : Held(w) \notin Range(deque[v])
  /\ \A w, v \in Workers : w # v /\ Held(w) # NoJob => Held(w) # Held(v)
  /\ \A j \in JobIds : ttl[j] # 0 /\ j # Root =>
       \E w \in Workers : j \in Range(deque[w]) \/ Held(w) = j

\* The wait for the root has not begun to release it.
RootAwaited == ~(call[0].pc \in {"release", "climb"} /\ ~Inside(0))

RootInv ==
  Root # NoJob =>
    /\ parent[Root] = NoJob /\ ancestor[Root] = Root
    /\ ttl[Root] = Owed(Root) + IF RootAwaited THEN 1 ELSE 0

PoolInv ==
  /\ Types /\ StackInv
  /\ \A w \in Workers : CallInv(w)
  /\ JobsInv /\ RootInv

-----------------------------------------------------------------------------
(* Constants, sets and sequences.                                          *)

LEMMA Constants ==
  /\ NumWorkers \in Nat \ {0} /\ 0 \in Workers
  /\ \A w \in Workers : w \in Int
  /\ NoJob \notin JobIds
  /\ IsFiniteSet(Workers) /\ IsFiniteSet(JobIds)
<1>1. NumWorkers \in Nat \ {0} /\ 0 \in Workers /\ \A w \in Workers : w \in Int
  BY WorkersAssumption DEF Workers
<1>2. NoJob \notin JobIds
  BY PoolAssumption DEF JobIds, Workers, Slots
<1>3. IsFiniteSet(Workers) /\ IsFiniteSet(Slots)
  BY WorkersAssumption, PoolAssumption, FS_Interval DEF Workers, Slots
<1>4. IsFiniteSet(JobIds)
  BY <1>3, FS_Product DEF JobIds
<1>5. QED
  BY <1>1, <1>2, <1>3, <1>4

\* Counting a set that has got or lost one element.
LEMMA OneMore ==
  ASSUME NEW S, NEW T, NEW x, IsFiniteSet(S), x \notin S, T = S \cup {x}
  PROVE  /\ IsFiniteSet(T) /\ Cardinality(S) \in Nat
         /\ Cardinality(T) = Cardinality(S) + 1
BY FS_AddElement, FS_CardinalityType

LEMMA OneLess ==
  ASSUME NEW S, NEW T, NEW x, IsFiniteSet(S), x \in S, T = S \ {x}
  PROVE  /\ IsFiniteSet(T) /\ Cardinality(T) \in Nat
         /\ Cardinality(S) = Cardinality(T) + 1
<1>1. /\ IsFiniteSet(T) /\ Cardinality(S) \in Nat /\ Cardinality(T) \in Nat
      /\ Cardinality(T) = Cardinality(S) - 1
  BY FS_RemoveElement, FS_CardinalityType
<1>2. QED
  BY <1>1

\* The elements of a sequence that grows or shrinks at one end.
LEMMA RangeOfAppend ==
  ASSUME NEW S, NEW s \in Seq(S), NEW e \in S
  PROVE  /\ Append(s, e) \in Seq(S)
         /\ Range(Append(s, e)) = Range(s) \cup {e}
         /\ IsInjective(s) /\ e \notin Range(s) => IsInjective(Append(s, e))
<1> DEFINE t == Append(s, e)
<1>1. PICK n \in Nat : Len(s) = n
  BY LenProperties
<1>2. /\ t \in Seq(S) /\ Len(t) = n + 1 /\ t[n + 1] = e
      /\ \A i \in 1 .. n : t[i] = s[i]
  BY <1>1, AppendProperties
<1>3. DOMAIN s = 1 .. n /\ DOMAIN t = 1 .. n + 1
  BY <1>1, <1>2, LenProperties
<1> HIDE DEF t
<1>4. \A i \in 1 .. n + 1 : i \in 1 .. n \/ i = n + 1
  BY <1>1
<1>5. \A i \in 1 .. n : i \in 1 .. n + 1
  BY <1>1
<1>6. n + 1 \in 1 .. n + 1
  BY <1>1
<1>7. Range(t) = Range(s) \cup {e}
  BY <1>2, <1>3, <1>4, <1>5, <1>6 DEF Range
<1>8. IsInjective(s) /\ e \notin Range(s) => IsInjective(t)
  BY <1>2, <1>3, <1>4 DEF Range, IsInjective
<1>9. QED
  BY <1>2, <1>7, <1>8 DEF t

LEMMA RangeOfTail ==
  ASSUME NEW S, NEW s \in Seq(S), s # <<>>, IsInjective(s)
  PROVE  /\ Tail(s) \in Seq(S) /\ Head(s) \in S
         /\ Head(s) \in Range(s)
         /\ Range(Tail(s)) = Range(s) \ {Head(s)}
         /\ IsInjective(Tail(s))
<1> DEFINE t == Tail(s)
<1>1. PICK n \in Nat : Len(s) = n + 1
  <2>1. Len(s) \in Nat \ {0}
    BY EmptySeq
  <2>2. Len(s) - 1 \in Nat /\ Len(s) = (Len(s) - 1) + 1
    BY <2>1
  <2>3. QED
    BY <2>2
<1>2. /\ t \in Seq(S) /\ Len(t) = n /\ Head(s) \in S /\ Head(s) = s[1]
      /\ \A i \in 1 .. n : t[i] = s[i + 1]
  <2>1. /\ t \in Seq(S) /\ Len(t) = Len(s) - 1 /\ Head(s) \in S
        /\ \A i \in 1 .. Len(t) : t[i] = s[i + 1]
    BY HeadTailProperties
  <2>2. (n + 1) - 1 = n
    BY <1>1
  <2>3. Head(s) = s[1]
    OBVIOUS
  <2>4. QED
    BY <1>1, <2>1, <2>2, <2>3
<1>3. DOMAIN s = 1 .. n + 1 /\ DOMAIN t = 1 .. n
  BY <1>1, <1>2, LenProperties
<1> HIDE DEF t
<1>4. \A i \in 1 .. n : i + 1 \in 1 .. n + 1 /\ i + 1 # 1
  BY <1>1
<1>5. 1 \in 1 .. n + 1 /\ \A i \in 1 .. n + 1 : i = 1 \/ \E k \in 1 .. n : i = k + 1
  <2>1. \A i \in 1 .. n + 1 : i = 1 \/ (i - 1 \in 1 .. n /\ i = (i - 1) + 1)
    BY <1>1
  <2>2. 1 \in 1 .. n + 1
    BY <1>1
  <2>3. QED
    BY <2>1, <2>2
<1>6. \A i, k \in 1 .. n : i + 1 = k + 1 => i = k
  BY <1>1
<1>7. \A i, k \in 1 .. n + 1 : s[i] = s[k] => i = k
  BY <1>3 DEF IsInjective
<1>8. Range(t) = Range(s) \ {Head(s)}
  <2>1. ASSUME NEW x \in Range(t) PROVE x \in Range(s) \ {Head(s)}
    <3>1. PICK i \in 1 .. n : x = s[i + 1]
      BY <1>2, <1>3, <2>1 DEF Range
    <3>2. QED
      BY <3>1, <1>2, <1>3, <1>4, <1>5, <1>7 DEF Range
  <2>2. ASSUME NEW x \in Range(s), x # Head(s) PROVE x \in Range(t)
    <3>1. PICK i \in 1 .. n + 1 : x = s[i]
      BY <1>3, <2>2 DEF Range
    <3>2. PICK k \in 1 .. n : i = k + 1
      BY <1>5, <3>1, <2>2, <1>2
    <3>3. QED
      BY <3>1, <3>2, <1>2, <1>3 DEF Range
  <2>3. QED
    BY <2>1, <2>2
<1>9. IsInjective(t)
  BY <1>2, <1>3, <1>4, <1>6, <1>7 DEF IsInjective
<1>10. Head(s) \in Range(s)
  BY <1>2, <1>3, <1>5 DEF Range
<1>11. QED
  BY <1>2, <1>8, <1>9, <1>10 DEF t

LEMMA RangeOfFront ==
  ASSUME NEW S, NEW s \in Seq(S), Len(s) > 0, IsInjective(s)
  PROVE  LET t == SubSeq(s, 1, Len(s) - 1)
             e == s[Len(s)]
         IN  /\ t \in Seq(S) /\ e \in S /\ e \in Range(s)
             /\ Range(t) = Range(s) \ {e}
             /\ IsInjective(t)
<1> DEFINE t == SubSeq(s, 1, Len(s) - 1)
<1>1. PICK n \in Nat : Len(s) = n + 1
  <2>1. Len(s) \in Nat /\ Len(s) - 1 \in Nat /\ Len(s) = (Len(s) - 1) + 1
    BY LenProperties
  <2>2. QED
    BY <2>1
<1>2. DOMAIN s = 1 .. n + 1 /\ s \in [1 .. n + 1 -> S]
  BY <1>1, LenProperties
<1>3. t = SubSeq(s, 1, n)
  <2>1. (n + 1) - 1 = n
    BY <1>1
  <2>2. QED
    BY <1>1, <2>1
<1>4. /\ \A i \in 1 .. n : i \in 1 .. n + 1 /\ i # n + 1
      /\ \A i \in 1 .. n + 1 : i # n + 1 => i \in 1 .. n
      /\ n + 1 \in 1 .. n + 1
  BY <1>1
<1>5. /\ t \in Seq(S) /\ Len(t) = n
      /\ \A i \in 1 .. n : t[i] = s[i]
  <2>1. n <= Len(s)
    BY <1>1
  <2>2. n \in 0 .. Len(s)
    BY <2>1, <1>1
  <2>3. t \in Seq(S) /\ Len(t) = n
    BY <2>2, <1>3, CutTwice
  <2>4. \A i \in 1 .. n : t[i] = s[i]
    <3>1. \A i \in 1 .. n : s[i] \in S
      BY <1>2, <1>4
    <3>2. \A i \in 1 .. (n - 1) + 1 : t[i] = s[(1 + i) - 1]
      BY <3>1, <1>1, <1>3, SubSeqProperties
    <3>3. \A i \in 1 .. n : i \in 1 .. (n - 1) + 1 /\ (1 + i) - 1 = i
      BY <1>1
    <3>4. QED
      BY <3>2, <3>3
  <2>5. QED
    BY <2>3, <2>4
<1>6. DOMAIN t = 1 .. n
  BY <1>5, LenProperties
<1> HIDE DEF t
<1>7. s[n + 1] \in S /\ s[n + 1] \in Range(s)
  BY <1>2, <1>4 DEF Range
<1>8. \A i, k \in 1 .. n + 1 : s[i] = s[k] => i = k
  BY <1>2 DEF IsInjective
<1>9. Range(t) = Range(s) \ {s[n + 1]}
  BY <1>2, <1>4, <1>5, <1>6, <1>8 DEF Range
<1>10. IsInjective(t)
  BY <1>4, <1>5, <1>6, <1>8 DEF IsInjective
<1>11. QED
  BY <1>1, <1>5, <1>7, <1>9, <1>10 DEF t

\* The script goes on in order.
LEMMA OrderlyTail ==
  ASSUME NEW code \in Seq(Ops), NEW rooted \in BOOLEAN, Orderly(code, rooted), code # <<>>
  PROVE  /\ Head(code) \in Ops /\ Tail(code) \in Seq(Ops)
         /\ \E after \in BOOLEAN : /\ InOrder(Head(code), rooted, after)
                                   /\ Orderly(Tail(code), after)
<1>1. PICK n \in Nat : Len(code) = n + 1
  <2>1. Len(code) \in Nat \ {0}
    BY EmptySeq
  <2>2. Len(code) - 1 \in Nat /\ Len(code) = (Len(code) - 1) + 1
    BY <2>1
  <2>3. QED
    BY <2>2
<1>2. /\ Head(code) \in Ops /\ Tail(code) \in Seq(Ops) /\ Head(code) = code[1]
      /\ Len(Tail(code)) = n /\ \A i \in 1 .. n : Tail(code)[i] = code[i + 1]
  <2>1. /\ Tail(code) \in Seq(Ops) /\ Len(Tail(code)) = Len(code) - 1 /\ Head(code) \in Ops
        /\ \A i \in 1 .. Len(Tail(code)) : Tail(code)[i] = code[i + 1]
    BY HeadTailProperties
  <2>2. (n + 1) - 1 = n
    BY <1>1
  <2>3. Head(code) = code[1]
    OBVIOUS
  <2>4. QED
    BY <1>1, <2>1, <2>2, <2>3
<1>3. PICK f \in [0 .. n + 1 -> BOOLEAN] :
        f[0] = rooted /\ \A i \in 1 .. n + 1 : InOrder(code[i], f[i - 1], f[i])
  BY <1>1 DEF Orderly
<1> DEFINE g == [i \in 0 .. n |-> f[i + 1]]
<1>4. /\ \A i \in 0 .. n : i + 1 \in 0 .. n + 1
      /\ \A i \in 1 .. n : i + 1 \in 1 .. n + 1 /\ (i + 1) - 1 = i /\ i - 1 \in 0 .. n
                           /\ (i - 1) + 1 = i /\ i \in 0 .. n
      /\ 1 \in 1 .. n + 1 /\ 1 - 1 = 0 /\ 0 \in 0 .. n /\ 0 + 1 = 1
  BY <1>1
<1>5. g \in [0 .. n -> BOOLEAN] /\ g[0] = f[1] /\ f[1] \in BOOLEAN
  BY <1>4
<1>6. \A i \in 1 .. n : InOrder(Tail(code)[i], g[i - 1], g[i])
  <2>1. ASSUME NEW i \in 1 .. n PROVE InOrder(Tail(code)[i], g[i - 1], g[i])
    <3>1. g[i - 1] = f[i] /\ g[i] = f[i + 1]
      BY <1>4
    <3>2. InOrder(code[i + 1], f[i], f[i + 1])
      BY <1>3, <1>4
    <3>3. QED
      BY <3>1, <3>2, <1>2
  <2>2. QED
    BY <2>1
<1>7. Orderly(Tail(code), f[1])
  <2> HIDE DEF g
  <2>1. QED
    BY <1>2, <1>5, <1>6 DEF Orderly
<1>8. InOrder(Head(code), rooted, f[1])
  BY <1>2, <1>3, <1>4
<1>9. QED
  BY <1>2, <1>5, <1>7, <1>8

-----------------------------------------------------------------------------
(* Frames come and go.                                                     *)

LEMMA Tuples ==
  ASSUME NEW S, NEW m \in S, NEW f \in S
  PROVE  /\ Len(<<m>>) = 1 /\ Len(<<m, f>>) = 2 /\ <<m>> # <<>> /\ <<m, f>> # <<>>
         /\ Append(<<m>>, f) = <<m, f>> /\ Append(<<>>, f) = <<f>>
         /\ SubSeq(<<m, f>>, 1, 1) = <<m>> /\ SubSeq(<<f>>, 1, 0) = <<>>
         /\ <<m>> \in Seq(S) /\ <<m, f>> \in Seq(S)
<1>1. <<m>> \in Seq(S) /\ <<m, f>> \in Seq(S) /\ <<>> \in Seq(S) /\ <<f>> \in Seq(S)
  OBVIOUS
<1>2. Len(<<m>>) = 1 /\ Len(<<m, f>>) = 2 /\ Len(<<f>>) = 1 /\ Len(<<>>) = 0
  OBVIOUS
<1>3. <<m>> # <<>> /\ <<m, f>> # <<>>
  OBVIOUS
<1>4. Append(<<m>>, f) = <<m, f>>
  <2>1. /\ Append(<<m>>, f) \in Seq(S) /\ Len(Append(<<m>>, f)) = 2
        /\ Append(<<m>>, f)[1] = m /\ Append(<<m>>, f)[2] = f
    BY <1>1, <1>2, AppendProperties
  <2>2. \A i \in 1 .. 2 : i = 1 \/ i = 2
    OBVIOUS
  <2>3. \A i \in 1 .. 2 : Append(<<m>>, f)[i] = <<m, f>>[i]
    BY <2>1, <2>2
  <2>4. QED
    BY <1>1, <1>2, <2>1, <2>3, SeqEqual
<1>5. Append(<<>>, f) = <<f>>
  OBVIOUS
<1>6. SubSeq(<<m, f>>, 1, 1) = <<m>>
  <2> DEFINE t == SubSeq(<<m, f>>, 1, 1)
  <2>1. \A i \in 1 .. 1 : <<m, f>>[i] \in S
    OBVIOUS
  <2>2. /\ t \in Seq(S) /\ Len(t) = IF 1 <= 1 THEN 1 - 1 + 1 ELSE 0
        /\ \A i \in 1 .. 1 - 1 + 1 : t[i] = <<m, f>>[1 + i - 1]
    BY <2>1, SubSeqProperties
  <2>3. t \in Seq(S) /\ Len(t) = 1 /\ t[1] = m
    BY <2>2
  <2> HIDE DEF t
  <2>4. \A i \in 1 .. 1 : t[i] = <<m>>[i]
    BY <2>3
  <2>5. t = <<m>>
    BY <1>1, <1>2, <2>3, <2>4, SeqEqual
  <2>6. QED
    BY <2>5 DEF t
<1>7. SubSeq(<<f>>, 1, 0) = <<>>
  BY SubSeqEmpty
<1>8. QED
  BY <1>1, <1>2, <1>3, <1>4, <1>5, <1>6, <1>7

LEMMA FrameType == \A j \in JobIds : Frame(j, <<>>) \in Frames
BY EmptySeq DEF Frame, Frames, Maybe

\* The two shapes a stack can have.
LEMMA Shapes ==
  ASSUME StackInv, NEW w \in Workers
  PROVE  /\ ~Inside(w) => stack[w] = IF w = 0 THEN <<Main>> ELSE <<>>
         /\ w = 0 /\ ~Inside(w) => Top(w) = Main /\ Len(stack[w]) = 1
         /\ w # 0 /\ ~Inside(w) => Len(stack[w]) = 0
         /\ Inside(w) => \E j \in JobIds :
              /\ Top(w) = Frame(j, <<>>)
              /\ stack[w] = IF w = 0 THEN <<Main, Frame(j, <<>>)>> ELSE <<Frame(j, <<>>)>>
<1>1. CASE stack[w] = IF w = 0 THEN <<Main>> ELSE <<>>
  <2>1. /\ w = 0 => Len(stack[w]) = 1 /\ Top(w) = Main
        /\ w # 0 => Len(stack[w]) = 0
    BY <1>1, Tuples DEF Top
  <2>2. QED
    BY <1>1, <2>1 DEF Inside
<1>2. ASSUME NEW j \in JobIds,
             stack[w] = IF w = 0 THEN <<Main, Frame(j, <<>>)>> ELSE <<Frame(j, <<>>)>>
      PROVE  Inside(w) /\ Top(w) = Frame(j, <<>>)
  BY <1>2, Tuples DEF Top, Inside
<1>3. QED
  BY <1>1, <1>2 DEF StackInv

\* w runs a job, whose script is empty.
LEMMA InsideFacts ==
  ASSUME StackInv, NEW w \in Workers, Inside(w)
  PROVE  /\ Top(w).code = <<>> /\ Top(w).job \in JobIds /\ Top(w).root = NoJob
         /\ stack[w] # <<>>
         /\ \A ops : ~AtOp(w, ops)
<1>1. PICK j \in JobIds : Top(w) = Frame(j, <<>>)
  BY Shapes
<1>2. /\ Top(w).code = <<>> /\ Top(w).job \in JobIds /\ Top(w).root = NoJob
  BY <1>1 DEF Frame
<1>3. stack[w] # <<>>
  <2>1. Len(stack[w]) # 0
    BY DEF Inside
  <2>2. QED
    BY <2>1
<1>4. QED
  BY <1>2, <1>3 DEF AtOp

\* w is in its thread function, or worker 0 in its script.
LEMMA OutsideFacts ==
  ASSUME StackInv, NEW w \in Workers, ~Inside(w)
  PROVE  /\ w # 0 => stack[w] = <<>> /\ \A ops : ~AtOp(w, ops)
         /\ w = 0 => /\ stack[0] = <<Main>> /\ Top(0) = Main /\ Len(stack[0]) = 1
                     /\ stack[0] # <<>>
                     /\ \A ops : AtOp(0, ops) <=> Main.code # <<>> /\ NextOp \in ops
<1>1. w # 0 => stack[w] = <<>>
  BY Shapes
<1>2. w = 0 => stack[0] = <<Main>> /\ Top(0) = Main /\ Len(stack[0]) = 1 /\ stack[0] # <<>>
  BY Shapes, Tuples
<1>3. QED
  BY <1>1, <1>2 DEF AtOp, NextOp

\* What the next call may be.
LEMMA NextFacts ==
  ASSUME StackInv, Main.code # <<>>
  PROVE  /\ Main.code \in Seq(Ops) /\ Head(Main.code) \in Ops
         /\ NextOp \in {"empty", "child", "wait", "shutdown"}
         /\ NextOp = "empty" => Root = NoJob
         /\ NextOp = "child" => /\ Root # NoJob /\ Head(Main.code).entry \in Entries
                                /\ Body[Head(Main.code).entry] = <<>>
         /\ NextOp = "wait" => Root # NoJob
         /\ NextOp = "shutdown" => Root = NoJob
<1>1. Main.code \in Seq(Ops) /\ Orderly(Main.code, Root # NoJob) /\ (Root # NoJob) \in BOOLEAN
  BY DEF StackInv, Frames
<1>2. Head(Main.code) \in Ops /\ \E after \in BOOLEAN : InOrder(Head(Main.code), Root # NoJob, after)
  BY <1>1, OrderlyTail
<1>3. NextOp = "child" => Head(Main.code).entry \in Entries
  BY <1>2 DEF Ops, NextOp
<1>4. QED
  BY <1>1, <1>2, <1>3 DEF InOrder, NextOp

LEMMA EnterFacts ==
  ASSUME Types, StackInv, NEW w \in Workers, ~Inside(w), NEW j \in JobIds,
         w = 0 => Main.code # <<>> /\ NextOp \in AddOps \cup {"wait"},
         Body[entry[j]] = <<>>, Enter(w, j)
  PROVE  /\ StackInv' /\ Main' = Main /\ Inside(w)' /\ Top(w)'.job = j
         /\ stack' \in [Workers -> Seq(Frames)] /\ call' \in [Workers -> Calls]
         /\ call'[w] = Running
         /\ \A v \in Workers : v # w => stack'[v] = stack[v] /\ call'[v] = call[v]
<1> DEFINE f == Frame(j, <<>>)
           s == IF w = 0 THEN <<Main, f>> ELSE <<f>>
<1>1. f \in Frames /\ Main \in Frames
  BY FrameType DEF StackInv
<1>2. s \in Seq(Frames) /\ Append(stack[w], f) = s
  <2>1. CASE w = 0
    <3>1. stack[w] = <<Main>> /\ s = <<Main, f>>
      BY <2>1, Shapes
    <3>2. QED
      BY <3>1, <1>1, Tuples
  <2>2. CASE w # 0
    <3>1. stack[w] = <<>> /\ s = <<f>>
      BY <2>2, Shapes
    <3>2. QED
      BY <3>1, <1>1, Tuples
  <2>3. QED
    BY <2>1, <2>2
<1>3. stack' = [stack EXCEPT ![w] = s] /\ stack' \in [Workers -> Seq(Frames)]
  BY <1>2 DEF Enter, Types
<1>4. call' = [call EXCEPT ![w] = Running] /\ Running \in Calls
  BY Constants DEF Enter, Running, Calls, PCs, Maybe
<1>5. stack'[w] = s /\ \A v \in Workers : v # w => stack'[v] = stack[v] /\ call'[v] = call[v]
  BY <1>3, <1>4 DEF Types
<1>6. Main' = Main
  BY <1>5, Constants DEF Main
<1>7. Inside(w)' /\ Top(w)' = f
  BY <1>5, Tuples, <1>1 DEF Inside, Top
<1>8. StackInv'
  <2>1. ASSUME NEW v \in Workers
        PROVE  \/ stack'[v] = IF v = 0 THEN <<Main'>> ELSE <<>>
               \/ \E i \in JobIds : stack'[v] =
                    IF v = 0 THEN <<Main', Frame(i, <<>>)>> ELSE <<Frame(i, <<>>)>>
    BY <1>5, <1>6 DEF StackInv
  <2>2. Inside(0)' => Main.code # <<>> /\ NextOp \in AddOps \cup {"wait"}
    <3>1. CASE w = 0
      BY <3>1
    <3>2. CASE w # 0
      BY <3>2, <1>5, Constants DEF Inside, StackInv
    <3>3. QED
      BY <3>1, <3>2
  <2>3. QED
    BY <2>1, <2>2, <1>6 DEF StackInv, Root, NextOp
<1>9. Top(w)'.job = j
  BY <1>7 DEF Frame
<1>10. call' \in [Workers -> Calls] /\ call'[w] = Running
  BY <1>4 DEF Types
<1>11. QED
  BY <1>3, <1>5, <1>6, <1>7, <1>8, <1>9, <1>10

LEMMA LeaveFacts ==
  ASSUME Types, StackInv, NEW w \in Workers, Inside(w), Finalized(w)
  PROVE  /\ StackInv' /\ Main' = Main /\ ~Inside(w)'
         /\ stack' \in [Workers -> Seq(Frames)] /\ call' \in [Workers -> Calls]
         /\ call'[w].pc = IF w # 0 THEN "run" ELSE IF NextOp = "wait" THEN "wait" ELSE "scan"
         /\ \A v \in Workers : v # w => stack'[v] = stack[v] /\ call'[v] = call[v]
<1> DEFINE below == SubSeq(stack[w], 1, Len(stack[w]) - 1)
           pc == IF below = <<>> THEN "run"
                 ELSE IF Head(below[Len(below)].code).op = "wait" THEN "wait" ELSE "scan"
           s == IF w = 0 THEN <<Main>> ELSE <<>>
<1>1. PICK j \in JobIds :
        stack[w] = IF w = 0 THEN <<Main, Frame(j, <<>>)>> ELSE <<Frame(j, <<>>)>>
  BY Shapes
<1>2. Frame(j, <<>>) \in Frames /\ Main \in Frames
  BY FrameType DEF StackInv
<1>3. below = s
  <2>1. CASE w = 0
    <3>1. Len(stack[w]) - 1 = 1
      BY <1>1, <2>1, <1>2, Tuples
    <3>2. below = SubSeq(<<Main, Frame(j, <<>>)>>, 1, 1)
      BY <3>1, <1>1, <2>1
    <3>3. QED
      BY <3>2, <2>1, <1>2, Tuples
  <2>2. CASE w # 0
    <3>1. Len(stack[w]) - 1 = 0
      BY <1>1, <2>2, <1>2, Tuples
    <3>2. below = SubSeq(<<Frame(j, <<>>)>>, 1, 0)
      BY <3>1, <1>1, <2>2
    <3>3. QED
      BY <3>2, <2>2, <1>2, Tuples
  <2>3. QED
    BY <2>1, <2>2
<1>4. pc = IF w # 0 THEN "run" ELSE IF NextOp = "wait" THEN "wait" ELSE "scan"
  <2>1. CASE w = 0
    <3>1. below # <<>> /\ below[Len(below)] = Main
      <4>1. below = <<Main>> /\ Len(<<Main>>) = 1 /\ <<Main>> # <<>>
        BY <2>1, <1>3, <1>2, Tuples
      <4> HIDE DEF below
      <4>2. QED
        BY <4>1
    <3>2. QED
      BY <3>1, <2>1 DEF NextOp
  <2>2. QED
    BY <2>1, <1>3
<1>5. stack' = [stack EXCEPT ![w] = below] /\ call' = [call EXCEPT ![w] = [Running EXCEPT !.pc = pc]]
  <2>1. ~AtOp(w, {"wait"})
    BY InsideFacts
  <2>2. QED
    BY <2>1 DEF Finalized
<1> HIDE DEF below, pc
<1>6. [Running EXCEPT !.pc = pc] \in Calls
  BY <1>4, Constants DEF Running, Calls, PCs, Maybe
<1>7. s \in Seq(Frames)
  BY <1>2, Tuples, EmptySeq
<1>8. /\ stack' \in [Workers -> Seq(Frames)] /\ call' \in [Workers -> Calls]
      /\ stack'[w] = s /\ call'[w].pc = pc
      /\ \A v \in Workers : v # w => stack'[v] = stack[v] /\ call'[v] = call[v]
  BY <1>3, <1>5, <1>6, <1>7 DEF Types, Running
<1>9. Main' = Main
  BY <1>8, <1>1, Constants DEF Main
<1>10. ~Inside(w)'
  BY <1>8, <1>2, Tuples DEF Inside
<1>11. StackInv'
  <2>1. ASSUME NEW v \in Workers
        PROVE  \/ stack'[v] = IF v = 0 THEN <<Main'>> ELSE <<>>
               \/ \E i \in JobIds : stack'[v] =
                    IF v = 0 THEN <<Main', Frame(i, <<>>)>> ELSE <<Frame(i, <<>>)>>
    BY <1>8, <1>9 DEF StackInv
  <2>2. Inside(0)' => Main.code # <<>> /\ NextOp \in AddOps \cup {"wait"}
    BY <1>8, <1>10, Constants DEF Inside, StackInv
  <2>3. QED
    BY <2>1, <2>2, <1>9 DEF StackInv, Root, NextOp
<1>12. QED
  BY <1>4, <1>8, <1>9, <1>10, <1>11

LEMMA ReturnFacts ==
  ASSUME Types, StackInv, ~Inside(0), Main.code # <<>>, NEW r \in Maybe,
         r # NoJob <=> NextOp \in {"empty", "child"}, Return(0, r)
  PROVE  /\ StackInv' /\ Root' = r /\ ~Inside(0)'
         /\ stack' \in [Workers -> Seq(Frames)] /\ call' \in [Workers -> Calls]
         /\ call'[0] = Running
         /\ \A v \in Workers : v # 0 => stack'[v] = stack[v] /\ call'[v] = call[v]
<1> DEFINE m == [Main EXCEPT !.code = Tail(Main.code), !.root = r, !.first = 0]
<1>1. /\ Main \in Frames /\ Main.job = NoJob
      /\ Main.code \in Seq(Ops) /\ Head(Main.code) \in Ops /\ (Root # NoJob) \in BOOLEAN
      /\ Orderly(Main.code, Root # NoJob)
  BY NextFacts DEF StackInv
<1>2. Tail(Main.code) \in Seq(Ops) /\ Orderly(Tail(Main.code), r # NoJob)
  <2>1. PICK after \in BOOLEAN : /\ InOrder(Head(Main.code), Root # NoJob, after)
                                 /\ Orderly(Tail(Main.code), after)
    BY <1>1, OrderlyTail
  <2>2. after <=> r # NoJob
    BY <2>1 DEF InOrder, NextOp
  <2>3. after = (r # NoJob)
    BY <2>2
  <2>4. QED
    BY <2>1, <2>3, <1>1, OrderlyTail
<1>3. m \in Frames /\ m.job = NoJob /\ m.root = r /\ m.code = Tail(Main.code)
  BY <1>1, <1>2 DEF Frames
<1>4. stack[0] = <<Main>> /\ Len(stack[0]) = 1
  BY OutsideFacts, Constants
<1>5. stack' = [stack EXCEPT ![0] = <<m>>]
  <2>1. [stack[0] EXCEPT ![1] = m] = <<m>>
    BY <1>4
  <2>2. stack' = [stack EXCEPT ![0] = [stack[0] EXCEPT ![Len(stack[0])] =
          [Top(0) EXCEPT !.code = Tail(Top(0).code),
                                          !.root = r, !.first = 0]]]
    BY DEF Return
  <2>3. QED
    BY <2>1, <2>2, <1>4 DEF Main, Top
<1> HIDE DEF m
<1>6. call' = [call EXCEPT ![0] = Running] /\ Running \in Calls
  BY Constants DEF Return, Running, Calls, PCs, Maybe
<1>7. /\ stack' \in [Workers -> Seq(Frames)] /\ call' \in [Workers -> Calls]
      /\ stack'[0] = <<m>> /\ call'[0] = Running
      /\ \A v \in Workers : v # 0 => stack'[v] = stack[v] /\ call'[v] = call[v]
  <2>1. <<m>> \in Seq(Frames)
    BY <1>3, Tuples
  <2>2. QED
    BY <2>1, <1>5, <1>6, Constants DEF Types
<1>8. Main' = m
  BY <1>7 DEF Main
<1>9. ~Inside(0)'
  BY <1>7, <1>3, Tuples DEF Inside
<1>10. StackInv'
  <2>1. ASSUME NEW v \in Workers
        PROVE  \/ stack'[v] = IF v = 0 THEN <<Main'>> ELSE <<>>
               \/ \E i \in JobIds : stack'[v] =
                    IF v = 0 THEN <<Main', Frame(i, <<>>)>> ELSE <<Frame(i, <<>>)>>
    BY <1>7, <1>8 DEF StackInv
  <2>2. QED
    BY <2>1, <1>2, <1>3, <1>8, <1>9 DEF StackInv, Root
<1>11. QED
  BY <1>3, <1>7, <1>8, <1>9, <1>10 DEF Root

-----------------------------------------------------------------------------
(* What a step leaves alone.                                               *)

Adopts(w, k) == At(w, "adopt") /\ call[w].job = k
Decides(w) == At(w, "climb") /\ call[w].n = 1 /\ parent[call[w].job] = Root
Releases(w) == At(w, "release") /\ call[w].job = Root

Living == {k \in JobIds : k # Root /\ parent[k] = Root /\ ttl[k] > 0
                            /\ \A w \in Workers : ~Adopts(w, k)}
Deciding == {w \in Workers : Decides(w)}
Releasing == {w \in Workers : Releases(w)}

RootCount == Cardinality(Living) + Cardinality(Deciding) + Cardinality(Releasing)

LEMMA OwedToRoot ==
  /\ Owed(Root) = RootCount /\ Owed(Root)' = RootCount'
  /\ IsFiniteSet(Living) /\ IsFiniteSet(Deciding) /\ IsFiniteSet(Releasing)
  /\ Cardinality(Living) \in Nat /\ Cardinality(Deciding) \in Nat
  /\ Cardinality(Releasing) \in Nat
<1>1. Owed(Root) = RootCount /\ Owed(Root)' = RootCount'
  BY DEF Owed, RootCount, Living, Deciding, Releasing, Adopts, Decides, Releases
<1>2. Living \in SUBSET JobIds /\ Deciding \in SUBSET Workers /\ Releasing \in SUBSET Workers
  BY DEF Living, Deciding, Releasing
<1>3. IsFiniteSet(Living) /\ IsFiniteSet(Deciding) /\ IsFiniteSet(Releasing)
  BY <1>2, Constants, FS_Subset
<1>4. QED
  BY <1>1, <1>3, FS_CardinalityType

\* A worker that takes no part in a step.
LEMMA OtherWorker ==
  ASSUME NEW v \in Workers, stack'[v] = stack[v], call'[v] = call[v], Root' = Root
  PROVE  /\ Inside(v)' <=> Inside(v)
         /\ Top(v)' = Top(v)
         /\ Held(v)' = Held(v)
         /\ Releases(v)' <=> Releases(v)
         /\ \A k : Adopts(v, k)' <=> Adopts(v, k)
<1>1. (Inside(v)' <=> Inside(v)) /\ Top(v)' = Top(v)
  BY DEF Inside, Top
<1>2. QED
  BY <1>1 DEF Held, Releases, Adopts, At

LEMMA OtherCall ==
  ASSUME NEW v \in Workers, CallInv(v),
         stack'[v] = stack[v], call'[v] = call[v], Root' = Root,
         v = 0 => Main' = Main, v = 0 /\ ~RootAwaited => ttl'[Root] = ttl[Root],
         call[v].job \in Maybe,
         \A j \in JobIds : j # Root /\ parent[j] = Root => parent'[j] = Root
  PROVE  CallInv(v)'
<1>1. (Inside(v)' <=> Inside(v)) /\ (v = 0 => NextOp' = NextOp)
  BY OtherWorker DEF NextOp
<1>2. v = 0 /\ call[v].pc \in {"release", "climb"} /\ ~Inside(v) => ttl'[Root] = ttl[Root]
  BY DEF RootAwaited
<1>3. QED
  BY <1>1, <1>2 DEF CallInv, Maybe

\* A job keeps its state as long as its fields and the root are the same.
LEMMA KidsSame ==
  ASSUME fields' = fields, Root' = Root
  PROVE  \A j : Kid(j)' <=> Kid(j)
BY DEF Kid, fields

LEMMA JobsSame ==
  ASSUME JobsInv, fields' = fields, deque' = deque, Root' = Root,
         \A v \in Workers : Held(v)' = Held(v)
  PROVE  JobsInv'
<1>1. \A j : Kid(j)' <=> Kid(j)
  BY KidsSame
<1>2. ttl' = ttl
  BY DEF fields
<1>3. QED
  BY <1>1, <1>2 DEF JobsInv

LEMMA RootSame ==
  ASSUME RootInv, fields' = fields, Root' = Root, RootAwaited' <=> RootAwaited,
         \A v \in Workers : (Decides(v)' <=> Decides(v)) /\ (Releases(v)' <=> Releases(v)),
         \A v \in Workers : \A k \in JobIds : Adopts(v, k)' <=> Adopts(v, k)
  PROVE  RootInv'
<1>1. Living' = Living
  BY DEF Living, fields
<1>2. Deciding' = Deciding /\ Releasing' = Releasing
  BY DEF Deciding, Releasing
<1>3. Owed(Root)' = Owed(Root)
  BY <1>1, <1>2, OwedToRoot DEF RootCount
<1>4. QED
  BY <1>3 DEF RootInv, fields

\* w goes on to another place in the library, with the same job in its hands,
\* and neither adopts nor finalizes.
Calm == {"run", "scan", "full", "push", "count", "batch", "wait", "join"}

LEMMA CalmStep ==
  ASSUME PoolInv, NEW w \in Workers, fields' = fields, Root' = Root,
         call[w].pc \in Calm, call'[w].pc \in Calm,
         \A v \in Workers : v # w => stack'[v] = stack[v] /\ call'[v] = call[v],
         w # 0 => Main' = Main
  PROVE  /\ RootInv'
         /\ \A v \in Workers : v # w => CallInv(v)' /\ Held(v)' = Held(v)
         /\ \A j : Kid(j)' <=> Kid(j)
<1>1. ASSUME NEW v \in Workers, v # w
      PROVE  CallInv(v)' /\ Held(v)' = Held(v)
  <2>1. v = 0 => Main' = Main
    BY <1>1
  <2>2. QED
    BY <1>1, <2>1, OtherCall, OtherWorker DEF PoolInv, Types, Calls, fields
<1>2. ASSUME NEW v \in Workers
      PROVE  /\ Decides(v)' <=> Decides(v)
             /\ Releases(v)' <=> Releases(v)
             /\ \A k \in JobIds : Adopts(v, k)' <=> Adopts(v, k)
  <2>1. CASE v = w
    BY <2>1 DEF Calm, Decides, Releases, Adopts, At
  <2>2. CASE v # w
    BY <2>2, OtherWorker DEF Decides, At, fields
  <2>3. QED
    BY <2>1, <2>2
<1>3. RootAwaited' <=> RootAwaited
  <2>1. CASE w = 0
    BY <2>1 DEF Calm, RootAwaited
  <2>2. CASE w # 0
    BY <2>2, OtherWorker, Constants DEF RootAwaited
  <2>3. QED
    BY <2>1, <2>2
<1>4. RootInv'
  BY <1>2, <1>3, RootSame DEF PoolInv
<1>5. QED
  BY <1>1, <1>4, KidsSame

\* Only w's call changes.
LEMMA CallChanges ==
  ASSUME PoolInv, NEW w \in Workers, NEW c \in Calls,
         call' = [call EXCEPT ![w] = c], UNCHANGED stack
  PROVE  /\ StackInv' /\ call' \in [Workers -> Calls] /\ stack' \in [Workers -> Seq(Frames)]
         /\ Main' = Main /\ Root' = Root /\ NextOp' = NextOp /\ call'[w] = c
         /\ \A v \in Workers : v # w => stack'[v] = stack[v] /\ call'[v] = call[v]
         /\ \A v \in Workers : (Inside(v)' <=> Inside(v)) /\ Top(v)' = Top(v)
<1>1. Main' = Main /\ Root' = Root /\ NextOp' = NextOp
  BY DEF Main, Root, NextOp
<1>2. /\ call' \in [Workers -> Calls] /\ call'[w] = c
      /\ \A v \in Workers : v # w => stack'[v] = stack[v] /\ call'[v] = call[v]
      /\ stack' \in [Workers -> Seq(Frames)]
  BY DEF PoolInv, Types
<1>3. \A v \in Workers : (Inside(v)' <=> Inside(v)) /\ Top(v)' = Top(v)
  BY DEF Inside, Top
<1>4. StackInv'
  <2>1. Inside(0)' <=> Inside(0)
    BY <1>3, Constants
  <2>2. QED
    BY <1>1, <2>1 DEF PoolInv, StackInv
<1>5. QED
  BY <1>1, <1>2, <1>3, <1>4

-----------------------------------------------------------------------------
(* Steps that only go on to another place.                                 *)

ThreadTypes ==
  /\ option \in Setups /\ spawned \in 0 .. NumWorkers
  /\ stopping \in BOOLEAN /\ exited \in SUBSET Workers

LEMMA CalmCall ==
  ASSUME PoolInv, NEW w \in Workers, NEW c \in Calls, call' = [call EXCEPT ![w] = c],
         UNCHANGED <<fields, next, deque, stack>>, ThreadTypes',
         call[w].pc \in Calm, c.pc \in Calm, Held(w)' = Held(w), CallInv(w)'
  PROVE  PoolInv'
<1>1. /\ StackInv' /\ call' \in [Workers -> Calls] /\ stack' \in [Workers -> Seq(Frames)]
      /\ Main' = Main /\ Root' = Root /\ call'[w] = c
      /\ \A v \in Workers : v # w => stack'[v] = stack[v] /\ call'[v] = call[v]
  BY CallChanges
<1>2. /\ RootInv'
      /\ \A v \in Workers : v # w => CallInv(v)' /\ Held(v)' = Held(v)
  BY <1>1, CalmStep
<1>3. JobsInv'
  BY <1>1, <1>2, JobsSame DEF PoolInv
<1>4. Types'
  BY <1>1 DEF PoolInv, Types, ThreadTypes, fields
<1>5. QED
  BY <1>1, <1>2, <1>3, <1>4 DEF PoolInv

LEMMA ThreadsSame == PoolInv /\ UNCHANGED threads => ThreadTypes'
BY DEF PoolInv, Types, ThreadTypes, threads

LEMMA ScanNextKeeps ==
  ASSUME PoolInv, NEW w \in Workers, ScanNext(w)
  PROVE  PoolInv'
<1> DEFINE c == IF call[w].n + 1 < PoolSize THEN [call[w] EXCEPT !.n = call[w].n + 1]
                ELSE [call[w] EXCEPT !.pc = "full", !.n = 0]
<1>1. call[w] \in Calls /\ call[w].pc = "scan" /\ call[w].n \in Nat
  BY DEF PoolInv, Types, ScanNext, At, Calls
<1>2. c \in Calls /\ c.pc \in {"scan", "full"}
  <2>1. CASE call[w].n + 1 < PoolSize
    BY <1>1, <2>1 DEF Calls
  <2>2. CASE ~(call[w].n + 1 < PoolSize)
    BY <1>1, <2>2 DEF Calls, PCs
  <2>3. QED
    BY <2>1, <2>2
<1>3. call' = [call EXCEPT ![w] = c]
  BY <1>1 DEF ScanNext, PoolInv, Types
<1> HIDE DEF c
<1>4. (Inside(w)' <=> Inside(w)) /\ Main' = Main /\ NextOp' = NextOp /\ call'[w] = c
  BY <1>2, <1>3, CallChanges DEF ScanNext
<1>5. ~Inside(w) /\ CallInv(w)'
  BY <1>1, <1>2, <1>4 DEF PoolInv, CallInv
<1>6. Held(w)' = Held(w)
  BY <1>1, <1>2, <1>4, <1>5 DEF Held
<1>7. QED
  BY <1>1, <1>2, <1>3, <1>5, <1>6, CalmCall, ThreadsSame DEF ScanNext, Calm

LEMMA StealCountKeeps ==
  ASSUME PoolInv, NEW w \in Workers, StealCount(w)
  PROVE  PoolInv'
<1> DEFINE share == (2 * Len(deque[call[w].victim])) \div call[w].n
           c == [call[w] EXCEPT !.pc = "batch", !.n = IF share = 0 THEN 1 ELSE share]
<1>1. /\ call[w] \in Calls /\ call[w].pc = "count" /\ call[w].n \in Nat \ {0}
      /\ call[w].victim \in Workers /\ Len(deque[call[w].victim]) \in Nat
  <2>1. call[w] \in Calls /\ call[w].pc = "count"
    BY DEF PoolInv, Types, StealCount, At
  <2>2. call[w].n \in Nat \ {0} /\ call[w].victim \in Workers
    BY <2>1 DEF PoolInv, CallInv, Calls
  <2>3. QED
    BY <2>1, <2>2, LenProperties DEF PoolInv, Types
<1>2. share \in Nat
  <2>1. \A a \in Nat : \A b \in Nat \ {0} : (2 * a) \div b \in Nat
    OBVIOUS
  <2>2. QED
    BY <1>1, <2>1
<1>3. call' = [call EXCEPT ![w] = c]
  BY <1>1 DEF StealCount, PoolInv, Types
<1> HIDE DEF share
<1>4. c \in Calls /\ c.pc = "batch" /\ c.job = call[w].job /\ c.victim = call[w].victim
  BY <1>1, <1>2 DEF Calls, PCs
<1> HIDE DEF c
<1>5. (Inside(w)' <=> Inside(w)) /\ Main' = Main /\ NextOp' = NextOp /\ call'[w] = c
  BY <1>3, <1>4, CallChanges DEF StealCount
<1>6. CallInv(w)'
  BY <1>1, <1>4, <1>5 DEF PoolInv, CallInv
<1>7. Held(w)' = Held(w)
  BY <1>1, <1>4, <1>5 DEF Held
<1>8. QED
  BY <1>1, <1>3, <1>4, <1>6, <1>7, CalmCall, ThreadsSame DEF StealCount, Calm

\* Goto to another calm place, with nothing in hand before and after.
LEMMA GotoKeeps ==
  ASSUME PoolInv, NEW w \in Workers, NEW pc \in Calm, Goto(w, pc),
         UNCHANGED <<fields, next, deque, stack>>, ThreadTypes',
         call[w].pc \in {"run", "full"}, pc \notin {"push", "count", "batch"}, ~Inside(w),
         pc \in {"scan", "full", "wait", "join"} => w = 0 /\ Main.code # <<>>,
         pc \in {"scan", "full"} => NextOp \in AddOps,
         pc = "wait" => NextOp = "wait", pc = "join" => NextOp = "shutdown"
  PROVE  PoolInv'
<1> DEFINE c == [call[w] EXCEPT !.pc = pc]
<1>1. c \in Calls /\ c.pc = pc
  BY DEF PoolInv, Types, Calls, PCs, Calm
<1>2. call' = [call EXCEPT ![w] = c]
  BY DEF Goto, PoolInv, Types
<1> HIDE DEF c
<1>3. (Inside(w)' <=> Inside(w)) /\ Main' = Main /\ NextOp' = NextOp /\ call'[w] = c
  BY <1>1, <1>2, CallChanges
<1>4. CallInv(w)'
  BY <1>1, <1>3 DEF Calm, CallInv
<1>5. Held(w)' = Held(w)
  BY <1>1, <1>3 DEF Held, Calm
<1>6. QED
  BY <1>1, <1>2, <1>4, <1>5, CalmCall DEF Calm

LEMMA RescanKeeps ==
  ASSUME PoolInv, NEW w \in Workers, Rescan(w)
  PROVE  PoolInv'
<1>1. call[w].pc = "full" /\ w = 0 /\ ~Inside(w) /\ Main.code # <<>> /\ NextOp \in AddOps
  BY DEF Rescan, At, PoolInv, CallInv
<1>2. QED
  BY <1>1, GotoKeeps, ThreadsSame DEF Rescan, Calm

\* Whoever is at a call of a script is worker 0, outside of any job.
LEMMA AtOpFacts ==
  ASSUME PoolInv, NEW w \in Workers, NEW ops, AtOp(w, ops)
  PROVE  w = 0 /\ ~Inside(w) /\ Main.code # <<>> /\ NextOp \in ops
BY InsideFacts, OutsideFacts DEF PoolInv

LEMMA WaitKeeps ==
  ASSUME PoolInv, NEW w \in Workers, Wait(w)
  PROVE  PoolInv'
<1>1. call[w].pc = "run" /\ w = 0 /\ ~Inside(w) /\ Main.code # <<>> /\ NextOp = "wait"
  BY AtOpFacts DEF Wait, At
<1>2. QED
  BY <1>1, GotoKeeps, ThreadsSame DEF Wait, Calm

LEMMA ShutdownKeeps ==
  ASSUME PoolInv, Shutdown
  PROVE  PoolInv'
<1>1. /\ call[0].pc = "run" /\ 0 \in Workers /\ ~Inside(0) /\ Main.code # <<>>
      /\ NextOp = "shutdown"
  BY AtOpFacts, Constants DEF Shutdown, At
<1>2. ThreadTypes'
  BY DEF Shutdown, ThreadTypes, PoolInv, Types
<1>3. QED
  BY <1>1, <1>2, GotoKeeps DEF Shutdown, Calm

LEMMA ThreadExitKeeps ==
  ASSUME PoolInv, NEW w \in Workers, ThreadExit(w)
  PROVE  PoolInv'
<1>1. call[w].pc = "run" /\ w # 0 /\ stack[w] = <<>>
  BY DEF ThreadExit, At
<1>2. ~Inside(w)
  BY <1>1, InsideFacts DEF PoolInv
<1>3. ThreadTypes'
  BY DEF ThreadExit, ThreadTypes, PoolInv, Types
<1>4. call' = [call EXCEPT ![w] = call[w]] /\ call[w] \in Calls /\ call'[w] = call[w]
  BY DEF ThreadExit, PoolInv, Types
<1>5. (Inside(w)' <=> Inside(w)) /\ Held(w)' = Held(w) /\ CallInv(w)'
  <2>1. Inside(w)' <=> Inside(w)
    BY <1>4, CallChanges DEF ThreadExit
  <2>2. QED
    BY <1>1, <1>2, <1>4, <2>1 DEF Held, CallInv
<1>6. QED
  BY <1>1, <1>3, <1>4, <1>5, CalmCall DEF ThreadExit, Calm

LEMMA AddKeeps ==
  ASSUME PoolInv, NEW w \in Workers, Add(w)
  PROVE  PoolInv'
<1> DEFINE m == [Main EXCEPT !.first = next[0]]
           c == [Running EXCEPT !.pc = "scan"]
<1>1. w = 0 /\ call[w].pc = "run" /\ ~Inside(0) /\ Main.code # <<>> /\ NextOp \in AddOps
  BY AtOpFacts DEF Add, At
<1>2. /\ stack[0] = <<Main>> /\ Len(stack[0]) = 1
      /\ Main \in Frames /\ Main.job = NoJob /\ Orderly(Main.code, Root # NoJob)
  BY <1>1, OutsideFacts, Constants DEF PoolInv, StackInv
<1>3. /\ m \in Frames /\ m.job = NoJob /\ m.root = Root /\ m.code = Main.code
  BY <1>2, Constants DEF Frames, PoolInv, Types, Root
<1>4. stack' = [stack EXCEPT ![0] = <<m>>]
  <2>1. [stack[0] EXCEPT ![1] = m] = <<m>>
    BY <1>2
  <2>2. stack' = [stack EXCEPT ![0] = [stack[0] EXCEPT ![1] = m]]
    BY <1>1, <1>2 DEF Add, Main
  <2>3. QED
    BY <2>1, <2>2
<1>5. c \in Calls /\ call' = [call EXCEPT ![0] = c]
  BY <1>1, Constants DEF Add, Calls, Running, PCs, Maybe
<1> HIDE DEF m
<1>6. /\ stack' \in [Workers -> Seq(Frames)] /\ call' \in [Workers -> Calls]
      /\ stack'[0] = <<m>> /\ call'[0] = c
      /\ \A v \in Workers : v # 0 => stack'[v] = stack[v] /\ call'[v] = call[v]
  <2>1. <<m>> \in Seq(Frames)
    BY <1>3, Tuples
  <2>2. QED
    BY <2>1, <1>4, <1>5, Constants DEF PoolInv, Types
<1>7. Main' = m /\ Root' = Root /\ NextOp' = NextOp /\ Main'.code = Main.code
  BY <1>3, <1>6 DEF Main, Root, NextOp
<1>8. ~Inside(0)'
  BY <1>6, <1>3, Tuples DEF Inside
<1>9. StackInv'
  <2>1. ASSUME NEW v \in Workers
        PROVE  \/ stack'[v] = IF v = 0 THEN <<Main'>> ELSE <<>>
               \/ \E i \in JobIds : stack'[v] =
                    IF v = 0 THEN <<Main', Frame(i, <<>>)>> ELSE <<Frame(i, <<>>)>>
    <3>1. CASE v = 0
      BY <3>1, <1>6, <1>7
    <3>2. CASE v # 0
      <4>1. stack[v] = <<>> \/ \E i \in JobIds : stack[v] = <<Frame(i, <<>>)>>
        BY <3>2 DEF PoolInv, StackInv
      <4>2. stack'[v] = stack[v]
        BY <3>2, <1>6
      <4>3. QED
        BY <3>2, <4>1, <4>2
    <3>3. QED
      BY <3>1, <3>2
  <2>2. QED
    BY <2>1, <1>2, <1>3, <1>7, <1>8 DEF StackInv, Root
<1>10. /\ RootInv'
       /\ \A v \in Workers : v # 0 => CallInv(v)' /\ Held(v)' = Held(v)
  <2>1. call[0].pc \in Calm /\ call'[0].pc \in Calm /\ fields' = fields
    BY <1>1, <1>6 DEF Calm, Running, Add
  <2>2. QED
    BY <2>1, <1>6, <1>7, CalmStep, Constants
<1>11. CallInv(0)' /\ Held(0)' = Held(0)
  BY <1>1, <1>6, <1>7, <1>8 DEF CallInv, Held, Running
<1>12. JobsInv'
  <2>1. \A v \in Workers : Held(v)' = Held(v)
    BY <1>10, <1>11
  <2>2. QED
    BY <2>1, <1>7, JobsSame DEF PoolInv, Add
<1>13. Types'
  <2>1. spawned' \in 0 .. NumWorkers
    <3>1. \A n \in 0 .. NumWorkers : \A k \in {1, NumWorkers} : n < k => n + 1 \in 0 .. NumWorkers
      BY Constants
    <3>2. QED
      BY <3>1 DEF Add, PoolInv, Types
  <2>2. QED
    BY <2>1, <1>6 DEF PoolInv, Types, Add, fields
<1>14. QED
  BY <1>9, <1>10, <1>11, <1>12, <1>13 DEF PoolInv

-----------------------------------------------------------------------------
(* Jobs go from hand to hand.                                              *)

LEMMA TakenFromDeque ==
  ASSUME JobsInv, fields' = fields, Root' = Root,
         NEW w \in Workers, NEW v \in Workers, NEW e \in Range(deque[v]),
         Held(w) = NoJob, Held(w)' = e,
         \A x \in Workers : x # w => Held(x)' = Held(x),
         Range(deque'[v]) = Range(deque[v]) \ {e}, IsInjective(deque'[v]),
         \A x \in Workers : x # v => deque'[x] = deque[x]
  PROVE  JobsInv'
<1>0. (\A j : Kid(j)' <=> Kid(j)) /\ ttl' = ttl
  BY KidsSame DEF fields
<1>1. Kid(e) /\ e \in JobIds /\ e # NoJob
  BY Constants DEF JobsInv, Kid
<1>2. \A x \in Workers : Range(deque'[x]) \subseteq Range(deque[x])
                         /\ (x # v => Range(deque'[x]) = Range(deque[x]))
  OBVIOUS
<1>3. \A x \in Workers : \A j \in Range(deque'[x]) : Kid(j)'
  BY <1>0, <1>2 DEF JobsInv
<1>4. \A x \in Workers : (Held(x) # NoJob => Kid(Held(x)))'
  <2>1. \A x \in Workers : Held(x)' # NoJob => Kid(Held(x)')
    BY <1>1 DEF JobsInv
  <2>2. QED
    BY <2>1 DEF Kid, fields
<1>5. \A x \in Workers : IsInjective(deque'[x])
  BY DEF JobsInv
<1>6. \A x, y \in Workers : x # y => Range(deque'[x]) \cap Range(deque'[y]) = {}
  BY <1>2 DEF JobsInv
<1>7. \A x, y \in Workers : Held(x)' \notin Range(deque'[y])
  <2>1. \A y \in Workers : e \notin Range(deque'[y])
    BY <1>2 DEF JobsInv
  <2>2. QED
    BY <2>1, <1>2 DEF JobsInv
<1>8. \A x, y \in Workers : x # y /\ Held(x)' # NoJob => Held(x)' # Held(y)'
  BY DEF JobsInv
<1>9. \A j \in JobIds : ttl'[j] # 0 /\ j # Root' =>
        \E x \in Workers : j \in Range(deque'[x]) \/ Held(x)' = j
  <2>1. ASSUME NEW j \in JobIds, ttl[j] # 0, j # Root
        PROVE  \E x \in Workers : j \in Range(deque'[x]) \/ Held(x)' = j
    <3>1. PICK x \in Workers : j \in Range(deque[x]) \/ Held(x) = j
      BY <2>1 DEF JobsInv
    <3>2. j # NoJob
      BY Constants
    <3>3. CASE j = e
      BY <3>3
    <3>4. CASE j # e
      BY <3>1, <3>2, <3>4
    <3>5. QED
      BY <3>3, <3>4
  <2>2. QED
    BY <2>1, <1>0
<1> HIDE DEF fields
<1>10. QED
  BY <1>3, <1>4, <1>5, <1>6, <1>7, <1>8, <1>9 DEF JobsInv

LEMMA ShiftedBetweenDeques ==
  ASSUME JobsInv, fields' = fields, Root' = Root,
         NEW w \in Workers, NEW v \in Workers, w # v, NEW e \in Range(deque[v]),
         \A x \in Workers : Held(x)' = Held(x),
         Range(deque'[v]) = Range(deque[v]) \ {e}, IsInjective(deque'[v]),
         Range(deque'[w]) = Range(deque[w]) \cup {e}, IsInjective(deque'[w]),
         \A x \in Workers : x # v /\ x # w => deque'[x] = deque[x]
  PROVE  JobsInv'
<1>0. (\A j : Kid(j)' <=> Kid(j)) /\ ttl' = ttl
  BY KidsSame DEF fields
<1>1. Kid(e)
  BY DEF JobsInv
<1>2. \A x \in Workers : \A j \in Range(deque'[x]) : Kid(j)'
  <2>1. \A x \in Workers : \A j \in Range(deque'[x]) : j = e \/ j \in Range(deque[x])
    OBVIOUS
  <2>2. QED
    BY <2>1, <1>0, <1>1 DEF JobsInv
<1>3. \A x \in Workers : (Held(x) # NoJob => Kid(Held(x)))'
  <2>1. \A x \in Workers : Held(x)' # NoJob => Kid(Held(x)')
    BY DEF JobsInv
  <2>2. QED
    BY <2>1 DEF Kid, fields
<1>4. \A x \in Workers : IsInjective(deque'[x])
  BY DEF JobsInv
<1>5. \A x, y \in Workers : x # y => Range(deque'[x]) \cap Range(deque'[y]) = {}
  <2>1. \A x \in Workers : x # v => e \notin Range(deque[x])
    BY DEF JobsInv
  <2>2. \A x, y \in Workers : x # y => Range(deque[x]) \cap Range(deque[y]) = {}
    BY DEF JobsInv
  <2>3. \A x \in Workers : Range(deque'[x]) =
          IF x = v THEN Range(deque[x]) \ {e}
          ELSE IF x = w THEN Range(deque[x]) \cup {e} ELSE Range(deque[x])
    OBVIOUS
  <2>4. QED
    BY <2>1, <2>2, <2>3
<1>6. \A x, y \in Workers : Held(x)' \notin Range(deque'[y])
  BY DEF JobsInv
<1>7. \A x, y \in Workers : x # y /\ Held(x)' # NoJob => Held(x)' # Held(y)'
  BY DEF JobsInv
<1>8. \A j \in JobIds : ttl'[j] # 0 /\ j # Root' =>
        \E x \in Workers : j \in Range(deque'[x]) \/ Held(x)' = j
  <2>1. ASSUME NEW j \in JobIds, ttl[j] # 0, j # Root
        PROVE  \E x \in Workers : j \in Range(deque'[x]) \/ Held(x)' = j
    <3>1. PICK x \in Workers : j \in Range(deque[x]) \/ Held(x) = j
      BY <2>1 DEF JobsInv
    <3>2. CASE j = e
      BY <3>2
    <3>3. CASE j # e
      BY <3>1, <3>3
    <3>4. QED
      BY <3>2, <3>3
  <2>2. QED
    BY <2>1, <1>0
<1>9. QED
  BY <1>2, <1>3, <1>4, <1>5, <1>6, <1>7, <1>8 DEF JobsInv

LEMMA PutIntoDeque ==
  ASSUME JobsInv, fields' = fields, Root' = Root,
         NEW w \in Workers, Held(w) \in JobIds, Held(w)' = NoJob,
         \A x \in Workers : x # w => Held(x)' = Held(x),
         Range(deque'[w]) = Range(deque[w]) \cup {Held(w)}, IsInjective(deque'[w]),
         \A x \in Workers : x # w => deque'[x] = deque[x],
         \A x \in Workers : Range(deque'[x]) \subseteq JobIds
  PROVE  JobsInv'
<1> DEFINE e == Held(w)
<1>0. (\A j : Kid(j)' <=> Kid(j)) /\ ttl' = ttl
  BY KidsSame DEF fields
<1>1. Kid(e) /\ e # NoJob /\ NoJob \notin JobIds
  BY Constants DEF JobsInv
<1>2. \A x \in Workers : Range(deque'[x]) =
        IF x = w THEN Range(deque[x]) \cup {e} ELSE Range(deque[x])
  OBVIOUS
<1> HIDE DEF e
<1>3. \A x \in Workers : \A j \in Range(deque'[x]) : Kid(j)'
  BY <1>0, <1>1, <1>2 DEF JobsInv
<1>4. \A x \in Workers : Held(x)' # NoJob => x # w /\ Held(x)' = Held(x)
  OBVIOUS
<1>5. \A x \in Workers : (Held(x) # NoJob => Kid(Held(x)))'
  <2>1. \A x \in Workers : Held(x)' # NoJob => Kid(Held(x)')
    BY <1>4 DEF JobsInv
  <2>2. QED
    BY <2>1 DEF Kid, fields
<1>6. \A x \in Workers : IsInjective(deque'[x])
  BY DEF JobsInv
<1>7. \A x, y \in Workers : x # y => Range(deque'[x]) \cap Range(deque'[y]) = {}
  <2>1. \A x \in Workers : e \notin Range(deque[x])
    BY DEF JobsInv, e
  <2>2. \A x, y \in Workers : x # y => Range(deque[x]) \cap Range(deque[y]) = {}
    BY DEF JobsInv
  <2>3. QED
    BY <2>1, <2>2, <1>2, ZenonT(60)
<1>8. \A x, y \in Workers : Held(x)' \notin Range(deque'[y])
  <2>1. \A x \in Workers : x # w => Held(x) # e
    BY <1>1 DEF JobsInv, e
  <2>2. \A x, y \in Workers : Held(x)' # NoJob => Held(x)' \notin Range(deque'[y])
    BY <1>2, <1>4, <2>1 DEF JobsInv
  <2>3. QED
    BY <2>2, <1>1
<1>9. \A x, y \in Workers : x # y /\ Held(x)' # NoJob => Held(x)' # Held(y)'
  BY <1>4 DEF JobsInv
<1>10. \A j \in JobIds : ttl'[j] # 0 /\ j # Root' =>
        \E x \in Workers : j \in Range(deque'[x]) \/ Held(x)' = j
  <2>1. ASSUME NEW j \in JobIds, ttl[j] # 0, j # Root
        PROVE  \E x \in Workers : j \in Range(deque'[x]) \/ Held(x)' = j
    <3>1. PICK x \in Workers : j \in Range(deque[x]) \/ Held(x) = j
      BY <2>1 DEF JobsInv
    <3>2. CASE j = e
      BY <3>2, <1>2
    <3>3. CASE j # e
      BY <3>1, <3>3, <1>2 DEF e
    <3>4. QED
      BY <3>2, <3>3
  <2>2. QED
    BY <2>1, <1>0
<1>11. QED
  BY <1>3, <1>5, <1>6, <1>7, <1>8, <1>9, <1>10 DEF JobsInv

\* A job in a deque has nothing in its script.
LEMMA DequeFacts ==
  ASSUME PoolInv, NEW v \in Workers
  PROVE  /\ deque[v] \in Seq(JobIds) /\ IsInjective(deque[v])
         /\ Len(deque[v]) \in Nat /\ Range(deque[v]) \subseteq JobIds
         /\ \A j \in Range(deque[v]) : Kid(j) /\ Body[entry[j]] = <<>>
BY LenProperties, RangeOfSeq DEF PoolInv, Types, JobsInv, Kid

\* Where a worker looks for jobs.
LEMMA ExecutingFacts ==
  ASSUME PoolInv, NEW w \in Workers, Executing(w)
  PROVE  /\ call[w].pc \in {"run", "wait", "full"} /\ ~Inside(w) /\ Held(w) = NoJob
         /\ w = 0 => Main.code # <<>> /\ NextOp \in AddOps \cup {"wait"}
         /\ w < spawned
<1>1. CASE At(w, "run") /\ stack[w] = <<>>
  <2>1. ~Inside(w)
    BY <1>1, InsideFacts DEF PoolInv
  <2>2. w # 0
    BY <1>1, <2>1, OutsideFacts DEF PoolInv
  <2>3. QED
    BY <1>1, <2>1, <2>2 DEF At, Held, Executing, Started
<1>2. CASE At(w, "wait") \/ At(w, "full")
  <2>1. call[w].pc \in {"wait", "full"} /\ w = 0 /\ ~Inside(w) /\ Main.code # <<>>
        /\ NextOp \in AddOps \cup {"wait"}
    BY <1>2 DEF PoolInv, CallInv, At
  <2>2. QED
    BY <2>1 DEF Held, Executing, Started
<1>3. QED
  BY <1>1, <1>2 DEF Executing

LEMMA PopOwnKeeps ==
  ASSUME PoolInv, NEW w \in Workers, PopOwn(w)
  PROVE  PoolInv'
<1> DEFINE e == deque[w][Len(deque[w])]
           front == SubSeq(deque[w], 1, Len(deque[w]) - 1)
<1>1. /\ call[w].pc \in Calm /\ ~Inside(w) /\ Held(w) = NoJob
      /\ w = 0 => Main.code # <<>> /\ NextOp \in AddOps \cup {"wait"}
  BY ExecutingFacts DEF PopOwn, Calm
<1>2. /\ front \in Seq(JobIds) /\ e \in JobIds /\ e \in Range(deque[w])
      /\ Range(front) = Range(deque[w]) \ {e} /\ IsInjective(front)
  BY DequeFacts, RangeOfFront DEF PopOwn
<1>3. Enter(w, e) /\ deque' = [deque EXCEPT ![w] = front]
  BY DEF PopOwn
<1> HIDE DEF e, front
<1>4. Body[entry[e]] = <<>>
  BY <1>2, DequeFacts
<1>5. /\ StackInv' /\ Main' = Main /\ Inside(w)' /\ Top(w)'.job = e
      /\ stack' \in [Workers -> Seq(Frames)] /\ call' \in [Workers -> Calls]
      /\ call'[w] = Running
      /\ \A v \in Workers : v # w => stack'[v] = stack[v] /\ call'[v] = call[v]
  BY <1>1, <1>2, <1>3, <1>4, EnterFacts DEF PoolInv
<1>6. Root' = Root /\ call'[w].pc \in Calm /\ fields' = fields
  BY <1>5 DEF Root, Running, Calm, PopOwn
<1>7. /\ RootInv'
      /\ \A v \in Workers : v # w => CallInv(v)' /\ Held(v)' = Held(v)
  BY <1>1, <1>5, <1>6, CalmStep
<1>8. Held(w)' = e /\ CallInv(w)'
  BY <1>5 DEF Held, CallInv, Running
<1>9. /\ deque' \in [Workers -> Seq(JobIds)] /\ deque'[w] = front
      /\ \A x \in Workers : x # w => deque'[x] = deque[x]
  BY <1>2, <1>3 DEF PoolInv, Types
<1>10. JobsInv'
  BY <1>1, <1>2, <1>6, <1>7, <1>8, <1>9, TakenFromDeque DEF PoolInv
<1>11. Types'
  BY <1>5, <1>9 DEF PoolInv, Types, PopOwn, fields, threads
<1>12. QED
  BY <1>5, <1>7, <1>8, <1>10, <1>11 DEF PoolInv

LEMMA StealFirstKeeps ==
  ASSUME PoolInv, NEW w \in Workers, NEW v \in Workers, StealFirst(w, v)
  PROVE  PoolInv'
<1> DEFINE e == Head(deque[v])
           c == [pc |-> "count", job |-> e, n |-> spawned, victim |-> v]
<1>1. /\ call[w].pc \in Calm /\ ~Inside(w) /\ Held(w) = NoJob
      /\ w = 0 => Main.code # <<>> /\ NextOp \in AddOps \cup {"wait"}
  BY ExecutingFacts DEF StealFirst, Calm
<1>2. /\ Tail(deque[v]) \in Seq(JobIds) /\ e \in JobIds /\ e \in Range(deque[v])
      /\ Range(Tail(deque[v])) = Range(deque[v]) \ {e} /\ IsInjective(Tail(deque[v]))
  BY DequeFacts, RangeOfTail DEF StealFirst
<1>3. spawned \in Nat \ {0}
  <2>1. v \in Nat /\ v < spawned /\ spawned \in Nat
    BY Constants DEF StealFirst, PoolInv, Types, Workers
  <2>2. QED
    BY <2>1
<1>4. c \in Calls /\ call' = [call EXCEPT ![w] = c]
  BY <1>2, <1>3 DEF StealFirst, Calls, PCs, Maybe
<1>5. deque' = [deque EXCEPT ![v] = Tail(deque[v])]
  BY DEF StealFirst
<1>6. c.pc = "count" /\ c.job = e /\ c.n # 0 /\ c.victim # w
  BY <1>3 DEF StealFirst
<1> HIDE DEF e, c
<1>7. /\ StackInv' /\ call' \in [Workers -> Calls] /\ stack' \in [Workers -> Seq(Frames)]
      /\ Main' = Main /\ Root' = Root /\ NextOp' = NextOp /\ call'[w] = c
      /\ \A x \in Workers : x # w => stack'[x] = stack[x] /\ call'[x] = call[x]
      /\ Inside(w)' <=> Inside(w)
  BY <1>4, CallChanges DEF StealFirst
<1>8. call'[w].pc \in Calm /\ fields' = fields
  BY <1>6, <1>7 DEF Calm, StealFirst
<1>9. /\ RootInv'
      /\ \A x \in Workers : x # w => CallInv(x)' /\ Held(x)' = Held(x)
  BY <1>1, <1>7, <1>8, CalmStep
<1>10. Held(w)' = e
  BY <1>6, <1>7 DEF Held
<1>11. CallInv(w)'
  <2>1. e # NoJob
    BY <1>2, Constants
  <2>2. QED
    BY <1>1, <1>6, <1>7, <2>1 DEF CallInv
<1>12. /\ deque' \in [Workers -> Seq(JobIds)] /\ deque'[v] = Tail(deque[v])
       /\ \A x \in Workers : x # v => deque'[x] = deque[x]
  BY <1>2, <1>5 DEF PoolInv, Types
<1>13. JobsInv'
  BY <1>1, <1>2, <1>7, <1>8, <1>9, <1>10, <1>12, TakenFromDeque DEF PoolInv
<1>14. Types'
  BY <1>7, <1>12 DEF PoolInv, Types, StealFirst, fields, threads
<1>15. QED
  BY <1>7, <1>9, <1>11, <1>13, <1>14 DEF PoolInv

LEMMA StealMoreKeeps ==
  ASSUME PoolInv, NEW w \in Workers, StealMore(w)
  PROVE  PoolInv'
<1> DEFINE v == call[w].victim
           e == Head(deque[v])
           c == [call[w] EXCEPT !.n = call[w].n - 1]
<1>1. /\ call[w] \in Calls /\ call[w].pc = "batch" /\ call[w].n \in Nat /\ call[w].n > 0
      /\ v \in Workers /\ v # w /\ ~Inside(w) /\ deque[v] # <<>>
  BY DEF StealMore, At, PoolInv, Types, Calls, CallInv
<1>2. /\ Tail(deque[v]) \in Seq(JobIds) /\ e \in JobIds /\ e \in Range(deque[v])
      /\ Range(Tail(deque[v])) = Range(deque[v]) \ {e} /\ IsInjective(Tail(deque[v]))
  BY <1>1, DequeFacts, RangeOfTail
<1>3. /\ Append(deque[w], e) \in Seq(JobIds)
      /\ Range(Append(deque[w], e)) = Range(deque[w]) \cup {e}
      /\ IsInjective(Append(deque[w], e))
  <2>1. e \notin Range(deque[w])
    BY <1>1, <1>2 DEF PoolInv, JobsInv
  <2>2. QED
    BY <1>2, <2>1, DequeFacts, RangeOfAppend
<1>4. c \in Calls /\ call' = [call EXCEPT ![w] = c]
  <2>1. call[w].n - 1 \in Nat
    BY <1>1
  <2>2. c \in Calls
    BY <1>1, <2>1 DEF Calls
  <2>3. call' = [call EXCEPT ![w] = c]
    BY DEF StealMore
  <2>4. QED
    BY <2>2, <2>3
<1>5. deque' = [deque EXCEPT ![v] = Tail(deque[v]), ![w] = Append(deque[w], e)]
  BY <1>1 DEF StealMore, PoolInv, Types
<1>6. c.pc = "batch" /\ c.job = call[w].job /\ c.victim = v
  BY <1>1 DEF Calls
<1> HIDE DEF e, c, v
<1>7. /\ StackInv' /\ call' \in [Workers -> Calls] /\ stack' \in [Workers -> Seq(Frames)]
      /\ Main' = Main /\ Root' = Root /\ NextOp' = NextOp /\ call'[w] = c
      /\ \A x \in Workers : x # w => stack'[x] = stack[x] /\ call'[x] = call[x]
      /\ Inside(w)' <=> Inside(w)
  BY <1>4, CallChanges DEF StealMore
<1>8. call[w].pc \in Calm /\ call'[w].pc \in Calm /\ fields' = fields
  BY <1>1, <1>6, <1>7 DEF Calm, StealMore
<1>9. /\ RootInv'
      /\ \A x \in Workers : x # w => CallInv(x)' /\ Held(x)' = Held(x)
  BY <1>7, <1>8, CalmStep
<1>10. Held(w)' = Held(w)
  BY <1>1, <1>6, <1>7 DEF Held
<1>11. CallInv(w)'
  BY <1>1, <1>6, <1>7 DEF PoolInv, CallInv
<1>12. /\ deque' \in [Workers -> Seq(JobIds)] /\ deque'[v] = Tail(deque[v])
       /\ deque'[w] = Append(deque[w], e)
       /\ \A x \in Workers : x # v /\ x # w => deque'[x] = deque[x]
  BY <1>1, <1>2, <1>3, <1>5 DEF PoolInv, Types
<1>13. JobsInv'
  <2>1. \A x \in Workers : Held(x)' = Held(x)
    BY <1>9, <1>10
  <2>2. /\ Range(deque'[v]) = Range(deque[v]) \ {e} /\ IsInjective(deque'[v])
        /\ Range(deque'[w]) = Range(deque[w]) \cup {e} /\ IsInjective(deque'[w])
    BY <1>2, <1>3, <1>12
  <2>3. JobsInv /\ fields' = fields /\ Root' = Root /\ v \in Workers /\ w # v /\ e \in Range(deque[v])
    BY <1>1, <1>2, <1>7, <1>8 DEF PoolInv
  <2>4. \A x \in Workers : x # v /\ x # w => deque'[x] = deque[x]
    BY <1>12
  <2> HIDE DEF fields
  <2>5. QED
    BY <2>1, <2>2, <2>3, <2>4, ShiftedBetweenDeques
<1>14. Types'
  BY <1>7, <1>12 DEF PoolInv, Types, StealMore, fields, threads
<1>15. QED
  BY <1>7, <1>9, <1>11, <1>13, <1>14 DEF PoolInv

LEMMA StealDoneKeeps ==
  ASSUME PoolInv, NEW w \in Workers, StealDone(w)
  PROVE  PoolInv'
<1> DEFINE e == call[w].job
<1>1. /\ call[w].pc = "batch" /\ ~Inside(w) /\ e # NoJob /\ Held(w) = e
      /\ w = 0 => Main.code # <<>> /\ NextOp \in AddOps \cup {"wait"}
  BY DEF StealDone, At, PoolInv, CallInv, Held
<1>2. e \in JobIds /\ Body[entry[e]] = <<>>
  BY <1>1 DEF PoolInv, JobsInv, Kid
<1>3. Enter(w, e)
  BY DEF StealDone
<1> HIDE DEF e
<1>4. /\ StackInv' /\ Main' = Main /\ Inside(w)' /\ Top(w)'.job = e
      /\ stack' \in [Workers -> Seq(Frames)] /\ call' \in [Workers -> Calls]
      /\ call'[w] = Running
      /\ \A v \in Workers : v # w => stack'[v] = stack[v] /\ call'[v] = call[v]
  BY <1>1, <1>2, <1>3, EnterFacts DEF PoolInv
<1>5. Root' = Root /\ call[w].pc \in Calm /\ call'[w].pc \in Calm /\ fields' = fields
  BY <1>1, <1>4 DEF Root, Running, Calm, StealDone
<1>6. /\ RootInv'
      /\ \A v \in Workers : v # w => CallInv(v)' /\ Held(v)' = Held(v)
  BY <1>4, <1>5, CalmStep
<1>7. Held(w)' = e /\ CallInv(w)'
  BY <1>4 DEF Held, CallInv, Running
<1>8. JobsInv'
  <2>1. \A v \in Workers : Held(v)' = Held(v)
    BY <1>1, <1>6, <1>7
  <2>2. QED
    BY <2>1, <1>5, JobsSame DEF PoolInv, StealDone
<1>9. Types'
  BY <1>4 DEF PoolInv, Types, StealDone, fields, threads
<1>10. QED
  BY <1>4, <1>6, <1>7, <1>8, <1>9 DEF PoolInv

LEMMA PushKeeps ==
  ASSUME PoolInv, NEW w \in Workers, Push(w)
  PROVE  PoolInv'
<1> DEFINE e == call[0].job
<1>1. /\ w = 0 /\ 0 \in Workers /\ call[0].pc = "push" /\ ~Inside(0) /\ Main.code # <<>>
      /\ NextOp = "child" /\ e # NoJob /\ Held(0) = e
  BY Constants DEF Push, At, PoolInv, CallInv, Held
<1>2. Root # NoJob /\ Root \in Maybe /\ Top(0) = Main /\ ~AtOp(0, {"root"})
  <2>1. Root # NoJob
    BY <1>1, NextFacts DEF PoolInv
  <2>2. Root \in Maybe
    BY DEF PoolInv, StackInv, Frames, Root
  <2>3. Top(0) = Main /\ ~AtOp(0, {"root"})
    BY <1>1, OutsideFacts DEF PoolInv
  <2>4. QED
    BY <2>1, <2>2, <2>3
<1>3. Return(0, Root)
  BY <1>1, <1>2 DEF Push, Root
<1>4. /\ Append(deque[0], e) \in Seq(JobIds)
      /\ Range(Append(deque[0], e)) = Range(deque[0]) \cup {e}
      /\ IsInjective(Append(deque[0], e))
      /\ e \in JobIds
  <2>1. e \in JobIds /\ e \notin Range(deque[0])
    BY <1>1 DEF PoolInv, JobsInv, Kid
  <2>2. QED
    BY <1>1, <2>1, DequeFacts, RangeOfAppend
<1>5. deque' = [deque EXCEPT ![0] = Append(deque[0], e)]
  BY <1>1 DEF Push, PoolInv, Types
<1> HIDE DEF e
<1>6. /\ StackInv' /\ Root' = Root /\ ~Inside(0)'
      /\ stack' \in [Workers -> Seq(Frames)] /\ call' \in [Workers -> Calls]
      /\ call'[0] = Running
      /\ \A v \in Workers : v # 0 => stack'[v] = stack[v] /\ call'[v] = call[v]
  BY <1>1, <1>2, <1>3, ReturnFacts DEF PoolInv
<1>7. call[0].pc \in Calm /\ call'[0].pc \in Calm /\ fields' = fields
  BY <1>1, <1>6 DEF Running, Calm, Push
<1>8. /\ RootInv'
      /\ \A v \in Workers : v # 0 => CallInv(v)' /\ Held(v)' = Held(v)
  BY <1>1, <1>6, <1>7, CalmStep
<1>9. Held(0)' = NoJob /\ CallInv(0)'
  BY <1>6 DEF Held, CallInv, Running
<1>10. /\ deque' \in [Workers -> Seq(JobIds)] /\ deque'[0] = Append(deque[0], e)
       /\ \A x \in Workers : x # 0 => deque'[x] = deque[x]
  BY <1>1, <1>4, <1>5 DEF PoolInv, Types
<1>11. JobsInv'
  <2>1. \A x \in Workers : Range(deque'[x]) \subseteq JobIds
    BY <1>10, RangeOfSeq
  <2>2. QED
    BY <1>1, <1>4, <1>6, <1>7, <1>8, <1>9, <1>10, <2>1, PutIntoDeque DEF PoolInv
<1>12. Types'
  BY <1>6, <1>10 DEF PoolInv, Types, Push, fields, threads
<1>13. CallInv(0)' /\ \A v \in Workers : CallInv(v)'
  BY <1>8, <1>9
<1>14. QED
  BY <1>6, <1>8, <1>11, <1>12, <1>13 DEF PoolInv

-----------------------------------------------------------------------------
(* The ttl of the root.                                                    *)

\* What the invariant says of the root.
LEMMA RootFacts ==
  ASSUME PoolInv, Root # NoJob
  PROVE  /\ Root \in JobIds /\ parent[Root] = NoJob /\ ancestor[Root] = Root
         /\ ttl[Root] \in Nat
         /\ ttl[Root] = RootCount + IF RootAwaited THEN 1 ELSE 0
<1>1. Root \in JobIds
  BY DEF PoolInv, StackInv, Frames, Maybe, Root
<1>2. QED
  BY <1>1, OwedToRoot DEF PoolInv, RootInv, Types

\* Without a root there is nothing to do.
LEMMA NothingWithoutRoot ==
  ASSUME PoolInv, Root = NoJob
  PROVE  /\ \A j \in JobIds : ttl[j] = 0
         /\ \A v \in Workers : Held(v) = NoJob /\ Range(deque[v]) = {}
         /\ \A v \in Workers :
              /\ call[v].pc \notin {"adopt", "push", "count", "batch", "release"}
              /\ call[v].pc = "run" => ~Inside(v)
              /\ call[v].pc = "climb" => Inside(v) /\ call[v].n # 1
<1>1. \A j : ~Kid(j)
  BY DEF Kid
<1>2. \A v \in Workers : Held(v) = NoJob /\ Range(deque[v]) = {}
  BY <1>1 DEF PoolInv, JobsInv
<1>3. \A j \in JobIds : ttl[j] = 0
  <2>1. ASSUME NEW j \in JobIds, ttl[j] # 0 PROVE FALSE
    <3>1. j # Root /\ j # NoJob
      BY Constants
    <3>2. \E v \in Workers : j \in Range(deque[v]) \/ Held(v) = j
      BY <2>1, <3>1 DEF PoolInv, JobsInv
    <3>3. QED
      BY <1>2, <3>1, <3>2
  <2>2. QED
    BY <2>1
<1>4. ASSUME NEW v \in Workers
      PROVE  /\ call[v].pc \notin {"adopt", "push", "count", "batch", "release"}
             /\ call[v].pc = "run" => ~Inside(v)
             /\ call[v].pc = "climb" => Inside(v) /\ call[v].n # 1
  <2>1. CallInv(v) /\ Held(v) = NoJob
    BY <1>2 DEF PoolInv
  <2>2. Main.code # <<>> => NextOp # "wait"
    BY NextFacts DEF PoolInv
  <2>3. call[v].pc = "run" => ~Inside(v)
    BY <2>1, InsideFacts, Constants DEF PoolInv, Held
  <2>4. call[v].pc \notin {"adopt", "push", "count", "batch"}
    BY <2>1 DEF Held, CallInv
  <2>5. call[v].pc \in {"release", "climb"} => Inside(v)
    BY <2>1, <2>2 DEF CallInv
  <2>6. call[v].pc # "release"
    BY <2>1, <2>5 DEF Held, CallInv
  <2>7. call[v].pc = "climb" => call[v].n # 1
    BY <2>1, <2>5 DEF CallInv
  <2>8. QED
    BY <2>3, <2>4, <2>5, <2>6, <2>7
<1>5. QED
  BY <1>2, <1>3, <1>4

\* The job of an entry that has returned is released first.
LEMMA FinishKeeps ==
  ASSUME PoolInv, NEW w \in Workers, Finish(w)
  PROVE  PoolInv'
<1> DEFINE e == Top(w).job
           c == [Running EXCEPT !.pc = "release", !.job = e]
<1>1. call[w].pc = "run" /\ Inside(w)
  <2>1. ~Inside(w) => w = 0 /\ Top(w) = Main /\ Main.job = NoJob
    BY OutsideFacts DEF Finish, PoolInv, StackInv
  <2>2. QED
    BY <2>1 DEF Finish, At
<1>2. Held(w) = e /\ e \in JobIds /\ e # Root /\ e # NoJob
  <2>1. Held(w) = e /\ e # NoJob
    BY <1>1 DEF Held, Finish
  <2>2. QED
    BY <2>1 DEF PoolInv, JobsInv, Kid
<1>3. c \in Calls /\ call' = [call EXCEPT ![w] = c]
  BY <1>2, Constants DEF Finish, Calls, Running, PCs, Maybe
<1>4. c.pc = "release" /\ c.job = e
  BY DEF Running
<1> HIDE DEF e, c
<1>5. /\ StackInv' /\ call' \in [Workers -> Calls] /\ stack' \in [Workers -> Seq(Frames)]
      /\ Main' = Main /\ Root' = Root /\ NextOp' = NextOp /\ call'[w] = c
      /\ \A x \in Workers : x # w => stack'[x] = stack[x] /\ call'[x] = call[x]
      /\ Inside(w)' <=> Inside(w)
  BY <1>3, CallChanges DEF Finish
<1>6. fields' = fields /\ parent' = parent /\ ttl' = ttl
  BY DEF Finish, fields
<1>7. \A x \in Workers : CallInv(x)'
  <2>1. CallInv(w)'
    BY <1>1, <1>2, <1>4, <1>5 DEF CallInv
  <2>2. \A x \in Workers : x # w => CallInv(x)'
    BY <1>5, <1>6, OtherCall DEF PoolInv, Types, Calls
  <2>3. QED
    BY <2>1, <2>2
<1>8. \A x \in Workers : Held(x)' = Held(x)
  <2>1. Held(w)' = Held(w)
    BY <1>1, <1>2, <1>4, <1>5 DEF Held
  <2>2. QED
    BY <2>1, <1>5, OtherWorker
<1>9. JobsInv'
  BY <1>5, <1>6, <1>8, JobsSame DEF PoolInv, Finish
<1>10. RootInv'
  <2>1. ASSUME NEW x \in Workers
        PROVE  /\ Decides(x)' <=> Decides(x)
               /\ Releases(x)' <=> Releases(x)
               /\ \A k \in JobIds : Adopts(x, k)' <=> Adopts(x, k)
    <3>1. CASE x = w
      BY <3>1, <1>1, <1>2, <1>4, <1>5 DEF Decides, Releases, Adopts, At
    <3>2. CASE x # w
      BY <3>2, <1>5, <1>6, OtherWorker DEF Decides, At
    <3>3. QED
      BY <3>1, <3>2
  <2>2. RootAwaited' <=> RootAwaited
    <3>1. CASE w = 0
      BY <3>1, <1>1, <1>5 DEF RootAwaited
    <3>2. CASE w # 0
      BY <3>2, <1>5, OtherWorker, Constants DEF RootAwaited
    <3>3. QED
      BY <3>1, <3>2
  <2>3. QED
    BY <2>1, <2>2, <1>5, <1>6, RootSame DEF PoolInv
<1>11. Types'
  BY <1>5 DEF PoolInv, Types, Finish, fields, threads
<1>12. QED
  BY <1>5, <1>7, <1>9, <1>10, <1>11 DEF PoolInv

LEMMA WaitOverKeeps ==
  ASSUME PoolInv, NEW w \in Workers, WaitOver(w)
  PROVE  PoolInv'
<1> DEFINE c == [Running EXCEPT !.pc = "release", !.job = Root]
<1>1. /\ w = 0 /\ 0 \in Workers /\ call[0].pc = "wait" /\ ~Inside(0) /\ Main.code # <<>>
      /\ NextOp = "wait"
  BY Constants DEF WaitOver, At, PoolInv, CallInv
<1>2. Root # NoJob /\ Root \in JobIds /\ Top(0) = Main /\ ttl[Root] = 1
  <2>1. Root # NoJob /\ Top(0) = Main
    BY <1>1, NextFacts, OutsideFacts DEF PoolInv
  <2>2. QED
    BY <2>1, <1>1, RootFacts DEF WaitOver, Root
<1>3. c \in Calls /\ call' = [call EXCEPT ![0] = c]
  BY <1>1, <1>2, Constants DEF WaitOver, Calls, Running, PCs, Maybe, Root
<1>4. c.pc = "release" /\ c.job = Root
  BY DEF Running
<1> HIDE DEF c
<1>5. /\ StackInv' /\ call' \in [Workers -> Calls] /\ stack' \in [Workers -> Seq(Frames)]
      /\ Main' = Main /\ Root' = Root /\ NextOp' = NextOp /\ call'[0] = c
      /\ \A x \in Workers : x # 0 => stack'[x] = stack[x] /\ call'[x] = call[x]
      /\ Inside(0)' <=> Inside(0)
  BY <1>1, <1>3, CallChanges DEF WaitOver
<1>6. fields' = fields /\ parent' = parent /\ ttl' = ttl /\ ancestor' = ancestor
  BY DEF WaitOver, fields
<1>7. \A x \in Workers : CallInv(x)'
  <2>1. CallInv(0)'
    BY <1>1, <1>2, <1>4, <1>5, <1>6 DEF CallInv
  <2>2. \A x \in Workers : x # 0 => CallInv(x)'
    BY <1>5, <1>6, OtherCall DEF PoolInv, Types, Calls
  <2>3. QED
    BY <2>1, <2>2
<1>8. JobsInv'
  <2>1. Held(0)' = Held(0)
    BY <1>1, <1>4, <1>5 DEF Held
  <2>2. \A x \in Workers : Held(x)' = Held(x)
    BY <2>1, <1>5, OtherWorker
  <2>3. QED
    BY <2>2, <1>5, <1>6, JobsSame DEF PoolInv, WaitOver
<1>9. RootInv'
  <2>1. ttl[Root] = RootCount + 1
    BY <1>1, <1>2, RootFacts DEF RootAwaited
  <2>2. Living' = Living
    <3>1. \A x \in Workers : \A k : Adopts(x, k)' <=> Adopts(x, k)
      <4>1. \A k : Adopts(0, k)' <=> Adopts(0, k)
        BY <1>1, <1>4, <1>5 DEF Adopts, At
      <4>2. QED
        BY <4>1, <1>5, OtherWorker
    <3>2. QED
      BY <3>1, <1>5, <1>6 DEF Living
  <2>3. Deciding' = Deciding
    <3>1. Decides(0)' <=> Decides(0)
      BY <1>1, <1>4, <1>5 DEF Decides, At
    <3>2. \A x \in Workers : x # 0 => (Decides(x)' <=> Decides(x))
      BY <1>5, <1>6 DEF Decides, At
    <3>3. QED
      BY <3>1, <3>2 DEF Deciding
  <2>4. Releasing' = Releasing \cup {0} /\ 0 \notin Releasing
    <3>1. ~Releases(0) /\ Releases(0)'
      BY <1>1, <1>4, <1>5 DEF Releases, At
    <3>2. \A x \in Workers : x # 0 => (Releases(x)' <=> Releases(x))
      BY <1>5, OtherWorker
    <3>3. QED
      BY <1>1, <3>1, <3>2 DEF Releasing
  <2>5. Cardinality(Releasing') = Cardinality(Releasing) + 1
    BY <2>4, OneMore, OwedToRoot
  <2>6. RootCount' = RootCount + 1
    BY <2>2, <2>3, <2>5, OwedToRoot DEF RootCount
  <2>7. ~RootAwaited'
    BY <1>1, <1>4, <1>5 DEF RootAwaited
  <2>8. ttl'[Root] = Owed(Root)'
    <3>1. RootCount \in Nat
      BY OwedToRoot DEF RootCount
    <3>2. QED
      BY <2>1, <2>6, <3>1, <1>6, OwedToRoot
  <2>9. Owed(Root)' \in Nat
    <3>1. RootCount \in Nat
      BY OwedToRoot DEF RootCount
    <3>2. QED
      BY <3>1, <2>6, OwedToRoot
  <2>10. QED
    BY <2>7, <2>8, <2>9, <1>2, <1>5, <1>6, RootFacts DEF RootInv
<1>10. Types'
  BY <1>5 DEF PoolInv, Types, WaitOver, fields, threads
<1>11. QED
  BY <1>5, <1>7, <1>8, <1>9, <1>10 DEF PoolInv

-----------------------------------------------------------------------------
(* allocate_job.                                                           *)

\* The slot that is looked at, when it is free.
LEMMA CandidateFacts ==
  ASSUME PoolInv, NEW w \in Workers, At(w, "scan")
  PROVE  /\ w = 0 /\ 0 \in Workers /\ ~Inside(0) /\ Main.code # <<>> /\ NextOp \in AddOps
         /\ Top(0) = Main /\ Candidate(0) \in JobIds
         /\ RootAwaited /\ Held(0) = NoJob
<1>1. /\ w = 0 /\ 0 \in Workers /\ ~Inside(0) /\ Main.code # <<>> /\ NextOp \in AddOps
      /\ call[0].pc = "scan"
  BY Constants DEF At, PoolInv, CallInv
<1>2. Top(0) = Main
  BY <1>1, OutsideFacts DEF PoolInv
<1>3. PoolSize \in Nat \ {0} /\ PoolSize <= MaxPoolSize /\ MaxPoolSize \in Nat
  BY SetupsAssumption, PoolAssumption DEF PoolInv, Types, PoolSize
<1>4. Main.first \in Nat /\ call[0].n \in Nat
  BY <1>1 DEF PoolInv, StackInv, Types, Frames, Calls
<1>5. (Top(0).first + call[0].n) % PoolSize \in Slots
  <2>1. \A a \in Nat : \A p \in Nat \ {0} : a % p \in 0 .. p - 1
    OBVIOUS
  <2>2. (Main.first + call[0].n) % PoolSize \in 0 .. PoolSize - 1
    BY <2>1, <1>3, <1>4
  <2>3. \A i \in 0 .. PoolSize - 1 : i \in 0 .. MaxPoolSize - 1
    BY <1>3
  <2>4. QED
    BY <2>2, <2>3, <1>2 DEF Slots
<1>6. Candidate(0) \in JobIds
  BY <1>1, <1>5 DEF Candidate, JobIds
<1>7. RootAwaited /\ Held(0) = NoJob
  BY <1>1 DEF RootAwaited, Held
<1>8. QED
  BY <1>1, <1>2, <1>6, <1>7

ClaimChild ==
  LET j == Candidate(0)
  IN  /\ NextOp = "child" /\ ttl[j] = 0
      /\ next' = [next EXCEPT ![0] = (@ + 1) % PoolSize]
      /\ parent' = [parent EXCEPT ![j] = Root]
      /\ ttl' = [ttl EXCEPT ![j] = 1]
      /\ ancestor' = [ancestor EXCEPT ![j] = ancestor[Root]]
      /\ entry' = [entry EXCEPT ![j] = Head(Main.code).entry]
      /\ call' = [call EXCEPT ![0] = [Running EXCEPT !.pc = "adopt", !.job = j]]
      /\ UNCHANGED <<stack, deque, threads>>

ClaimEmpty ==
  LET j == Candidate(0)
  IN  /\ NextOp = "empty" /\ ttl[j] = 0
      /\ next' = [next EXCEPT ![0] = (@ + 1) % PoolSize]
      /\ parent' = [parent EXCEPT ![j] = NoJob]
      /\ ttl' = [ttl EXCEPT ![j] = 1]
      /\ ancestor' = [ancestor EXCEPT ![j] = j]
      /\ Return(0, j)
      /\ UNCHANGED <<entry, deque, threads>>

LEMMA ClaimCases ==
  ASSUME PoolInv, NEW w \in Workers, Claim(w)
  PROVE  At(0, "scan") /\ w = 0 /\ (ClaimChild \/ ClaimEmpty)
<1>1. At(w, "scan") /\ w = 0 /\ Top(0) = Main /\ Main.code # <<>>
  BY CandidateFacts DEF Claim
<1>2. NextOp # "root"
  BY <1>1, NextFacts DEF PoolInv
<1>3. CASE NextOp = "child"
  <2>1. ParentOfChild(0) = Root
    <3>1. Root # NoJob
      BY <1>1, <1>3, NextFacts DEF PoolInv
    <3>2. QED
      BY <3>1, <1>1 DEF ParentOfChild, Root
  <2>2. ClaimChild
    BY <1>1, <1>3, <2>1 DEF Claim, ClaimChild, NextOp
  <2>3. QED
    BY <1>1, <2>2
<1>4. CASE NextOp = "empty"
  BY <1>1, <1>4 DEF Claim, ClaimEmpty, NextOp
<1>5. QED
  BY <1>1, <1>2, <1>3, <1>4 DEF Claim, NextOp

LEMMA NextType ==
  ASSUME PoolInv, next' = [next EXCEPT ![0] = (@ + 1) % PoolSize]
  PROVE  next' \in [Workers -> Nat]
<1>1. PoolSize \in Nat \ {0}
  BY SetupsAssumption DEF PoolInv, Types, PoolSize
<1>2. \A a \in Nat : \A p \in Nat \ {0} : (a + 1) % p \in Nat
  OBVIOUS
<1>3. next \in [Workers -> Nat]
  BY DEF PoolInv, Types
<1>4. (next[0] + 1) % PoolSize \in Nat
  BY <1>1, <1>2, <1>3, Constants
<1>5. QED
  BY <1>3, <1>4

LEMMA ClaimChildKeeps ==
  ASSUME PoolInv, At(0, "scan"), ClaimChild
  PROVE  PoolInv'
<1> DEFINE j == Candidate(0)
           c == [Running EXCEPT !.pc = "adopt", !.job = j]
<1>1. /\ 0 \in Workers /\ ~Inside(0) /\ Main.code # <<>> /\ NextOp = "child"
      /\ j \in JobIds /\ j # NoJob /\ RootAwaited /\ Held(0) = NoJob /\ call[0].pc = "scan"
      /\ ttl[j] = 0
  BY CandidateFacts, Constants DEF ClaimChild, At
<1>2. /\ Root # NoJob /\ Root \in JobIds /\ parent[Root] = NoJob /\ ancestor[Root] = Root
      /\ Head(Main.code).entry \in Entries /\ Body[Head(Main.code).entry] = <<>>
  BY <1>1, NextFacts, RootFacts DEF PoolInv
<1>3. ttl[Root] = RootCount + 1 /\ RootCount \in Nat /\ ttl[Root] # 0 /\ j # Root
  <2>1. ttl[Root] = RootCount + 1 /\ RootCount \in Nat
    BY <1>1, <1>2, RootFacts, OwedToRoot DEF RootCount
  <2>2. ttl[Root] # 0
    BY <2>1
  <2>3. QED
    BY <2>1, <2>2, <1>1
<1>4. c \in Calls /\ call' = [call EXCEPT ![0] = c]
  BY <1>1, Constants DEF ClaimChild, Calls, Running, PCs, Maybe
<1>5. c.pc = "adopt" /\ c.job = j
  BY DEF Running
<1>6. /\ parent' = [parent EXCEPT ![j] = Root] /\ ttl' = [ttl EXCEPT ![j] = 1]
      /\ ancestor' = [ancestor EXCEPT ![j] = Root]
      /\ entry' = [entry EXCEPT ![j] = Head(Main.code).entry]
      /\ stack' = stack /\ deque' = deque
  BY <1>2 DEF ClaimChild
<1> HIDE DEF j, c
<1>7. /\ StackInv' /\ call' \in [Workers -> Calls] /\ stack' \in [Workers -> Seq(Frames)]
      /\ Main' = Main /\ Root' = Root /\ NextOp' = NextOp /\ call'[0] = c
      /\ \A x \in Workers : x # 0 => stack'[x] = stack[x] /\ call'[x] = call[x]
      /\ Inside(0)' <=> Inside(0)
  BY <1>1, <1>4, <1>6, CallChanges
<1>8. /\ parent' \in [JobIds -> Maybe] /\ ttl' \in [JobIds -> Nat]
      /\ ancestor' \in [JobIds -> Maybe]
      /\ entry' \in [JobIds -> Entries \cup {CHOOSE e \in Entries : TRUE}]
      /\ parent'[j] = Root /\ ttl'[j] = 1 /\ ancestor'[j] = Root
      /\ entry'[j] = Head(Main.code).entry
      /\ \A k \in JobIds : k # j => /\ parent'[k] = parent[k] /\ ttl'[k] = ttl[k]
                                    /\ ancestor'[k] = ancestor[k] /\ entry'[k] = entry[k]
  BY <1>1, <1>2, <1>6 DEF PoolInv, Types, Maybe
<1>9. \A k : Kid(k)' <=> Kid(k) \/ k = j
  BY <1>1, <1>2, <1>3, <1>7, <1>8 DEF Kid
<1>10. \A x \in Workers : CallInv(x)'
  <2>1. CallInv(0)'
    BY <1>1, <1>5, <1>7 DEF CallInv
  <2>2. \A k \in JobIds : k # Root /\ parent[k] = Root => parent'[k] = Root
    BY <1>8
  <2>3. \A x \in Workers : x # 0 => CallInv(x)'
    BY <1>7, <2>2, OtherCall DEF PoolInv, Types, Calls
  <2>4. QED
    BY <2>1, <2>3
<1>11. Held(0)' = j /\ \A x \in Workers : x # 0 => Held(x)' = Held(x)
  <2>1. Held(0)' = j
    BY <1>5, <1>7 DEF Held
  <2>2. QED
    BY <2>1, <1>7, OtherWorker
<1>12. JobsInv'
  <2>1. ~Kid(j)
    BY <1>1 DEF Kid
  <2>2. \A x \in Workers : j \notin Range(deque[x])
    BY <2>1 DEF PoolInv, JobsInv
  <2>3. \A x \in Workers : Held(x) # j
    BY <2>1, <1>1 DEF PoolInv, JobsInv
  <2>4. \A x \in Workers : \A k \in Range(deque'[x]) : Kid(k)'
    BY <1>6, <1>9 DEF PoolInv, JobsInv
  <2>5. \A x \in Workers : (Held(x) # NoJob => Kid(Held(x)))'
    <3>1. \A x \in Workers : x # 0 => (Held(x)' # NoJob => Kid(Held(x)') /\ Held(x)' # j)
      BY <1>11, <2>3 DEF PoolInv, JobsInv
    <3>2. \A x \in Workers : x # 0 => (Held(x) # NoJob => Kid(Held(x)))'
      BY <3>1, <1>7, <1>8 DEF Kid
    <3>3. (Held(0) # NoJob => Kid(Held(0)))'
      BY <1>11, <1>1, <1>2, <1>3, <1>7, <1>8 DEF Kid
    <3>4. QED
      BY <3>2, <3>3
  <2>6. \A x, y \in Workers : Held(x)' \notin Range(deque'[y])
    BY <2>2, <1>6, <1>11 DEF PoolInv, JobsInv
  <2>7. \A x, y \in Workers : x # y /\ Held(x)' # NoJob => Held(x)' # Held(y)'
    BY <2>3, <1>11 DEF PoolInv, JobsInv
  <2>8. \A k \in JobIds : ttl'[k] # 0 /\ k # Root' =>
          \E x \in Workers : k \in Range(deque'[x]) \/ Held(x)' = k
    <3>1. ASSUME NEW k \in JobIds, ttl'[k] # 0, k # Root, k # j
          PROVE  \E x \in Workers : k \in Range(deque'[x]) \/ Held(x)' = k
      <4>1. PICK x \in Workers : k \in Range(deque[x]) \/ Held(x) = k
        BY <3>1, <1>8 DEF PoolInv, JobsInv
      <4>2. Held(0) # k
        BY <1>1, Constants
      <4>3. QED
        BY <4>1, <4>2, <1>6, <1>11
    <3>2. QED
      BY <3>1, <1>1, <1>7, <1>11
  <2>9. \A x \in Workers : IsInjective(deque'[x])
    BY <1>6 DEF PoolInv, JobsInv
  <2>10. \A x, y \in Workers : x # y => Range(deque'[x]) \cap Range(deque'[y]) = {}
    BY <1>6 DEF PoolInv, JobsInv
  <2>11. QED
    BY <2>4, <2>5, <2>6, <2>7, <2>8, <2>9, <2>10 DEF JobsInv
<1>13. RootInv'
  <2>1. Living' = Living
    <3>1. \A x \in Workers : \A k : Adopts(x, k) => x # 0
      BY <1>1 DEF Adopts, At
    <3>2. \A x \in Workers : \A k : x # 0 => (Adopts(x, k)' <=> Adopts(x, k))
      BY <1>7, OtherWorker
    <3>3. \A k : Adopts(0, k)' <=> k = j
      BY <1>5, <1>7 DEF Adopts, At
    <3>4. j \notin Living /\ j \notin Living'
      BY <3>3, <1>1 DEF Living
    <3>5. \A k \in JobIds : k # j => ((\A x \in Workers : ~Adopts(x, k)')
                                      <=> (\A x \in Workers : ~Adopts(x, k)))
      BY <3>1, <3>2, <3>3
    <3>6. \A k \in JobIds : k # j => (k \in Living' <=> k \in Living)
      BY <3>5, <1>7, <1>8 DEF Living
    <3>7. QED
      BY <3>4, <3>6 DEF Living
  <2>2. Deciding' = Deciding
    <3>1. ~Decides(0)' /\ ~Decides(0)
      BY <1>1, <1>5, <1>7 DEF Decides, At
    <3>2. ASSUME NEW x \in Workers, x # 0
          PROVE  Decides(x)' <=> Decides(x)
      <4>1. CASE call[x].pc = "climb" /\ call[x].n = 1
        <5>1. Inside(x) /\ call[x].job # Root /\ parent[call[x].job] = Root
          BY <3>2, <4>1 DEF PoolInv, CallInv
        <5>2. call[x].job \in JobIds
          BY <4>1 DEF PoolInv, Types, Calls, Maybe, CallInv
        <5>3. parent'[call[x].job] = Root
          BY <5>1, <5>2, <1>8
        <5>4. QED
          BY <5>1, <5>3, <3>2, <1>7 DEF Decides, At
      <4>2. CASE ~(call[x].pc = "climb" /\ call[x].n = 1)
        BY <3>2, <4>2, <1>7 DEF Decides, At
      <4>3. QED
        BY <4>1, <4>2
    <3>3. QED
      BY <3>1, <3>2 DEF Deciding
  <2>3. Releasing' = Releasing
    <3>1. ~Releases(0)' /\ ~Releases(0)
      BY <1>1, <1>5, <1>7 DEF Releases, At
    <3>2. \A x \in Workers : x # 0 => (Releases(x)' <=> Releases(x))
      BY <1>7, OtherWorker
    <3>3. QED
      BY <3>1, <3>2 DEF Releasing
  <2>4. RootCount' = RootCount
    BY <2>1, <2>2, <2>3 DEF RootCount
  <2>5. RootAwaited'
    BY <1>5, <1>7 DEF RootAwaited
  <2>6. ttl'[Root] = ttl[Root] /\ parent'[Root] = parent[Root] /\ ancestor'[Root] = ancestor[Root]
    BY <1>2, <1>3, <1>8
  <2>7. QED
    BY <2>4, <2>5, <2>6, <1>2, <1>3, <1>7, OwedToRoot DEF RootInv
<1>14. Types'
  <2>1. next' \in [Workers -> Nat]
    BY NextType DEF ClaimChild
  <2>2. QED
    BY <2>1, <1>7, <1>8 DEF PoolInv, Types, ClaimChild, threads
<1>15. QED
  BY <1>7, <1>10, <1>12, <1>13, <1>14 DEF PoolInv

LEMMA ClaimEmptyKeeps ==
  ASSUME PoolInv, At(0, "scan"), ClaimEmpty
  PROVE  PoolInv'
<1> DEFINE j == Candidate(0)
<1>1. /\ 0 \in Workers /\ ~Inside(0) /\ Main.code # <<>> /\ NextOp = "empty"
      /\ j \in JobIds /\ j # NoJob /\ Root = NoJob
  BY CandidateFacts, NextFacts, Constants DEF ClaimEmpty, PoolInv
<1>2. Return(0, j)
  BY DEF ClaimEmpty
<1>3. /\ parent' = [parent EXCEPT ![j] = NoJob] /\ ttl' = [ttl EXCEPT ![j] = 1]
      /\ ancestor' = [ancestor EXCEPT ![j] = j] /\ entry' = entry /\ deque' = deque
  BY DEF ClaimEmpty
<1> HIDE DEF j
<1>4. /\ StackInv' /\ Root' = j /\ ~Inside(0)'
      /\ stack' \in [Workers -> Seq(Frames)] /\ call' \in [Workers -> Calls]
      /\ call'[0] = Running
      /\ \A x \in Workers : x # 0 => stack'[x] = stack[x] /\ call'[x] = call[x]
  <2>1. j \in Maybe
    BY <1>1 DEF Maybe
  <2>2. QED
    BY <1>1, <1>2, <2>1, ReturnFacts DEF PoolInv
<1>5. /\ parent' \in [JobIds -> Maybe] /\ ttl' \in [JobIds -> Nat]
      /\ ancestor' \in [JobIds -> Maybe]
      /\ parent'[j] = NoJob /\ ttl'[j] = 1 /\ ancestor'[j] = j
      /\ \A k \in JobIds : k # j => ttl'[k] = 0
  BY <1>1, <1>3, NothingWithoutRoot DEF PoolInv, Types, Maybe
\* Whoever has not been heard of since the last root is idle or leaves.
<1>6. ASSUME NEW x \in Workers
      PROVE  /\ call'[x].pc \notin {"adopt", "push", "count", "batch", "release"}
             /\ call'[x].pc = "run" => ~Inside(x)'
             /\ call'[x].pc = "climb" => x # 0 /\ Inside(x)' /\ call'[x].n # 1
  <2>1. CASE x = 0
    BY <2>1, <1>4 DEF Running
  <2>2. CASE x # 0
    <3>1. (Inside(x)' <=> Inside(x)) /\ call'[x] = call[x]
      BY <2>2, <1>4 DEF Inside
    <3>2. QED
      BY <2>2, <3>1, <1>1, NothingWithoutRoot
  <2>3. QED
    BY <2>1, <2>2
<1>7. \A x \in Workers : Held(x)' = NoJob
  BY <1>6 DEF Held
<1>8. \A x \in Workers : CallInv(x)'
  <2>1. CallInv(0)'
    BY <1>4 DEF CallInv, Running
  <2>2. ASSUME NEW x \in Workers, x # 0 PROVE CallInv(x)'
    <3>1. CallInv(x) /\ call'[x] = call[x] /\ (Inside(x)' <=> Inside(x))
      BY <2>2, <1>4 DEF PoolInv, Inside
    <3>2. QED
      BY <2>2, <3>1, <1>6 DEF CallInv
  <2>3. QED
    BY <2>1, <2>2
<1>9. JobsInv'
  <2>1. \A x \in Workers : Range(deque'[x]) = {}
    BY <1>1, <1>3, NothingWithoutRoot
  <2>2. \A x \in Workers : IsInjective(deque'[x])
    BY <1>3 DEF PoolInv, JobsInv
  <2>3. \A k \in JobIds : ~(ttl'[k] # 0 /\ k # Root')
    BY <1>4, <1>5
  <2>4. QED
    BY <1>7, <2>1, <2>2, <2>3 DEF JobsInv
<1>10. RootInv'
  <2>1. Living' = {}
    BY <1>4, <1>5 DEF Living
  <2>2. Deciding' = {}
    BY <1>6 DEF Deciding, Decides, At
  <2>3. Releasing' = {}
    BY <1>6 DEF Releasing, Releases, At
  <2>4. Owed(Root)' = 0
    BY <2>1, <2>2, <2>3, FS_EmptySet, OwedToRoot DEF RootCount
  <2>5. RootAwaited'
    BY <1>4 DEF RootAwaited, Running
  <2>6. QED
    BY <2>4, <2>5, <1>1, <1>4, <1>5 DEF RootInv
<1>11. Types'
  <2>1. next' \in [Workers -> Nat]
    BY NextType DEF ClaimEmpty
  <2>2. QED
    BY <2>1, <1>3, <1>4, <1>5 DEF PoolInv, Types, ClaimEmpty, threads
<1>12. QED
  BY <1>4, <1>8, <1>9, <1>10, <1>11 DEF PoolInv

LEMMA ClaimKeeps ==
  ASSUME PoolInv, NEW w \in Workers, Claim(w)
  PROVE  PoolInv'
BY ClaimCases, ClaimChildKeeps, ClaimEmptyKeeps

LEMMA AdoptKeeps ==
  ASSUME PoolInv, NEW w \in Workers, Adopt(w)
  PROVE  PoolInv'
<1> DEFINE j == call[0].job
           c == [call[0] EXCEPT !.pc = "push"]
<1>1. /\ w = 0 /\ 0 \in Workers /\ ~Inside(0) /\ Main.code # <<>> /\ NextOp = "child"
      /\ call[0].pc = "adopt" /\ j # NoJob /\ Held(0) = j /\ RootAwaited
  BY Constants DEF Adopt, At, PoolInv, CallInv, Held, RootAwaited
<1>2. /\ Root # NoJob /\ Root \in JobIds /\ ParentOfChild(0) = Root
      /\ parent[Root] = NoJob /\ ancestor[Root] = Root
      /\ ttl[Root] = RootCount + 1 /\ RootCount \in Nat
  <2>1. Root # NoJob /\ Top(0) = Main
    BY <1>1, NextFacts, OutsideFacts DEF PoolInv
  <2>2. QED
    BY <2>1, <1>1, RootFacts, OwedToRoot DEF ParentOfChild, Root, RootCount
<1>3. Kid(j)
  BY <1>1 DEF PoolInv, JobsInv
<1>4. c \in Calls /\ call' = [call EXCEPT ![0] = c] /\ c.pc = "push" /\ c.job = j
  BY <1>1 DEF Adopt, Goto, PoolInv, Types, Calls, PCs
<1>5. /\ ttl' = [ttl EXCEPT ![Root] = ttl[Root] + 1]
      /\ parent' = parent /\ ancestor' = ancestor /\ entry' = entry
      /\ stack' = stack /\ deque' = deque
  BY <1>1, <1>2 DEF Adopt
<1> HIDE DEF j, c
<1>6. /\ StackInv' /\ call' \in [Workers -> Calls] /\ stack' \in [Workers -> Seq(Frames)]
      /\ Main' = Main /\ Root' = Root /\ NextOp' = NextOp /\ call'[0] = c
      /\ \A x \in Workers : x # 0 => stack'[x] = stack[x] /\ call'[x] = call[x]
      /\ Inside(0)' <=> Inside(0)
  BY <1>1, <1>4, <1>5, CallChanges
<1>7. /\ ttl' \in [JobIds -> Nat] /\ ttl'[Root] = ttl[Root] + 1
      /\ \A k \in JobIds : k # Root => ttl'[k] = ttl[k]
  BY <1>2, <1>5 DEF PoolInv, Types
<1>8. \A k : Kid(k)' <=> Kid(k)
  BY <1>5, <1>6, <1>7 DEF Kid
<1>9. \A x \in Workers : CallInv(x)'
  <2>1. CallInv(0)'
    BY <1>1, <1>4, <1>6 DEF CallInv
  <2>2. \A x \in Workers : x # 0 => CallInv(x)'
    BY <1>5, <1>6, OtherCall DEF PoolInv, Types, Calls
  <2>3. QED
    BY <2>1, <2>2
<1>10. \A x \in Workers : Held(x)' = Held(x)
  <2>1. Held(0)' = Held(0)
    BY <1>1, <1>4, <1>6 DEF Held
  <2>2. QED
    BY <2>1, <1>6, OtherWorker
<1>11. JobsInv'
  <2>1. \A x \in Workers : (Held(x) # NoJob => Kid(Held(x)))'
    <3>1. \A x \in Workers : Held(x) # NoJob => Kid(Held(x))
      BY DEF PoolInv, JobsInv
    <3>2. QED
      BY <3>1, <1>5, <1>6, <1>7, <1>10 DEF Kid
  <2>2. \A x \in Workers : \A k \in Range(deque'[x]) : Kid(k)'
    BY <1>5, <1>8 DEF PoolInv, JobsInv
  <2>3. \A k \in JobIds : ttl'[k] # 0 /\ k # Root' =>
          \E x \in Workers : k \in Range(deque'[x]) \/ Held(x)' = k
    BY <1>5, <1>6, <1>7, <1>10 DEF PoolInv, JobsInv
  <2>4. QED
    BY <2>1, <2>2, <2>3, <1>5, <1>10 DEF PoolInv, JobsInv
<1>12. RootInv'
  <2>1. \A x \in Workers : \A k \in JobIds : Adopts(x, k) <=> x = 0 /\ k = j
    <3>1. \A x \in Workers : At(x, "adopt") => x = 0
      BY DEF At, PoolInv, CallInv
    <3>2. \A k \in JobIds : Adopts(0, k) <=> k = j
      BY <1>1 DEF Adopts, At, j
    <3>3. QED
      BY <3>1, <3>2 DEF Adopts
  <2>2. \A x \in Workers : \A k \in JobIds : ~Adopts(x, k)'
    <3>1. \A k \in JobIds : ~Adopts(0, k)'
      BY <1>4, <1>6 DEF Adopts, At
    <3>2. \A x \in Workers : x # 0 => \A k \in JobIds : Adopts(x, k)' <=> Adopts(x, k)
      BY <1>6, OtherWorker
    <3>3. QED
      BY <3>1, <3>2, <2>1
  <2>3. Living' = Living \cup {j} /\ j \notin Living
    <3>1. j \notin Living
      BY <2>1, <1>1, <1>3 DEF Living, Kid
    <3>2. j \in Living'
      BY <2>2, <1>3, <1>5, <1>6, <1>7 DEF Living, Kid
    <3>3. \A k \in JobIds : k # j => (k \in Living' <=> k \in Living)
      BY <2>1, <2>2, <1>5, <1>6, <1>7 DEF Living
    <3>4. QED
      BY <3>1, <3>2, <3>3, <1>3 DEF Living, Kid
  <2>4. Deciding' = Deciding /\ Releasing' = Releasing
    <3>1. ~Decides(0)' /\ ~Decides(0) /\ ~Releases(0) /\ ~Releases(0)'
      BY <1>1, <1>4, <1>6 DEF Decides, Releases, At
    <3>2. \A x \in Workers : x # 0 => /\ Decides(x)' <=> Decides(x)
                                      /\ Releases(x)' <=> Releases(x)
      BY <1>5, <1>6, OtherWorker DEF Decides, At
    <3>3. QED
      BY <3>1, <3>2 DEF Deciding, Releasing
  <2>5. Cardinality(Living') = Cardinality(Living) + 1
    BY <2>3, OneMore, OwedToRoot
  <2>6. RootCount' = RootCount + 1
    BY <2>4, <2>5, OwedToRoot DEF RootCount
  <2>7. RootAwaited'
    BY <1>4, <1>6 DEF RootAwaited
  <2>8. QED
    BY <2>6, <2>7, <1>2, <1>5, <1>6, <1>7, OwedToRoot DEF RootInv
<1>13. Types'
  BY <1>5, <1>6, <1>7 DEF PoolInv, Types, Adopt, threads
<1>14. QED
  BY <1>6, <1>9, <1>11, <1>12, <1>13 DEF PoolInv

-----------------------------------------------------------------------------
(* finalize_job.                                                           *)

LEMMA ClimbType ==
  \A c \in Calls : \A n \in Nat : [c EXCEPT !.pc = "climb", !.n = n] \in Calls
<1>1. "climb" \in PCs
  BY DEF PCs
<1>2. QED
  BY <1>1 DEF Calls

\* A job is done: the fetch_sub frees its slot, and its finalizer owes the root
\* a subtraction.
LEMMA ReleaseChildKeeps ==
  ASSUME PoolInv, NEW w \in Workers, Release(w), Inside(w), call[w].job # Root
  PROVE  PoolInv'
<1> DEFINE j == call[w].job
           c == [call[w] EXCEPT !.pc = "climb", !.n = 1]
<1>1. call[w].pc = "release" /\ j # NoJob /\ Held(w) = j
  BY DEF Release, At, PoolInv, CallInv, Held
<1>2. Kid(j)
  BY <1>1 DEF PoolInv, JobsInv
<1>3. /\ Root # NoJob /\ Root \in JobIds /\ parent[Root] = NoJob /\ ancestor[Root] = Root
      /\ ttl[Root] \in Nat /\ ttl[Root] = RootCount + IF RootAwaited THEN 1 ELSE 0
  BY <1>2, RootFacts DEF Kid
<1>4. c \in Calls /\ call' = [call EXCEPT ![w] = c] /\ c.pc = "climb" /\ c.job = j /\ c.n = 1
  <2>1. ttl[j] = 1
    BY <1>2 DEF Kid
  <2>2. c \in Calls /\ c.pc = "climb" /\ c.job = j /\ c.n = 1
    BY ClimbType DEF PoolInv, Types, Calls
  <2>3. call' = [call EXCEPT ![w].pc = "climb", ![w].n = 1]
    BY <2>1 DEF Release
  <2>4. [call EXCEPT ![w].pc = "climb", ![w].n = 1] = [call EXCEPT ![w] = c]
    BY DEF PoolInv, Types
  <2>5. QED
    BY <2>2, <2>3, <2>4
<1>5. /\ ttl' = [ttl EXCEPT ![j] = 0]
      /\ parent' = parent /\ ancestor' = ancestor /\ entry' = entry
      /\ stack' = stack /\ deque' = deque
  BY <1>2 DEF Release, Kid
<1>6. ASSUME NEW x \in Workers, call[x].pc = "adopt" PROVE call[x].job # j
  <2>1. Held(x) = call[x].job /\ x # w
    BY <1>1, <1>6 DEF Held
  <2>2. QED
    BY <2>1, <1>1 DEF PoolInv, JobsInv
<1> HIDE DEF j, c
<1>7. /\ StackInv' /\ call' \in [Workers -> Calls] /\ stack' \in [Workers -> Seq(Frames)]
      /\ Main' = Main /\ Root' = Root /\ NextOp' = NextOp /\ call'[w] = c
      /\ \A x \in Workers : x # w => stack'[x] = stack[x] /\ call'[x] = call[x]
      /\ Inside(w)' <=> Inside(w)
  BY <1>4, <1>5, CallChanges
<1>8. /\ ttl' \in [JobIds -> Nat] /\ ttl'[j] = 0 /\ ttl'[Root] = ttl[Root]
      /\ \A k \in JobIds : k # j => ttl'[k] = ttl[k]
  BY <1>2, <1>3, <1>5 DEF PoolInv, Types, Kid
<1>9. \A k : Kid(k)' <=> Kid(k) /\ k # j
  BY <1>2, <1>5, <1>7, <1>8 DEF Kid
<1>10. \A x \in Workers : CallInv(x)'
  <2>1. CallInv(w)'
    BY <1>1, <1>2, <1>3, <1>4, <1>5, <1>7 DEF CallInv, Kid
  <2>2. ASSUME NEW x \in Workers, x # w PROVE CallInv(x)'
    <3>1. CallInv(x) /\ call[x].job \in Maybe /\ stack'[x] = stack[x] /\ call'[x] = call[x]
      BY <2>2, <1>7 DEF PoolInv, Types, Calls
    <3>2. QED
      BY <3>1, <1>5, <1>7, <1>8, OtherCall
  <2>3. QED
    BY <2>1, <2>2
<1>11. Held(w)' = NoJob /\ \A x \in Workers : x # w => Held(x)' = Held(x)
  <2>1. Held(w)' = NoJob
    BY <1>4, <1>7 DEF Held
  <2>2. QED
    BY <2>1, <1>7, OtherWorker
<1>12. JobsInv'
  <2>1. \A x \in Workers : j \notin Range(deque[x])
    BY <1>1 DEF PoolInv, JobsInv
  <2>2. \A x \in Workers : x # w => Held(x) # j
    BY <1>1 DEF PoolInv, JobsInv
  <2>3. \A x \in Workers : \A k \in Range(deque'[x]) : Kid(k)'
    BY <2>1, <1>5, <1>9 DEF PoolInv, JobsInv
  <2>4. \A x \in Workers : (Held(x) # NoJob => Kid(Held(x)))'
    <3>1. \A x \in Workers : Held(x)' # NoJob => Kid(Held(x)') /\ Held(x)' # j
      BY <2>2, <1>11 DEF PoolInv, JobsInv
    <3>2. QED
      BY <3>1, <1>5, <1>7, <1>8 DEF Kid
  <2>5. \A x, y \in Workers : Held(x)' \notin Range(deque'[y])
    <3>1. \A y \in Workers : NoJob \notin Range(deque[y])
      BY Constants, DequeFacts
    <3>2. QED
      BY <3>1, <1>5, <1>11 DEF PoolInv, JobsInv
  <2>6. \A x, y \in Workers : x # y /\ Held(x)' # NoJob => Held(x)' # Held(y)'
    BY <1>11 DEF PoolInv, JobsInv
  <2>7. \A k \in JobIds : ttl'[k] # 0 /\ k # Root' =>
          \E x \in Workers : k \in Range(deque'[x]) \/ Held(x)' = k
    <3>1. ASSUME NEW k \in JobIds, ttl'[k] # 0, k # Root
          PROVE  \E x \in Workers : k \in Range(deque'[x]) \/ Held(x)' = k
      <4>1. k # j /\ ttl[k] # 0
        BY <3>1, <1>8
      <4>2. PICK x \in Workers : k \in Range(deque[x]) \/ Held(x) = k
        BY <3>1, <4>1 DEF PoolInv, JobsInv
      <4>3. QED
        BY <4>1, <4>2, <1>1, <1>5, <1>11
    <3>2. QED
      BY <3>1, <1>7
  <2>8. \A x \in Workers : IsInjective(deque'[x])
    BY <1>5 DEF PoolInv, JobsInv
  <2>9. \A x, y \in Workers : x # y => Range(deque'[x]) \cap Range(deque'[y]) = {}
    BY <1>5 DEF PoolInv, JobsInv
  <2>10. QED
    BY <2>3, <2>4, <2>5, <2>6, <2>7, <2>8, <2>9 DEF JobsInv
<1>13. RootInv'
  <2>1. \A x \in Workers : \A k : Adopts(x, k)' <=> Adopts(x, k)
    <3>1. \A k : ~Adopts(w, k) /\ ~Adopts(w, k)'
      BY <1>1, <1>4, <1>7 DEF Adopts, At
    <3>2. QED
      BY <3>1, <1>7, OtherWorker
  <2>2. \A x \in Workers : ~Adopts(x, j)
    BY <1>6 DEF Adopts, At
  <2>3. Living' = Living \ {j} /\ j \in Living
    <3>1. j \in Living
      BY <2>2, <1>2 DEF Living, Kid
    <3>2. j \notin Living'
      BY <1>8 DEF Living
    <3>3. \A k \in JobIds : k # j => (k \in Living' <=> k \in Living)
      BY <2>1, <1>5, <1>7, <1>8 DEF Living
    <3>4. QED
      BY <3>1, <3>2, <3>3 DEF Living
  <2>4. Deciding' = Deciding \cup {w} /\ w \notin Deciding
    <3>1. ~Decides(w) /\ Decides(w)'
      BY <1>1, <1>2, <1>4, <1>5, <1>7 DEF Decides, At, Kid
    <3>2. \A x \in Workers : x # w => (Decides(x)' <=> Decides(x))
      BY <1>5, <1>7 DEF Decides, At
    <3>3. QED
      BY <3>1, <3>2 DEF Deciding
  <2>5. Releasing' = Releasing
    <3>1. ~Releases(w) /\ ~Releases(w)'
      BY <1>4, <1>7 DEF Releases, At, j
    <3>2. \A x \in Workers : x # w => (Releases(x)' <=> Releases(x))
      BY <1>7, OtherWorker
    <3>3. QED
      BY <3>1, <3>2 DEF Releasing
  <2>6. Cardinality(Living) = Cardinality(Living') + 1
    BY <2>3, OneLess, OwedToRoot
  <2>7. Cardinality(Deciding') = Cardinality(Deciding) + 1
    BY <2>4, OneMore, OwedToRoot
  <2>8. Cardinality(Living') \in Nat
    BY <2>3, OneLess, OwedToRoot
  <2>9. RootCount' = RootCount
    BY <2>5, <2>6, <2>7, <2>8, OwedToRoot DEF RootCount
  <2>10. RootAwaited' <=> RootAwaited
    <3>1. CASE w = 0
      BY <3>1, <1>7 DEF RootAwaited
    <3>2. CASE w # 0
      BY <3>2, <1>7, OtherWorker, Constants DEF RootAwaited
    <3>3. QED
      BY <3>1, <3>2
  <2>11. QED
    BY <2>9, <2>10, <1>3, <1>5, <1>7, <1>8, OwedToRoot DEF RootInv
<1>14. Types'
  BY <1>5, <1>7, <1>8 DEF PoolInv, Types, Release, threads
<1>15. QED
  BY <1>7, <1>10, <1>12, <1>13, <1>14 DEF PoolInv

\* The call a release of the root turns into, and what the sets of those who
\* owe it something become.
LEMMA ReleaseRootFacts ==
  ASSUME PoolInv, NEW w \in Workers, Release(w), call[w].job = Root
  PROVE  LET c == [call[w] EXCEPT !.pc = "climb", !.n = IF ttl[Root] = 1 THEN 1 ELSE 0]
         IN  /\ call[w].pc = "release" /\ Root # NoJob /\ Root \in JobIds
             /\ Held(w) = NoJob /\ Releases(w)
             /\ c \in Calls /\ call' = [call EXCEPT ![w] = c]
             /\ ttl[Root] = RootCount + IF RootAwaited THEN 1 ELSE 0
             /\ ttl' = [ttl EXCEPT ![Root] = ttl[Root] - 1]
             /\ UNCHANGED <<parent, ancestor, entry, stack, deque>>
             /\ Cardinality(Releasing) # 0
<1> DEFINE c == [call[w] EXCEPT !.pc = "climb", !.n = IF ttl[Root] = 1 THEN 1 ELSE 0]
<1>1. call[w].pc = "release" /\ Root # NoJob /\ Releases(w)
  BY DEF Release, Releases, At, PoolInv, CallInv
<1>2. Root \in JobIds /\ ttl[Root] = RootCount + IF RootAwaited THEN 1 ELSE 0
  BY <1>1, RootFacts
<1>3. Held(w) = NoJob
  BY <1>1 DEF Held
<1>4. c \in Calls /\ call' = [call EXCEPT ![w] = c]
  <2> DEFINE n == IF ttl[Root] = 1 THEN 1 ELSE 0
  <2>1. n \in Nat
    OBVIOUS
  <2>2. call' = [call EXCEPT ![w].pc = "climb", ![w].n = n]
    BY DEF Release
  <2> HIDE DEF n
  <2>3. [call[w] EXCEPT !.pc = "climb", !.n = n] \in Calls
    BY <2>1, ClimbType DEF PoolInv, Types
  <2>4. [call EXCEPT ![w].pc = "climb", ![w].n = n]
          = [call EXCEPT ![w] = [call[w] EXCEPT !.pc = "climb", !.n = n]]
    BY DEF PoolInv, Types
  <2>5. QED
    BY <2>2, <2>3, <2>4 DEF n
<1>5. ttl' = [ttl EXCEPT ![Root] = ttl[Root] - 1]
  BY DEF Release
<1>6. Cardinality(Releasing) # 0
  <2>1. Releasing # {}
    BY <1>1 DEF Releasing
  <2>2. QED
    BY <2>1, OwedToRoot, FS_EmptySet
<1>7. QED
  BY <1>1, <1>2, <1>3, <1>4, <1>5, <1>6 DEF Release

\* A finalizer that gives the root back what it owed it is never the last one:
\* the wait for the root is still to come.
LEMMA RootIsAwaited ==
  ASSUME PoolInv, NEW w \in Workers, Releases(w), Inside(w), Root # NoJob
  PROVE  RootAwaited /\ ttl[Root] \in Nat /\ ttl[Root] > 1
<1>1. /\ ttl[Root] = RootCount + IF RootAwaited THEN 1 ELSE 0
      /\ ttl[Root] \in Nat /\ 0 \in Workers
  BY RootFacts, Constants
<1>2. Cardinality(Releasing) \in Nat /\ Cardinality(Releasing) # 0
  <2>1. Releasing # {}
    BY DEF Releasing
  <2>2. QED
    BY <2>1, OwedToRoot, FS_EmptySet
<1>3. RootCount \in Nat /\ RootCount >= Cardinality(Releasing)
  BY OwedToRoot DEF RootCount
<1>4. RootAwaited
  <2>1. SUFFICES ASSUME ~RootAwaited PROVE FALSE
    OBVIOUS
  <2>2. call[0].pc \in {"release", "climb"} /\ ~Inside(0) /\ call[0].job = Root
    BY <2>1, <1>1 DEF RootAwaited, PoolInv, CallInv
  <2>3. CASE call[0].pc = "climb"
    <3>1. ttl[Root] = 0
      BY <2>2, <2>3, <1>1 DEF PoolInv, CallInv
    <3>2. QED
      BY <3>1, <2>1, <1>1, <1>2, <1>3
  <2>4. CASE call[0].pc = "release"
    <3>1. ttl[Root] = 1
      BY <2>2, <2>4, <1>1 DEF PoolInv, CallInv
    <3>2. 0 \in Releasing /\ w \in Releasing /\ w # 0
      BY <2>2, <2>4, <1>1 DEF Releasing, Releases, At
    <3>3. Cardinality(Releasing) # 1
      <4>1. ~ \E x : Releasing = {x}
        BY <3>2
      <4>2. QED
        BY <4>1, OwedToRoot, FS_Singleton
    <3>4. QED
      BY <3>1, <3>3, <2>1, <1>1, <1>2, <1>3
  <2>5. QED
    BY <2>2, <2>3, <2>4
<1>5. QED
  BY <1>1, <1>2, <1>3, <1>4

LEMMA ReleaseRootKeeps ==
  ASSUME PoolInv, NEW w \in Workers, Release(w), call[w].job = Root
  PROVE  PoolInv'
<1> DEFINE c == [call[w] EXCEPT !.pc = "climb", !.n = IF ttl[Root] = 1 THEN 1 ELSE 0]
<1>1. /\ call[w].pc = "release" /\ Root # NoJob /\ Root \in JobIds
      /\ Held(w) = NoJob /\ Releases(w)
      /\ c \in Calls /\ call' = [call EXCEPT ![w] = c]
      /\ ttl[Root] = RootCount + IF RootAwaited THEN 1 ELSE 0
      /\ ttl' = [ttl EXCEPT ![Root] = ttl[Root] - 1]
      /\ parent' = parent /\ ancestor' = ancestor /\ entry' = entry
      /\ stack' = stack /\ deque' = deque
      /\ Cardinality(Releasing) # 0
  BY ReleaseRootFacts
<1>2. c.pc = "climb" /\ c.job = Root /\ c.n = IF ttl[Root] = 1 THEN 1 ELSE 0
  BY DEF PoolInv, Types, Calls
<1>3. parent[Root] = NoJob /\ ancestor[Root] = Root /\ ttl[Root] \in Nat
  BY <1>1, RootFacts
\* From a job the root is not done yet; from its wait it is.
<1>4. /\ Inside(w) => c.n # 1 /\ RootAwaited
      /\ ~Inside(w) => /\ w = 0 /\ Main.code # <<>> /\ NextOp = "wait"
                       /\ ttl[Root] = 1 /\ c.n = 1 /\ ~RootAwaited
  <2>1. ASSUME Inside(w) PROVE c.n # 1 /\ RootAwaited
    BY <2>1, <1>1, <1>2, RootIsAwaited
  <2>2. ASSUME ~Inside(w)
        PROVE  /\ w = 0 /\ Main.code # <<>> /\ NextOp = "wait"
               /\ ttl[Root] = 1 /\ ~RootAwaited
    BY <2>2, <1>1 DEF PoolInv, CallInv, RootAwaited
  <2>3. QED
    BY <2>1, <2>2, <1>2
<1> HIDE DEF c
<1>5. ttl[Root] - 1 \in Nat
  <2>1. Cardinality(Releasing) \in Nat /\ RootCount \in Nat /\ RootCount >= Cardinality(Releasing)
    BY OwedToRoot DEF RootCount
  <2>2. QED
    BY <2>1, <1>1, <1>3
<1>6. /\ StackInv' /\ call' \in [Workers -> Calls] /\ stack' \in [Workers -> Seq(Frames)]
      /\ Main' = Main /\ Root' = Root /\ NextOp' = NextOp /\ call'[w] = c
      /\ \A x \in Workers : x # w => stack'[x] = stack[x] /\ call'[x] = call[x]
      /\ Inside(w)' <=> Inside(w)
  BY <1>1, CallChanges
<1>7. /\ ttl' \in [JobIds -> Nat] /\ ttl'[Root] = ttl[Root] - 1
      /\ \A k \in JobIds : k # Root => ttl'[k] = ttl[k]
  BY <1>1, <1>5 DEF PoolInv, Types
<1>8. \A k : Kid(k)' <=> Kid(k)
  BY <1>1, <1>6, <1>7 DEF Kid
<1>9. \A x \in Workers : CallInv(x)'
  <2>1. CallInv(w)'
    BY <1>1, <1>2, <1>3, <1>4, <1>6, <1>7 DEF CallInv
  <2>2. ASSUME NEW x \in Workers, x # w PROVE CallInv(x)'
    <3>1. CallInv(x) /\ call[x].job \in Maybe /\ stack'[x] = stack[x] /\ call'[x] = call[x]
      BY <2>2, <1>6 DEF PoolInv, Types, Calls
    <3>2. x = 0 => RootAwaited
      BY <2>2, <1>4
    <3>3. QED
      BY <3>1, <3>2, <1>1, <1>6, OtherCall
  <2>3. QED
    BY <2>1, <2>2
<1>10. \A x \in Workers : Held(x)' = Held(x)
  <2>1. Held(w)' = NoJob
    BY <1>2, <1>6 DEF Held
  <2>2. QED
    BY <2>1, <1>1, <1>6, OtherWorker
<1>11. JobsInv'
  <2>1. \A x \in Workers : (Held(x) # NoJob => Kid(Held(x)))'
    <3>1. \A x \in Workers : Held(x) # NoJob => Kid(Held(x))
      BY DEF PoolInv, JobsInv
    <3>2. QED
      BY <3>1, <1>1, <1>6, <1>7, <1>10 DEF Kid
  <2>2. \A x \in Workers : \A k \in Range(deque'[x]) : Kid(k)'
    BY <1>1, <1>8 DEF PoolInv, JobsInv
  <2>3. \A k \in JobIds : ttl'[k] # 0 /\ k # Root' =>
          \E x \in Workers : k \in Range(deque'[x]) \/ Held(x)' = k
    BY <1>1, <1>6, <1>7, <1>10 DEF PoolInv, JobsInv
  <2>4. QED
    BY <2>1, <2>2, <2>3, <1>1, <1>10 DEF PoolInv, JobsInv
<1>12. RootInv'
  <2>1. Living' = Living
    <3>1. \A k : ~Adopts(w, k) /\ ~Adopts(w, k)'
      BY <1>1, <1>2, <1>6 DEF Adopts, At
    <3>2. \A x \in Workers : \A k : Adopts(x, k)' <=> Adopts(x, k)
      BY <3>1, <1>6, OtherWorker
    <3>3. QED
      BY <3>2, <1>1, <1>6, <1>7 DEF Living
  <2>2. Deciding' = Deciding
    <3>1. ~Decides(w) /\ ~Decides(w)'
      BY <1>1, <1>2, <1>3, <1>6 DEF Decides, At
    <3>2. \A x \in Workers : x # w => (Decides(x)' <=> Decides(x))
      BY <1>1, <1>6 DEF Decides, At
    <3>3. QED
      BY <3>1, <3>2 DEF Deciding
  <2>3. Releasing' = Releasing \ {w} /\ w \in Releasing
    <3>1. Releases(w) /\ ~Releases(w)'
      BY <1>1, <1>2, <1>6 DEF Releases, At
    <3>2. \A x \in Workers : x # w => (Releases(x)' <=> Releases(x))
      BY <1>6, OtherWorker
    <3>3. QED
      BY <3>1, <3>2 DEF Releasing
  <2>4. Cardinality(Releasing) = Cardinality(Releasing') + 1 /\ Cardinality(Releasing') \in Nat
    BY <2>3, OneLess, OwedToRoot
  <2>5. RootCount = RootCount' + 1 /\ RootCount' \in Nat
    BY <2>1, <2>2, <2>4, OwedToRoot DEF RootCount
  <2>6. RootAwaited' <=> RootAwaited
    <3>1. CASE w = 0
      BY <3>1, <1>1, <1>2, <1>6 DEF RootAwaited
    <3>2. CASE w # 0
      BY <3>2, <1>6, OtherWorker, Constants DEF RootAwaited
    <3>3. QED
      BY <3>1, <3>2
  <2>7. ttl'[Root] = RootCount' + IF RootAwaited THEN 1 ELSE 0
    BY <2>5, <1>1, <1>7
  <2>8. QED
    BY <2>6, <2>7, <1>1, <1>3, <1>6, OwedToRoot DEF RootInv
<1>13. Types'
  BY <1>1, <1>6, <1>7 DEF PoolInv, Types, Release, threads
<1>14. QED
  BY <1>6, <1>9, <1>11, <1>12, <1>13 DEF PoolInv

LEMMA ReleaseKeeps ==
  ASSUME PoolInv, NEW w \in Workers, Release(w)
  PROVE  PoolInv'
<1>1. ~Inside(w) => call[w].job = Root
  BY DEF Release, At, PoolInv, CallInv
<1>2. QED
  BY <1>1, ReleaseChildKeeps, ReleaseRootKeeps

\* A job was done: its finalizer goes on to the root.
LEMMA ClimbUpKeeps ==
  ASSUME PoolInv, NEW w \in Workers, call[w].pc = "climb", call[w].n = 1,
         parent[call[w].job] # NoJob,
         call' = [call EXCEPT ![w].pc = "release", ![w].job = parent[call[w].job]],
         UNCHANGED <<fields, next, deque, stack, threads>>
  PROVE  PoolInv'
<1> DEFINE c == [call[w] EXCEPT !.pc = "release", !.job = Root]
<1>1. /\ Inside(w) /\ Root # NoJob /\ Root \in JobIds
      /\ parent[call[w].job] = Root
      /\ Held(w) = NoJob
  <2>1. call[w].job # NoJob /\ CallInv(w)
    BY DEF PoolInv, CallInv
  <2>2. CASE Inside(w)
    <3>1. Root # NoJob /\ parent[call[w].job] = Root
      BY <2>1, <2>2 DEF CallInv
    <3>2. QED
      BY <3>1, <2>2, RootFacts DEF Held
  <2>3. CASE ~Inside(w)
    <3>1. call[w].job = Root /\ Root # NoJob
      BY <2>1, <2>3 DEF CallInv
    <3>2. parent[Root] = NoJob
      BY <3>1, RootFacts
    <3>3. QED
      BY <3>1, <3>2
  <2>4. QED
    BY <2>2, <2>3
<1>2. c \in Calls /\ call' = [call EXCEPT ![w] = c] /\ c.pc = "release" /\ c.job = Root
  <2>1. call[w] \in Calls /\ "release" \in PCs /\ Root \in Maybe
    BY <1>1 DEF PoolInv, Types, PCs, Maybe
  <2>2. c \in Calls /\ c.pc = "release" /\ c.job = Root
    BY <2>1 DEF Calls
  <2>3. [call EXCEPT ![w].pc = "release", ![w].job = Root] = [call EXCEPT ![w] = c]
    BY DEF PoolInv, Types
  <2>4. QED
    BY <2>2, <2>3, <1>1
<1> HIDE DEF c
<1>3. /\ StackInv' /\ call' \in [Workers -> Calls] /\ stack' \in [Workers -> Seq(Frames)]
      /\ Main' = Main /\ Root' = Root /\ NextOp' = NextOp /\ call'[w] = c
      /\ \A x \in Workers : x # w => stack'[x] = stack[x] /\ call'[x] = call[x]
      /\ Inside(w)' <=> Inside(w)
  BY <1>2, CallChanges
<1>4. \A x \in Workers : CallInv(x)'
  <2>1. CallInv(w)'
    BY <1>1, <1>2, <1>3 DEF CallInv
  <2>2. ASSUME NEW x \in Workers, x # w PROVE CallInv(x)'
    <3>1. CallInv(x) /\ call[x].job \in Maybe /\ stack'[x] = stack[x] /\ call'[x] = call[x]
      BY <2>2, <1>3 DEF PoolInv, Types, Calls
    <3>2. QED
      BY <3>1, <1>3, OtherCall DEF fields
  <2>3. QED
    BY <2>1, <2>2
<1>5. \A x \in Workers : Held(x)' = Held(x)
  <2>1. Held(w)' = NoJob
    BY <1>1, <1>2, <1>3 DEF Held
  <2>2. QED
    BY <2>1, <1>1, <1>3, OtherWorker
<1>6. JobsInv'
  BY <1>3, <1>5, JobsSame DEF PoolInv
<1>7. RootInv'
  <2>1. Living' = Living
    <3>1. \A k : ~Adopts(w, k) /\ ~Adopts(w, k)'
      BY <1>2, <1>3 DEF Adopts, At
    <3>2. \A x \in Workers : \A k : Adopts(x, k)' <=> Adopts(x, k)
      BY <3>1, <1>3, OtherWorker
    <3>3. QED
      BY <3>2, <1>3 DEF Living, fields
  <2>2. Deciding' = Deciding \ {w} /\ w \in Deciding
    <3>1. Decides(w) /\ ~Decides(w)'
      BY <1>1, <1>2, <1>3 DEF Decides, At
    <3>2. \A x \in Workers : x # w => (Decides(x)' <=> Decides(x))
      BY <1>3 DEF Decides, At, fields
    <3>3. QED
      BY <3>1, <3>2 DEF Deciding
  <2>3. Releasing' = Releasing \cup {w} /\ w \notin Releasing
    <3>1. ~Releases(w) /\ Releases(w)'
      BY <1>2, <1>3 DEF Releases, At
    <3>2. \A x \in Workers : x # w => (Releases(x)' <=> Releases(x))
      BY <1>3, OtherWorker
    <3>3. QED
      BY <3>1, <3>2 DEF Releasing
  <2>4. Cardinality(Deciding) = Cardinality(Deciding') + 1 /\ Cardinality(Deciding') \in Nat
    BY <2>2, OneLess, OwedToRoot
  <2>5. Cardinality(Releasing') = Cardinality(Releasing) + 1
    BY <2>3, OneMore, OwedToRoot
  <2>6. RootCount' = RootCount
    BY <2>1, <2>4, <2>5, OwedToRoot DEF RootCount
  <2>7. RootAwaited' <=> RootAwaited
    <3>1. CASE w = 0
      BY <3>1, <1>1, <1>3 DEF RootAwaited
    <3>2. CASE w # 0
      BY <3>2, <1>3, OtherWorker, Constants DEF RootAwaited
    <3>3. QED
      BY <3>1, <3>2
  <2>8. QED
    BY <2>6, <2>7, <1>1, <1>3, RootFacts, OwedToRoot DEF RootInv, fields
<1>8. Types'
  BY <1>3 DEF PoolInv, Types, fields, threads
<1>9. QED
  BY <1>3, <1>4, <1>6, <1>7, <1>8 DEF PoolInv

\* A worker leaves the job it ran.
LEMMA LeaveKeeps ==
  ASSUME PoolInv, NEW w \in Workers, call[w].pc = "climb", Inside(w),
         call[w].n = 0 \/ parent[call[w].job] = NoJob, Finalized(w),
         UNCHANGED <<fields, next, deque, threads>>
  PROVE  PoolInv'
<1>1. call[w].n # 1 /\ Held(w) = NoJob
  BY DEF PoolInv, CallInv, Held
<1>2. /\ StackInv' /\ Main' = Main /\ ~Inside(w)'
      /\ stack' \in [Workers -> Seq(Frames)] /\ call' \in [Workers -> Calls]
      /\ call'[w].pc = IF w # 0 THEN "run" ELSE IF NextOp = "wait" THEN "wait" ELSE "scan"
      /\ \A v \in Workers : v # w => stack'[v] = stack[v] /\ call'[v] = call[v]
  BY LeaveFacts DEF PoolInv
<1>3. Root' = Root /\ NextOp' = NextOp
  BY <1>2 DEF Root, NextOp
<1>4. \A x \in Workers : CallInv(x)'
  <2>1. CallInv(w)'
    <3>1. w = 0 => Main.code # <<>> /\ NextOp \in AddOps \cup {"wait"}
      BY DEF PoolInv, StackInv
    <3>2. call'[w].pc \in {"run", "wait", "scan"}
      BY <1>2
    <3>3. QED
      BY <3>1, <3>2, <1>2, <1>3 DEF CallInv
  <2>2. ASSUME NEW x \in Workers, x # w PROVE CallInv(x)'
    <3>1. CallInv(x) /\ call[x].job \in Maybe /\ stack'[x] = stack[x] /\ call'[x] = call[x]
      BY <2>2, <1>2 DEF PoolInv, Types, Calls
    <3>2. QED
      BY <3>1, <1>2, <1>3, OtherCall DEF fields
  <2>3. QED
    BY <2>1, <2>2
<1>5. \A x \in Workers : Held(x)' = Held(x)
  <2>1. Held(w)' = NoJob
    BY <1>2 DEF Held
  <2>2. QED
    BY <2>1, <1>1, <1>2, <1>3, OtherWorker
<1>6. JobsInv'
  BY <1>3, <1>5, JobsSame DEF PoolInv
<1>7. RootInv'
  <2>1. ASSUME NEW x \in Workers
        PROVE  /\ Decides(x)' <=> Decides(x)
               /\ Releases(x)' <=> Releases(x)
               /\ \A k \in JobIds : Adopts(x, k)' <=> Adopts(x, k)
    <3>1. CASE x = w
      BY <3>1, <1>1, <1>2 DEF Decides, Releases, Adopts, At
    <3>2. CASE x # w
      BY <3>2, <1>2, <1>3, OtherWorker DEF Decides, At, fields
    <3>3. QED
      BY <3>1, <3>2
  <2>2. RootAwaited' <=> RootAwaited
    <3>1. CASE w = 0
      BY <3>1, <1>2 DEF RootAwaited
    <3>2. CASE w # 0
      BY <3>2, <1>2, <1>3, OtherWorker, Constants DEF RootAwaited
    <3>3. QED
      BY <3>1, <3>2
  <2>3. QED
    BY <2>1, <2>2, <1>3, RootSame DEF PoolInv
<1>8. Types'
  BY <1>2 DEF PoolInv, Types, fields, threads
<1>9. QED
  BY <1>2, <1>4, <1>6, <1>7, <1>8 DEF PoolInv

\* A worker that has nothing to do with a root.
Free(v) ==
  /\ call[v].pc \notin {"adopt", "push", "count", "batch", "release"}
  /\ call[v].pc = "run" => ~Inside(v)
  /\ call[v].pc = "climb" => Inside(v) /\ call[v].n # 1

\* Worker 0 returns and there is no root any more.
LEMMA NoRootLeft ==
  ASSUME PoolInv, Types', StackInv', Root' = NoJob, ~Inside(0)', call'[0] = Running,
         \A v \in Workers : v # 0 => stack'[v] = stack[v] /\ call'[v] = call[v] /\ Free(v),
         \A v \in Workers : Range(deque'[v]) = {} /\ IsInjective(deque'[v]),
         \A j \in JobIds : ttl'[j] = 0
  PROVE  PoolInv'
<1>1. ASSUME NEW v \in Workers PROVE CallInv(v)' /\ Held(v)' = NoJob
  <2>1. CASE v = 0
    BY <2>1 DEF CallInv, Held, Running
  <2>2. CASE v # 0
    <3>1. CallInv(v) /\ call'[v] = call[v] /\ Free(v) /\ (Inside(v)' <=> Inside(v))
      BY <2>2 DEF PoolInv, Inside
    <3>2. CallInv(v)'
      BY <2>2, <3>1 DEF CallInv, Free
    <3>3. Held(v)' = NoJob
      BY <3>1 DEF Held, Free
    <3>4. QED
      BY <3>2, <3>3
  <2>3. QED
    BY <2>1, <2>2
<1>2. JobsInv'
  BY <1>1 DEF JobsInv
<1>3. RootInv'
  BY DEF RootInv
<1>4. QED
  BY <1>1, <1>2, <1>3 DEF PoolInv

\* wait returns: by then no child is left, nor a finalizer that knows the root.
LEMMA WaitReturnsKeeps ==
  ASSUME PoolInv, call[0].pc = "climb", ~Inside(0), Finalized(0),
         UNCHANGED <<fields, next, deque, threads>>
  PROVE  PoolInv'
<1>1. /\ 0 \in Workers /\ Main.code # <<>> /\ NextOp = "wait" /\ call[0].job = Root
      /\ Root # NoJob /\ ttl[Root] = 0 /\ ~RootAwaited
  BY Constants DEF PoolInv, CallInv, RootAwaited
<1>2. Return(0, NoJob)
  <2>1. AtOp(0, {"wait"})
    BY <1>1, OutsideFacts DEF PoolInv
  <2>2. QED
    BY <2>1 DEF Finalized
<1>3. Living = {} /\ Deciding = {} /\ Releasing = {}
  <2>1. RootCount = 0
    <3>1. RootCount \in Nat
      BY OwedToRoot DEF RootCount
    <3>2. ttl[Root] = RootCount + 0
      BY <1>1, RootFacts
    <3>3. QED
      BY <3>1, <3>2, <1>1
  <2>2. /\ Cardinality(Living) = 0 /\ Cardinality(Deciding) = 0
        /\ Cardinality(Releasing) = 0
    BY <2>1, OwedToRoot DEF RootCount
  <2>3. QED
    BY <2>2, OwedToRoot, FS_EmptySet
<1>4. \A k : ~Kid(k)
  <2>1. ASSUME NEW k, Kid(k) PROVE FALSE
    <3>1. PICK x \in Workers : Adopts(x, k)
      BY <2>1, <1>3 DEF Kid, Living
    <3>2. x = 0
      BY <3>1 DEF Adopts, At, PoolInv, CallInv
    <3>3. QED
      BY <3>1, <3>2 DEF Adopts, At
  <2>2. QED
    BY <2>1
<1>5. \A v \in Workers : Held(v) = NoJob /\ Range(deque[v]) = {}
  BY <1>4 DEF PoolInv, JobsInv
<1>6. \A j \in JobIds : ttl[j] = 0
  <2>1. ASSUME NEW j \in JobIds, ttl[j] # 0 PROVE FALSE
    <3>1. j # Root /\ j # NoJob
      BY <2>1, <1>1, Constants
    <3>2. \E v \in Workers : j \in Range(deque[v]) \/ Held(v) = j
      BY <2>1, <3>1 DEF PoolInv, JobsInv
    <3>3. QED
      BY <1>5, <3>1, <3>2
  <2>2. QED
    BY <2>1
<1>7. ASSUME NEW v \in Workers, v # 0 PROVE Free(v)
  <2>1. CallInv(v) /\ Held(v) = NoJob
    BY <1>5 DEF PoolInv
  <2>2. call[v].pc \notin {"adopt", "push", "count", "batch"}
    BY <2>1 DEF CallInv, Held
  <2>3. call[v].pc = "run" => ~Inside(v)
    <3>1. Inside(v) => Top(v).job \in JobIds
      BY InsideFacts DEF PoolInv
    <3>2. QED
      BY <3>1, <2>1, Constants DEF Held
  <2>4. call[v].pc # "release"
    <3>1. SUFFICES ASSUME call[v].pc = "release" PROVE FALSE
      OBVIOUS
    <3>2. Inside(v) /\ call[v].job # NoJob
      BY <3>1, <2>1, <1>7 DEF CallInv
    <3>3. call[v].job # Root
      BY <3>1, <1>3 DEF Releasing, Releases, At
    <3>4. QED
      BY <3>1, <3>2, <3>3, <2>1 DEF Held
  <2>5. call[v].pc = "climb" => Inside(v) /\ call[v].n # 1
    <3>1. ~Decides(v)
      BY <1>3 DEF Deciding
    <3>2. QED
      BY <3>1, <2>1, <1>7 DEF CallInv, Decides, At
  <2>6. QED
    BY <2>2, <2>3, <2>4, <2>5 DEF Free
<1>8. /\ StackInv' /\ Root' = NoJob /\ ~Inside(0)'
      /\ stack' \in [Workers -> Seq(Frames)] /\ call' \in [Workers -> Calls]
      /\ call'[0] = Running
      /\ \A v \in Workers : v # 0 => stack'[v] = stack[v] /\ call'[v] = call[v]
  <2>1. NoJob \in Maybe
    BY DEF Maybe
  <2>2. QED
    BY <2>1, <1>1, <1>2, ReturnFacts DEF PoolInv
<1>9. Types'
  BY <1>8 DEF PoolInv, Types, fields, threads
<1>10. \A v \in Workers : Range(deque'[v]) = {} /\ IsInjective(deque'[v])
  BY <1>5 DEF PoolInv, JobsInv
<1>11. \A j \in JobIds : ttl'[j] = 0
  BY <1>6 DEF fields
<1>12. QED
  BY <1>7, <1>8, <1>9, <1>10, <1>11, NoRootLeft

LEMMA ClimbKeeps ==
  ASSUME PoolInv, NEW w \in Workers, Climb(w)
  PROVE  PoolInv'
<1>1. call[w].pc = "climb" /\ UNCHANGED <<fields, next, deque, threads>>
  BY DEF Climb, At
<1>2. CASE /\ call[w].n = 1 /\ parent[call[w].job] # NoJob
           /\ call' = [call EXCEPT ![w].pc = "release", ![w].job = parent[call[w].job]]
           /\ UNCHANGED stack
  BY <1>1, <1>2, ClimbUpKeeps
<1>3. CASE /\ call[w].n = 0 \/ parent[call[w].job] = NoJob
           /\ Finalized(w)
  <2>1. CASE Inside(w)
    BY <1>1, <1>3, <2>1, LeaveKeeps
  <2>2. CASE ~Inside(w)
    <3>1. w = 0
      BY <1>1, <2>2 DEF PoolInv, CallInv
    <3>2. QED
      BY <1>1, <1>3, <2>2, <3>1, WaitReturnsKeeps
  <2>3. QED
    BY <2>1, <2>2
<1>4. QED
  BY <1>2, <1>3 DEF Climb

-----------------------------------------------------------------------------
(* shutdown destroys the jobs.                                             *)

LEMMA JoinedKeeps ==
  ASSUME PoolInv, Joined
  PROVE  PoolInv'
<1>1. /\ 0 \in Workers /\ ~Inside(0) /\ Main.code # <<>> /\ NextOp = "shutdown"
      /\ Return(0, NoJob)
  BY Constants DEF Joined, At, PoolInv, CallInv
<1>2. Root = NoJob
  BY <1>1, NextFacts DEF PoolInv
<1>3. /\ StackInv' /\ Root' = NoJob /\ ~Inside(0)'
      /\ stack' \in [Workers -> Seq(Frames)] /\ call' \in [Workers -> Calls]
      /\ call'[0] = Running
      /\ \A v \in Workers : v # 0 => stack'[v] = stack[v] /\ call'[v] = call[v]
  <2>1. NoJob \in Maybe
    BY DEF Maybe
  <2>2. QED
    BY <2>1, <1>1, ReturnFacts DEF PoolInv
<1>4. \A v \in Workers : Free(v)
  BY <1>2, NothingWithoutRoot DEF Free
<1>5. \A v \in Workers : deque'[v] = <<>>
  BY DEF Joined
<1>6. \A v \in Workers : Range(deque'[v]) = {} /\ IsInjective(deque'[v])
  BY <1>5 DEF Range, IsInjective
<1>7. \A j \in JobIds : ttl'[j] = 0
  BY DEF Joined
<1>8. Types'
  <2>1. /\ ttl' \in [JobIds -> Nat] /\ parent' \in [JobIds -> Maybe]
        /\ ancestor' \in [JobIds -> Maybe]
    BY DEF Joined, Maybe
  <2>2. next' \in [Workers -> Nat] /\ deque' \in [Workers -> Seq(JobIds)]
    BY EmptySeq DEF Joined
  <2>3. spawned' \in 0 .. NumWorkers /\ stopping' \in BOOLEAN /\ exited' \in SUBSET Workers
    BY Constants DEF Joined
  <2>4. QED
    BY <2>1, <2>2, <2>3, <1>3 DEF PoolInv, Types, Joined
<1>9. QED
  BY <1>3, <1>4, <1>6, <1>7, <1>8, NoRootLeft

-----------------------------------------------------------------------------
(* The invariant holds.                                                    *)

LEMMA InitHolds == Init /\ RootByRoot => PoolInv
<1> SUFFICES ASSUME Init, RootByRoot PROVE PoolInv
  OBVIOUS
<1> DEFINE m == Frame(NoJob, option.main)
<1>1. option.main \in Seq(Ops)
  BY SetupsAssumption DEF Init
<1>2. m \in Frames /\ m.job = NoJob /\ m.root = NoJob /\ m.code = option.main
  BY <1>1 DEF Frame, Frames, Maybe
<1> HIDE DEF m
<1>3. \A w \in Workers : stack[w] = IF w = 0 THEN <<m>> ELSE <<>>
  BY DEF Init, m
<1>4. Main = m /\ Root = NoJob
  BY <1>2, <1>3, Constants DEF Main, Root
<1>5. \A w \in Workers : ~Inside(w) /\ call[w] = Running
  <2>1. Len(<<m>>) = 1
    BY <1>2, Tuples
  <2>2. QED
    BY <2>1, <1>3 DEF Inside, Init
<1>6. StackInv
  <2>1. Orderly(Main.code, Root # NoJob)
    <3>1. (Root # NoJob) = FALSE
      BY <1>4
    <3>2. QED
      BY <3>1, <1>2, <1>4 DEF RootByRoot
  <2>2. QED
    BY <2>1, <1>2, <1>3, <1>4, <1>5, Constants DEF StackInv
<1>7. \A w \in Workers : CallInv(w) /\ Held(w) = NoJob
  BY <1>5 DEF CallInv, Held, Running
<1>8. \A w \in Workers : Range(deque[w]) = {} /\ IsInjective(deque[w])
  BY DEF Init, Range, IsInjective
<1>9. JobsInv
  <2>1. \A j \in JobIds : ttl[j] = 0
    BY DEF Init
  <2>2. QED
    BY <2>1, <1>7, <1>8 DEF JobsInv
<1>10. RootInv
  BY <1>4 DEF RootInv
<1>11. Types
  <2>1. stack \in [Workers -> Seq(Frames)]
    <3>1. <<m>> \in Seq(Frames) /\ <<>> \in Seq(Frames)
      BY <1>2, Tuples, EmptySeq
    <3>2. stack = [w \in Workers |-> IF w = 0 THEN <<m>> ELSE <<>>]
      BY DEF Init, m
    <3>3. QED
      BY <3>1, <3>2
  <2>2. call \in [Workers -> Calls]
    <3>1. Running \in Calls
      BY Constants DEF Running, Calls, PCs, Maybe
    <3>2. QED
      BY <3>1 DEF Init
  <2>3. deque \in [Workers -> Seq(JobIds)] /\ next \in [Workers -> Nat]
    BY EmptySeq DEF Init
  <2>4. /\ ttl \in [JobIds -> Nat] /\ parent \in [JobIds -> Maybe]
        /\ ancestor \in [JobIds -> Maybe]
        /\ entry \in [JobIds -> Entries \cup {CHOOSE e \in Entries : TRUE}]
    BY DEF Init, Maybe
  <2>5. spawned \in 0 .. NumWorkers /\ stopping \in BOOLEAN /\ exited \in SUBSET Workers
    <3>1. 0 \in 0 .. NumWorkers /\ NumWorkers \in 0 .. NumWorkers
      BY Constants
    <3>2. QED
      BY <3>1 DEF Init
  <2>6. QED
    BY <2>1, <2>2, <2>3, <2>4, <2>5 DEF Types, Init
<1>12. QED
  BY <1>6, <1>7, <1>9, <1>10, <1>11 DEF PoolInv

LEMMA StutterKeeps == PoolInv /\ UNCHANGED vars => PoolInv'
<1> SUFFICES ASSUME PoolInv, UNCHANGED vars PROVE PoolInv'
  OBVIOUS
<1>1. /\ stack' = stack /\ call' = call /\ deque' = deque /\ next' = next
      /\ fields' = fields /\ threads' = threads
  BY DEF vars
<1>2. Main' = Main /\ Root' = Root /\ NextOp' = NextOp
  BY <1>1 DEF Main, Root, NextOp
<1>3. \A v \in Workers : /\ Inside(v)' <=> Inside(v)
                         /\ Held(v)' = Held(v)
                         /\ Releases(v)' <=> Releases(v)
                         /\ \A k : Adopts(v, k)' <=> Adopts(v, k)
  BY <1>1, <1>2, OtherWorker
<1>4. StackInv'
  BY <1>1, <1>2, <1>3, Constants DEF PoolInv, StackInv
<1>5. \A v \in Workers : CallInv(v)'
  BY <1>1, <1>2, OtherCall DEF PoolInv, Types, Calls, fields
<1>6. JobsInv'
  BY <1>1, <1>2, <1>3, JobsSame DEF PoolInv
<1>7. RootInv'
  <2>1. \A v \in Workers : Decides(v)' <=> Decides(v)
    BY <1>1, <1>2 DEF Decides, At, fields
  <2>2. RootAwaited' <=> RootAwaited
    BY <1>1, <1>3, Constants DEF RootAwaited
  <2>3. QED
    BY <2>1, <2>2, <1>1, <1>2, <1>3, RootSame DEF PoolInv
<1>8. Types'
  BY <1>1 DEF PoolInv, Types, fields, threads
<1>9. QED
  BY <1>4, <1>5, <1>6, <1>7, <1>8 DEF PoolInv

LEMMA NextKeeps == PoolInv /\ [Next]_vars => PoolInv'
<1> SUFFICES ASSUME PoolInv, [Next]_vars PROVE PoolInv'
  OBVIOUS
<1>1. ASSUME NEW w \in Workers, Step(w) PROVE PoolInv'
  <2>1. CASE Add(w)
    BY <2>1, AddKeeps
  <2>2. CASE ScanNext(w)
    BY <2>2, ScanNextKeeps
  <2>3. CASE Claim(w)
    BY <2>3, ClaimKeeps
  <2>4. CASE Adopt(w)
    BY <2>4, AdoptKeeps
  <2>5. CASE Push(w)
    BY <2>5, PushKeeps
  <2>6. CASE PopOwn(w)
    BY <2>6, PopOwnKeeps
  <2>7. CASE \E v \in Workers : StealFirst(w, v)
    BY <2>7, StealFirstKeeps
  <2>8. CASE StealCount(w)
    BY <2>8, StealCountKeeps
  <2>9. CASE StealMore(w)
    BY <2>9, StealMoreKeeps
  <2>10. CASE StealDone(w)
    BY <2>10, StealDoneKeeps
  <2>11. CASE Rescan(w)
    BY <2>11, RescanKeeps
  <2>12. CASE Finish(w)
    BY <2>12, FinishKeeps
  <2>13. CASE Wait(w)
    BY <2>13, WaitKeeps
  <2>14. CASE WaitOver(w)
    BY <2>14, WaitOverKeeps
  <2>15. CASE Release(w)
    BY <2>15, ReleaseKeeps
  <2>16. CASE Climb(w)
    BY <2>16, ClimbKeeps
  <2>17. CASE ThreadExit(w)
    BY <2>17, ThreadExitKeeps
  <2>18. QED
    BY <1>1, <2>1, <2>2, <2>3, <2>4, <2>5, <2>6, <2>7, <2>8, <2>9, <2>10, <2>11, <2>12,
       <2>13, <2>14, <2>15, <2>16, <2>17 DEF Step
<1>2. CASE Shutdown
  BY <1>2, ShutdownKeeps
<1>3. CASE Joined
  BY <1>3, JoinedKeeps
<1>4. CASE UNCHANGED vars
  BY <1>4, StutterKeeps
<1>5. QED
  BY <1>1, <1>2, <1>3, <1>4 DEF Next

\* Every state of a pool that is used root by root: every stack is a script or
\* one job, every child that is not done is in one deque or one pair of hands,
\* and the ttl of the root is what the children, the finalizers and the wait
\* still owe it (allocate_job to finalize_job in ix_ThreadPool.cpp).
THEOREM PoolInvariant == Spec /\ RootByRoot => []PoolInv
BY InitHolds, NextKeeps, PTL DEF Spec

-----------------------------------------------------------------------------
(* What the invariant says of the properties of ThreadPool.                *)

LEMMA WaitingJobs ==
  \A j : j \in Waiting <=>
    \E w \in Workers : \/ j \in Range(deque[w])
                       \/ /\ call[w].pc \in {"adopt", "push", "count", "batch"}
                          /\ j = call[w].job
<1> DEFINE Q(w) == Range(deque[w])
           U == UNION {Q(w) : w \in Workers}
           H == {call[w].job : w \in {x \in Workers :
                   call[x].pc \in {"adopt", "push", "count", "batch"}}}
<1>1. Waiting = U \cup H
  BY DEF Waiting
<1>2. \A j : j \in H <=>
        \E w \in Workers : /\ call[w].pc \in {"adopt", "push", "count", "batch"}
                           /\ j = call[w].job
  OBVIOUS
<1> HIDE DEF Q, H
<1>3. \A j : j \in U <=> \E w \in Workers : j \in Q(w)
  BY Zenon
<1> HIDE DEF U
<1>4. QED
  BY <1>1, <1>2, <1>3 DEF Q

LEMMA ActiveJobs ==
  \A j : j \in Active <=>
    /\ j # NoJob
    /\ \E w \in Workers : \E i \in DOMAIN stack[w] :
         /\ i = Len(stack[w]) /\ Finalizing(w) => AtOp(w, {"wait"})
         /\ j = stack[w][i].job
<1> DEFINE Entered(w) == {n \in DOMAIN stack[w] :
                            n = Len(stack[w]) /\ Finalizing(w) => AtOp(w, {"wait"})}
           A(w) == {stack[w][i].job : i \in Entered(w)}
           U == UNION {A(w) : w \in Workers}
<1>1. Active = U \ {NoJob}
  BY DEF Active
<1>2. \A w, j : j \in A(w) <=>
        \E i \in DOMAIN stack[w] : /\ i = Len(stack[w]) /\ Finalizing(w) => AtOp(w, {"wait"})
                                   /\ j = stack[w][i].job
  BY Zenon
<1> HIDE DEF A
<1>3. \A j : j \in U <=> \E w \in Workers : j \in A(w)
  BY Zenon
<1> HIDE DEF U
<1>4. ASSUME NEW j
      PROVE  j \in Active <=> j # NoJob /\ \E w \in Workers : j \in A(w)
  BY <1>1, <1>3
<1>5. QED
  BY <1>2, <1>4

\* The jobs that wait or run are those in a deque or in a worker's hands,
\* without the one whose end is being told.
LEMMA UnfinishedJobs ==
  ASSUME PoolInv
  PROVE  \A j : j \in Waiting \cup Active <=>
           \E w \in Workers : \/ j \in Range(deque[w])
                              \/ j = Held(w) /\ j # NoJob /\ ~At(w, "release")
<1>1. ASSUME NEW w \in Workers, NEW i \in DOMAIN stack[w], stack[w][i].job # NoJob,
             i = Len(stack[w]) /\ Finalizing(w) => AtOp(w, {"wait"})
      PROVE  Held(w) = stack[w][i].job /\ ~At(w, "release")
  <2>1. Main \in Frames /\ Main.job = NoJob
    BY DEF PoolInv, StackInv
  <2>2. PICK k \in JobIds :
          stack[w] = IF w = 0 THEN <<Main, Frame(k, <<>>)>> ELSE <<Frame(k, <<>>)>>
    <3>1. CASE stack[w] = IF w = 0 THEN <<Main>> ELSE <<>>
      <4>1. w = 0 /\ stack[w] = <<Main>> /\ i \in 1 .. 1
        BY <3>1
      <4>2. stack[w][i] = Main
        BY <4>1
      <4>3. QED
        BY <4>2, <2>1, <1>1
    <3>2. QED
      BY <3>1 DEF PoolInv, StackInv
  <2>3. Frame(k, <<>>) \in Frames
    BY FrameType
  <2>4. i = Len(stack[w]) /\ stack[w][i] = Top(w) /\ Inside(w)
    <3>1. CASE w = 0
      <4>1. /\ stack[w] = <<Main, Frame(k, <<>>)>> /\ Len(<<Main, Frame(k, <<>>)>>) = 2
            /\ DOMAIN <<Main, Frame(k, <<>>)>> = 1 .. 2
        BY <3>1, <2>1, <2>2, <2>3, Tuples
      <4>2. i = 1 \/ i = 2
        BY <4>1
      <4>3. i # 1
        BY <4>1, <2>1, <1>1
      <4>4. QED
        BY <4>1, <4>2, <4>3, <3>1 DEF Top, Inside
    <3>2. CASE w # 0
      <4>1. stack[w] = <<Frame(k, <<>>)>> /\ Len(<<Frame(k, <<>>)>>) = 1
        BY <3>2, <2>2
      <4>2. i = 1
        BY <4>1
      <4>3. QED
        BY <4>1, <4>2, <3>2 DEF Top, Inside
    <3>3. QED
      BY <3>1, <3>2
  <2>5. ~Finalizing(w)
    BY <2>4, <1>1, InsideFacts DEF PoolInv
  <2>6. call[w].pc = "run"
    <3>1. call[w].pc \in PCs
      BY DEF PoolInv, Types, Calls
    <3>2. QED
      BY <3>1, <2>4, <2>5 DEF PCs, Finalizing, PoolInv, CallInv
  <2>7. QED
    BY <2>4, <2>6 DEF Held, At
<1>2. ASSUME NEW j, j \in Waiting \cup Active
      PROVE  \E w \in Workers : \/ j \in Range(deque[w])
                                \/ j = Held(w) /\ j # NoJob /\ ~At(w, "release")
  <2>1. CASE \E w \in Workers : j \in Range(deque[w])
    BY <2>1
  <2>2. CASE \E w \in Workers :
               call[w].pc \in {"adopt", "push", "count", "batch"} /\ j = call[w].job
    BY <2>2 DEF PoolInv, CallInv, Held, At
  <2>3. CASE j \in Active
    <3>1. PICK w \in Workers : \E i \in DOMAIN stack[w] :
            /\ i = Len(stack[w]) /\ Finalizing(w) => AtOp(w, {"wait"})
            /\ j = stack[w][i].job /\ j # NoJob
      BY <2>3, ActiveJobs
    <3>2. QED
      BY <3>1, <1>1
  <2>4. QED
    BY <1>2, <2>1, <2>2, <2>3, WaitingJobs
<1>3. ASSUME NEW w \in Workers, NEW j \in Range(deque[w]) PROVE j \in Waiting
  BY <1>3, WaitingJobs
<1>4. ASSUME NEW w \in Workers, Held(w) # NoJob, ~At(w, "release")
      PROVE  Held(w) \in Waiting \cup Active
  <2>1. CASE call[w].pc \in {"adopt", "push", "count", "batch"}
    BY <2>1, WaitingJobs DEF Held
  <2>2. CASE call[w].pc \notin {"adopt", "push", "count", "batch"}
    <3>1. Inside(w) /\ call[w].pc = "run" /\ Held(w) = Top(w).job
      BY <2>2, <1>4 DEF Held, At
    <3>2. stack[w] \in Seq(Frames) /\ Len(stack[w]) # 0
      BY <3>1 DEF PoolInv, Types, Inside
    <3>3. Len(stack[w]) \in DOMAIN stack[w]
      BY <3>2
    <3>4. ~Finalizing(w)
      BY <3>1 DEF Finalizing
    <3>5. QED
      BY <3>1, <3>3, <3>4, <1>4, ActiveJobs DEF Top
  <2>3. QED
    BY <2>1, <2>2
<1>5. QED
  BY <1>2, <1>3, <1>4

LEMMA UnfinishedJobsAreKids ==
  ASSUME PoolInv
  PROVE  \A j \in Waiting \cup Active : Kid(j)
BY UnfinishedJobs DEF PoolInv, JobsInv

\* No job is freed before its entry returns, so that no slot is filled again
\* under a job that waits or runs: the assertions on ttl in get_executable_job
\* and steal_top hold.
THEOREM LiveJobsTheorem == Spec /\ RootByRoot => []UnfinishedJobsAreLive
<1>1. PoolInv => UnfinishedJobsAreLive
  BY UnfinishedJobsAreKids DEF UnfinishedJobsAreLive, Kid
<1>2. QED
  BY <1>1, PoolInvariant, PTL

\* Whom a job that is not the root still owes a count: the finalizer that is
\* about to free it, and nobody else.
LEMMA OwedToOthers ==
  ASSUME PoolInv, NEW j \in JobIds, j # Root
  PROVE  Owed(j) = Cardinality({w \in Workers : At(w, "release") /\ Held(w) = j})
<1> DEFINE S == {k \in JobIds : /\ k # j /\ parent[k] = j /\ ttl[k] > 0
                                /\ \A w \in Workers : ~(At(w, "adopt") /\ call[w].job = k)}
           D == {w \in Workers : /\ At(w, "climb") /\ call[w].n = 1
                                 /\ parent[call[w].job] = j}
           R == {w \in Workers : At(w, "release") /\ call[w].job = j}
<1>1. Root # NoJob => parent[Root] = NoJob
  BY RootFacts
<1>2. S = {}
  <2>1. ASSUME NEW k \in JobIds, parent[k] = j, ttl[k] > 0 PROVE FALSE
    <3>1. k # Root
      BY <2>1, <1>1, Constants
    <3>2. ttl[k] # 0
      BY <2>1
    <3>3. Kid(k)
      BY <3>1, <3>2, Constants DEF PoolInv, JobsInv
    <3>4. QED
      BY <3>3, <2>1 DEF Kid
  <2>2. QED
    BY <2>1
<1>3. D = {}
  <2>1. ASSUME NEW w \in Workers, At(w, "climb"), call[w].n = 1, parent[call[w].job] = j
        PROVE  FALSE
    <3>1. call[w].job # NoJob
      BY <2>1 DEF PoolInv, CallInv, At
    <3>2. CASE Inside(w)
      BY <2>1, <3>2 DEF PoolInv, CallInv, At
    <3>3. CASE ~Inside(w)
      <4>1. call[w].job = Root
        BY <2>1, <3>3 DEF PoolInv, CallInv, At
      <4>2. QED
        BY <4>1, <3>1, <2>1, <1>1, Constants
    <3>4. QED
      BY <3>2, <3>3
  <2>2. QED
    BY <2>1
<1>4. R = {w \in Workers : At(w, "release") /\ Held(w) = j}
  <2>1. ASSUME NEW w \in Workers, At(w, "release")
        PROVE  call[w].job = j <=> Held(w) = j
    <3>1. ~Inside(w) => call[w].job = Root
      BY <2>1 DEF PoolInv, CallInv, At
    <3>2. QED
      BY <3>1, <2>1, Constants DEF Held, At
  <2>2. QED
    BY <2>1
<1>5. Owed(j) = Cardinality(S) + Cardinality(D) + Cardinality(R)
  BY DEF Owed
<1> HIDE DEF S, D, R
<1>6. Cardinality(S) = 0 /\ Cardinality(D) = 0
  BY <1>2, <1>3, FS_EmptySet
<1>7. Cardinality(R) \in Nat
  <2>1. R \in SUBSET Workers
    BY DEF R
  <2>2. QED
    BY <2>1, Constants, FS_Subset, FS_CardinalityType
<1>8. Owed(j) = Cardinality(R)
  BY <1>5, <1>6, <1>7
<1>9. QED
  BY <1>4, <1>8

\* Only the root is waited for, until its wait begins to release it.
LEMMA AwaitedJobs ==
  ASSUME PoolInv, NEW j \in JobIds
  PROVE  Awaited(j) <=> j = Root /\ RootAwaited
<1>1. ASSUME NEW w \in Workers
      PROVE  ~(At(w, "push") /\ AtOp(w, {"root"}))
  <2>1. SUFFICES ASSUME At(w, "push") PROVE ~AtOp(w, {"root"})
    OBVIOUS
  <2>2. w = 0 /\ ~Inside(0) /\ NextOp = "child"
    BY <2>1 DEF At, PoolInv, CallInv
  <2>3. QED
    BY <2>2, OutsideFacts, Constants DEF PoolInv
<1>2. ASSUME NEW w \in Workers, NEW i \in DOMAIN stack[w], stack[w][i].root = j
      PROVE  w = 0 /\ i = 1
  <2>1. CASE stack[w] = IF w = 0 THEN <<Main>> ELSE <<>>
    BY <2>1
  <2>2. ASSUME NEW k \in JobIds,
               stack[w] = IF w = 0 THEN <<Main, Frame(k, <<>>)>> ELSE <<Frame(k, <<>>)>>
        PROVE  w = 0 /\ i = 1
    <3> DEFINE f == Frame(k, <<>>)
    <3>1. f.root = NoJob /\ j # NoJob
      BY Constants DEF Frame
    <3> HIDE DEF f
    <3>2. CASE w = 0
      <4>1. stack[w] = <<Main, f>>
        BY <2>2, <3>2 DEF f
      <4>2. i = 1 \/ i = 2
        BY <4>1
      <4>3. i # 2
        BY <4>1, <3>1, <1>2
      <4>4. QED
        BY <4>2, <4>3, <3>2
    <3>3. CASE w # 0
      <4>1. stack[w] = <<f>>
        BY <2>2, <3>3 DEF f
      <4>2. i = 1
        BY <4>1
      <4>3. QED
        BY <4>1, <4>2, <3>1, <1>2
    <3>4. QED
      BY <3>2, <3>3
  <2>3. QED
    BY <2>1, <2>2 DEF PoolInv, StackInv
<1>3. /\ 0 \in Workers /\ 1 \in DOMAIN stack[0] /\ stack[0][1] = Main
      /\ Len(stack[0]) = IF Inside(0) THEN 2 ELSE 1
  <2>1. 0 \in Workers /\ Main \in Frames
    BY Constants DEF PoolInv, StackInv
  <2>2. CASE Inside(0)
    <3>1. PICK k \in JobIds : stack[0] = <<Main, Frame(k, <<>>)>>
      BY <2>1, <2>2, Shapes DEF PoolInv
    <3>2. Len(<<Main, Frame(k, <<>>)>>) = 2
      BY <2>1, FrameType, Tuples
    <3>3. QED
      BY <3>1, <3>2, <2>1, <2>2 DEF Main
  <2>3. CASE ~Inside(0)
    <3>1. stack[0] = <<Main>> /\ Len(stack[0]) = 1
      BY <2>1, <2>3, OutsideFacts DEF PoolInv
    <3>2. QED
      BY <3>1, <2>1, <2>3
  <2>4. QED
    BY <2>2, <2>3
<1>4. (1 = Len(stack[0]) /\ Finalizing(0) => ~AtOp(0, {"wait"})) <=> RootAwaited
  <2>1. CASE Inside(0)
    BY <2>1, <1>3 DEF RootAwaited
  <2>2. CASE ~Inside(0)
    <3>1. Finalizing(0) => AtOp(0, {"wait"})
      <4>1. Finalizing(0) => Main.code # <<>> /\ NextOp = "wait"
        BY <2>2, <1>3 DEF Finalizing, PoolInv, CallInv
      <4>2. QED
        BY <4>1, <2>2, <1>3, OutsideFacts DEF PoolInv
    <3>2. QED
      BY <3>1, <2>2, <1>3 DEF RootAwaited, Finalizing
  <2>3. QED
    BY <2>1, <2>2
<1>5. QED
  BY <1>1, <1>2, <1>3, <1>4 DEF Awaited, Root

\* ttl counts exactly what keeps a job, in every state: allocate_job,
\* add_job's fetch_add and finalize_job's fetch_sub neither lose a count nor
\* leave one over.
THEOREM TtlCountsTheorem == Spec /\ RootByRoot => []TtlCounts
<1>1. ASSUME PoolInv, NEW j \in JobIds
      PROVE  ttl[j] = Owed(j) + (IF j \in Waiting \cup Active THEN 1 ELSE 0)
                              + (IF Awaited(j) THEN 1 ELSE 0)
  <2>1. CASE j = Root
    <3>1. j \notin Waiting \cup Active
      BY <1>1, <2>1, UnfinishedJobsAreKids DEF Kid
    <3>2. Owed(j) \in Nat
      <4>1. Owed(Root) = RootCount /\ RootCount \in Nat
        BY OwedToRoot DEF RootCount
      <4>2. QED
        BY <4>1, <2>1
    <3>3. ttl[j] = Owed(j) + IF RootAwaited THEN 1 ELSE 0
      BY <1>1, <2>1, Constants DEF PoolInv, RootInv
    <3>4. Awaited(j) <=> RootAwaited
      BY <1>1, <2>1, AwaitedJobs
    <3>5. QED
      BY <3>1, <3>2, <3>3, <3>4
  <2>2. CASE j # Root
    <3> DEFINE R == {w \in Workers : At(w, "release") /\ Held(w) = j}
    <3>1. Owed(j) = Cardinality(R) /\ ~Awaited(j)
      BY <1>1, <2>2, OwedToOthers, AwaitedJobs
    <3>2. j # NoJob /\ ttl[j] \in Nat
      BY <1>1, Constants DEF PoolInv, Types
    <3>3. CASE \E w \in Workers : Held(w) = j /\ At(w, "release")
      <4>1. PICK w \in Workers : Held(w) = j /\ At(w, "release")
        BY <3>3
      <4>2. \A v \in Workers : j \notin Range(deque[v]) /\ (v # w => Held(v) # j)
        BY <4>1, <3>2, <1>1 DEF PoolInv, JobsInv
      <4>3. R = {w}
        BY <4>1, <4>2
      <4>4. Cardinality(R) = 1
        BY <4>3, FS_Singleton
      <4>5. j \notin Waiting \cup Active
        BY <4>1, <4>2, <1>1, UnfinishedJobs
      <4>6. ttl[j] = 1
        BY <4>1, <3>2, <1>1 DEF PoolInv, JobsInv, Kid
      <4> HIDE DEF R
      <4>7. QED
        BY <4>4, <4>5, <4>6, <3>1
    <3>4. CASE ~ \E w \in Workers : Held(w) = j /\ At(w, "release")
      <4>1. R = {}
        BY <3>4
      <4>2. Cardinality(R) = 0
        BY <4>1, FS_EmptySet
      <4>3. j \in Waiting \cup Active =>  ttl[j] = 1
        BY <1>1, UnfinishedJobsAreKids DEF Kid
      <4>4. j \notin Waiting \cup Active => ttl[j] = 0
        <5>1. SUFFICES ASSUME ttl[j] # 0 PROVE j \in Waiting \cup Active
          OBVIOUS
        <5>2. PICK w \in Workers : j \in Range(deque[w]) \/ Held(w) = j
          BY <5>1, <2>2, <1>1 DEF PoolInv, JobsInv
        <5>3. QED
          BY <5>2, <3>2, <3>4, <1>1, UnfinishedJobs
      <4> HIDE DEF R
      <4>5. QED
        BY <4>2, <4>3, <4>4, <3>1
    <3>5. QED
      BY <3>3, <3>4
  <2>3. QED
    BY <2>1, <2>2
<1>2. PoolInv => TtlCounts
  BY <1>1 DEF TtlCounts
<1>3. QED
  BY <1>2, PoolInvariant, PTL

\* When the wait for the root is over, no job of its tree waits or runs on any
\* worker: what cli.cpp relies on when it reads the results of the entries.
THEOREM WaitCoversTreeTheorem == Spec /\ RootByRoot => []WaitCoversTree
<1>1. ASSUME PoolInv, NEW w \in Workers, call[w].pc = "release", AtOp(w, {"wait"})
      PROVE  ttl[Top(w).root] = 1 /\ Waiting \cup Active = {}
  <2>1. ~Inside(w) /\ w = 0 /\ call[0].job = Root /\ ttl[Root] = 1 /\ ~RootAwaited
    <3>1. ~Inside(w)
      BY <1>1, InsideFacts DEF PoolInv
    <3>2. QED
      BY <3>1, <1>1 DEF PoolInv, CallInv, RootAwaited
  <2>2. Top(w).root = Root /\ Root # NoJob /\ 0 \in Workers
    BY <2>1, <1>1, OutsideFacts, Constants DEF PoolInv, CallInv, Root
  <2>3. RootCount = 1
    <3>1. ttl[Root] = RootCount + IF RootAwaited THEN 1 ELSE 0
      BY <1>1, <2>2, RootFacts
    <3>2. RootCount \in Nat
      BY OwedToRoot DEF RootCount
    <3>3. QED
      BY <3>1, <3>2, <2>1
  <2>4. Cardinality(Releasing) # 0
    <3>1. 0 \in Releasing
      BY <2>1, <2>2, <1>1 DEF Releasing, Releases, At
    <3>2. QED
      BY <3>1, OwedToRoot, FS_EmptySet
  <2>5. Living = {}
    <3>1. Cardinality(Living) = 0
      BY <2>3, <2>4, OwedToRoot DEF RootCount
    <3>2. QED
      BY <3>1, OwedToRoot, FS_EmptySet
  <2>6. \A k : ~Kid(k)
    <3>1. ASSUME NEW k, Kid(k) PROVE FALSE
      <4>1. PICK x \in Workers : Adopts(x, k)
        BY <3>1, <2>5 DEF Kid, Living
      <4>2. x = 0
        BY <4>1, <1>1 DEF Adopts, At, PoolInv, CallInv
      <4>3. QED
        BY <4>1, <4>2, <2>1, <1>1 DEF Adopts, At
    <3>2. QED
      BY <3>1
  <2>7. QED
    BY <2>1, <2>2, <2>6, <1>1, UnfinishedJobsAreKids
<1>2. PoolInv => WaitCoversTree
  BY <1>1 DEF WaitCoversTree
<1>3. QED
  BY <1>2, PoolInvariant, PTL
=============================================================================
