----------------------- MODULE JobStealingDequeProofs -----------------------
(***************************************************************************)
(* TLAPS proofs about JobStealingDeque, for every set of jobs and thieves  *)
(* and every initial capacity: its safety properties, and that it          *)
(* implements WorkStealingQueue.                                           *)
(***************************************************************************)
EXTENDS JobStealingDeque, ProofLemmas

-----------------------------------------------------------------------------
(* The ring: positions of indices in an array.                             *)

\* An index has a position in every array: `i & (capacity - 1)' is in bounds.
LEMMA PositionType ==
  ASSUME NEW i \in Nat, NEW c \in Nat \ {0}
  PROVE  Position(i, c) \in 1 .. c
BY DEF Position

\* Two indices less than a capacity apart never share a slot: why a push does
\* not overwrite a live job as long as bottom - top < capacity.
LEMMA PositionInjective ==
  ASSUME NEW i \in Nat, NEW k \in Nat, NEW c \in Nat \ {0},
         i < k, k - i < c
  PROVE  Position(i, c) # Position(k, c)
<1> SUFFICES ASSUME i % c = k % c PROVE FALSE
  BY DEF Position
<1> DEFINE q == (k \div c) - (i \div c)
<1>1. i = c * (i \div c) + (i % c) /\ k = c * (k \div c) + (k % c)
  OBVIOUS
<1>2. (k \div c) \in Int /\ (i \div c) \in Int /\ q \in Int
  OBVIOUS
<1>3. k - i = c * q
  BY <1>1, <1>2
<1>4. CASE q <= 0
  BY <1>2, <1>3, <1>4
<1>5. CASE q >= 1
  BY <1>2, <1>3, <1>5
<1>6. QED
  BY <1>2, <1>4, <1>5

-----------------------------------------------------------------------------
(* Typing facts every step uses.                                           *)

\* A thread that only moves on to another step keeps the type of its locals.
LEMMA GotoType ==
  ASSUME TypeOK, NEW p \in Threads, NEW pc \in PCs, Goto(p, pc)
  PROVE  local' \in [Threads -> [pc : PCs, t : Nat, array : Nat,
                                 job : Jobs \cup {Garbage, NoJob}]]
<1>1. local[p] \in [pc : PCs, t : Nat, array : Nat, job : Jobs \cup {Garbage, NoJob}]
  BY DEF TypeOK
<1>2. [local[p] EXCEPT !.pc = pc] \in [pc : PCs, t : Nat, array : Nat,
                                       job : Jobs \cup {Garbage, NoJob}]
  BY <1>1
<1>3. local' = [local EXCEPT ![p] = [local[p] EXCEPT !.pc = pc]]
  BY DEF Goto
<1>4. QED
  BY <1>2, <1>3 DEF TypeOK

\* The indices, the capacity and the window are natural numbers.
LEMMA Numbers ==
  ASSUME TypeOK, WindowInv
  PROVE  /\ top \in Nat /\ bottom \in Nat /\ End \in Nat /\ Capacity \in Nat
         /\ Len(arrays) \in Nat
         /\ arrays # <<>> => Capacity > 0 /\ Len(arrays) \in 1 .. Len(arrays)
         /\ arrays = <<>> => Capacity = 0 /\ top = End
<1>1. /\ top \in Nat /\ bottom \in Nat /\ End \in Nat /\ Len(arrays) \in Nat
      /\ arrays \in Seq(Seq(Jobs \cup {Garbage}))
  BY DEF TypeOK, End
<1>2. CASE arrays = <<>>
  BY <1>1, <1>2, OriginAssumption DEF WindowInv, Capacity
<1>3. CASE arrays # <<>>
  <2>1. Len(arrays) \in 1 .. Len(arrays)
    BY <1>1, <1>3
  <2>2. CurrentArray \in Seq(Jobs \cup {Garbage}) /\ Len(CurrentArray) > 0
    BY <1>1, <2>1 DEF CurrentArray, WindowInv
  <2>3. QED
    BY <1>1, <1>3, <2>1, <2>2 DEF Capacity
<1>4. QED
  BY <1>2, <1>3

\* The capacity is the length of the current array, and every index has a slot.
LEMMA Slots ==
  ASSUME TypeOK, WindowInv, arrays # <<>>
  PROVE  /\ CurrentArray \in Seq(Jobs \cup {Garbage})
         /\ Capacity = Len(CurrentArray)
         /\ \A i \in Nat : /\ Position(i, Capacity) \in 1 .. Capacity
                           /\ At(i) \in Jobs \cup {Garbage}
<1>1. Capacity \in Nat \ {0} /\ Len(arrays) \in 1 .. Len(arrays)
  BY Numbers
<1>2. CurrentArray \in Seq(Jobs \cup {Garbage})
  BY <1>1 DEF CurrentArray, TypeOK
<1>3. Capacity = Len(CurrentArray)
  BY DEF Capacity
<1>4. ASSUME NEW i \in Nat
      PROVE  Position(i, Capacity) \in 1 .. Capacity /\ At(i) \in Jobs \cup {Garbage}
  <2>1. Position(i, Capacity) \in 1 .. Capacity
    BY <1>1, PositionType
  <2>2. QED
    BY <1>2, <1>3, <2>1 DEF At, Slot
<1>5. QED
  BY <1>2, <1>3, <1>4

-----------------------------------------------------------------------------
(* What steps do to the contents of the deque.                             *)

Core == WindowInv /\ ContentsInv /\ HandedOnce

\* A step that moves neither end, writes no slot and hands out no job.
LEMMA CoreUnchanged ==
  ASSUME Core, UNCHANGED <<top, arrays, pushed, taken>>, End' = End
  PROVE  Core'
<1>1. Capacity' = Capacity /\ CurrentArray' = CurrentArray
  BY DEF Capacity, CurrentArray
<1>2. \A i : At(i)' = At(i)
  BY <1>1 DEF At
<1>3. \A j : Handed(j)' = Handed(j)
  BY DEF Handed
<1>4. WindowInv'
  BY <1>1 DEF Core, WindowInv
<1>5. ContentsInv'
  BY <1>2, <1>3 DEF Core, ContentsInv
<1>6. HandedOnce'
  BY DEF Core, HandedOnce
<1>7. QED
  BY <1>4, <1>5, <1>6 DEF Core

\* A step that hands out the job at one end of the live indices and drops
\* that index: a successful CAS on m_top, or pop_bottom when jobs remain.
LEMMA CoreHand ==
  ASSUME TypeOK, Core, NEW p \in Threads, NEW i \in top .. End - 1,
         UNCHANGED <<arrays, pushed>>, Hand(p, At(i)),
         \/ i = top /\ top' = top + 1 /\ End' = End
         \/ i = End - 1 /\ top' = top /\ End' = End - 1
  PROVE  Core'
<1>1. Capacity' = Capacity /\ CurrentArray' = CurrentArray
  BY DEF Capacity, CurrentArray
<1>2. \A k : At(k)' = At(k)
  BY <1>1 DEF At
<1>3. At(i) \in pushed /\ At(i) \in Jobs /\ ~Handed(At(i))
  BY DEF Core, ContentsInv, TypeOK
<1>4. taken \in [Threads -> [Jobs -> Nat]]
  BY DEF TypeOK
<1>5. /\ taken' \in [Threads -> [Jobs -> Nat]]
      /\ \A q \in Threads, j \in Jobs :
           taken'[q][j] = IF q = p /\ j = At(i) THEN taken[q][j] + 1 ELSE taken[q][j]
  BY <1>3, <1>4 DEF Hand
<1>6. \A j \in Jobs : Handed(j)' <=> Handed(j) \/ j = At(i)
  BY <1>4, <1>5 DEF Handed
<1>7. top \in Nat /\ End \in Nat /\ Origin \in Nat
  BY OriginAssumption DEF TypeOK, End
<1>8. WindowInv'
  <2>1. WindowInv /\ Capacity \in Nat /\ (arrays = <<>> => top = End)
    BY Numbers DEF Core
  <2>2. arrays # <<>> /\ arrays' = arrays
    BY <1>7, <2>1
  <2>3. Origin <= top' /\ top' <= End' /\ End' - top' <= Capacity'
    BY <1>1, <1>7, <2>1 DEF WindowInv
  <2>4. QED
    BY <2>1, <2>2, <2>3 DEF WindowInv
<1>9. \A k : k \in (top .. End - 1)' <=> k \in top .. End - 1 /\ k # i
  BY <1>7
<1>10. \A j \in pushed : j \in Jobs
  BY DEF TypeOK
<1>11. ContentsInv'
  <2>1. \A k \in (top .. End - 1)' : At(k)' \in pushed' /\ ~Handed(At(k))'
    BY <1>2, <1>3, <1>6, <1>9, <1>10 DEF Core, ContentsInv
  <2>2. \A k, l \in (top .. End - 1)' : At(k)' = At(l)' => k = l
    BY <1>2, <1>9 DEF Core, ContentsInv
  <2>3. \A j \in pushed' : Handed(j)' \/ \E k \in (top .. End - 1)' : At(k)' = j
    BY <1>2, <1>6, <1>9, <1>10 DEF Core, ContentsInv
  <2>4. \A j \in Jobs : Handed(j)' => j \in pushed'
    BY <1>3, <1>6 DEF Core, ContentsInv
  <2>5. QED
    BY <2>1, <2>2, <2>3, <2>4 DEF ContentsInv
<1>12. HandedOnce'
  <2>1. \A q \in Threads : taken[q][At(i)] = 0
    BY <1>3, <1>4 DEF Handed
  <2>2. QED
    BY <1>3, <1>4, <1>5, <2>1 DEF Core, HandedOnce
<1>13. QED
  BY <1>8, <1>11, <1>12 DEF Core

\* The array a resize allocates holds, at the same indices, what the current
\* one holds at t .. bottom - 1.
LEMMA ResizedCopies ==
  ASSUME TypeOK, WindowInv, OwnerInv, local[Owner].pc = "push_resize"
  PROVE  LET t == local[Owner].t
             new == Resized(t)
         IN  /\ t \in Nat
             /\ new \in Seq(Jobs \cup {Garbage})
             /\ bottom - t < Len(new)
             /\ \A i \in t .. bottom - 1 : Slot(new, i) = At(i)
<1> DEFINE t == local[Owner].t
           new == Resized(t)
           c == IF arrays = <<>> THEN InitialCapacity ELSE 2 * Capacity
           Kept(s) == {i \in t .. bottom - 1 : Position(i, c) = s}
<1>1. /\ t \in Nat /\ bottom \in Nat /\ Capacity \in Nat
      /\ Capacity = bottom - t
      /\ arrays # <<>> => Capacity > 0
      /\ arrays = <<>> => Capacity = 0
  <2>1. t \in Nat /\ Capacity = bottom - t
    BY DEF OwnerInv, TypeOK, Threads
  <2>2. QED
    BY <2>1, Numbers
<1>2. c \in Nat \ {0} /\ bottom - t < c
  BY <1>1, CapacityAssumption
<1> HIDE DEF c
<1>3. new = [s \in 1 .. c |-> IF Kept(s) = {} THEN Garbage
                             ELSE Slot(CurrentArray, CHOOSE i \in Kept(s) : TRUE)]
  BY DEF Resized, c
<1>4. ASSUME NEW i \in t .. bottom - 1
      PROVE  i \in Nat /\ At(i) \in Jobs \cup {Garbage}
  <2>1. i \in Nat /\ arrays # <<>>
    BY <1>1
  <2>2. QED
    BY <2>1, Slots
<1>5. \A s \in 1 .. c : Kept(s) # {} => (CHOOSE i \in Kept(s) : TRUE) \in Kept(s)
  OBVIOUS
<1>6. \A s \in 1 .. c : new[s] \in Jobs \cup {Garbage}
  BY <1>3, <1>4, <1>5 DEF At
<1>7. new \in Seq(Jobs \cup {Garbage}) /\ Len(new) = c
  <2>1. new \in [1 .. c -> Jobs \cup {Garbage}]
    BY <1>3, <1>6
  <2>2. new \in Seq(Jobs \cup {Garbage})
    BY <1>2, <2>1, SeqDef
  <2>3. 1 .. c = 1 .. Len(new) /\ Len(new) \in Nat
    BY <2>1, <2>2, LenProperties
  <2>4. QED
    BY <1>2, <2>2, <2>3
<1>8. ASSUME NEW i \in t .. bottom - 1
      PROVE  Slot(new, i) = At(i)
  <2>1. i \in Nat /\ Position(i, c) \in 1 .. c
    BY <1>2, <1>4, PositionType
  <2>2. ASSUME NEW k \in t .. bottom - 1, Position(k, c) = Position(i, c)
        PROVE  k = i
    <3>1. k \in Nat /\ i - k < c /\ k - i < c
      BY <1>1, <1>2
    <3>2. QED
      BY <1>2, <2>1, <2>2, <3>1, PositionInjective
  <2>3. Kept(Position(i, c)) = {i}
    BY <2>2
  <2>4. new[Position(i, c)] = Slot(CurrentArray, i)
    BY <1>3, <2>1, <2>3
  <2>5. QED
    BY <1>7, <2>4 DEF Slot, At
<1>9. QED
  BY <1>1, <1>2, <1>7, <1>8

\* Publishing a larger array changes no live slot.
LEMMA CoreResize ==
  ASSUME IndInv, PushResize
  PROVE  /\ Core'
         /\ arrays' = Append(arrays, Resized(local[Owner].t))
         /\ Capacity' = Len(Resized(local[Owner].t))
         /\ End' = End
         /\ \A i \in top .. End - 1 : At(i)' = At(i)
<1> DEFINE t == local[Owner].t
           new == Resized(t)
<1>1. /\ TypeOK /\ WindowInv /\ OwnerInv /\ ContentsInv /\ HandedOnce
      /\ local[Owner].pc = "push_resize"
      /\ UNCHANGED <<top, bottom, pushed, taken>>
      /\ arrays' = Append(arrays, new)
  BY DEF IndInv, PushResize, history
<1>2. /\ t \in Nat /\ new \in Seq(Jobs \cup {Garbage}) /\ bottom - t < Len(new)
      /\ \A i \in t .. bottom - 1 : Slot(new, i) = At(i)
  BY <1>1, ResizedCopies
<1> HIDE DEF new
<1>3. /\ arrays \in Seq(Seq(Jobs \cup {Garbage}))
      /\ Len(arrays') = Len(arrays) + 1
      /\ arrays' # <<>>
      /\ arrays'[Len(arrays')] = new
      /\ \A a \in 1 .. Len(arrays) : arrays'[a] = arrays[a]
  BY <1>1, <1>2 DEF TypeOK
<1>4. CurrentArray' = new /\ Capacity' = Len(new)
  BY <1>3 DEF CurrentArray, Capacity
<1>5. End = bottom /\ End' = bottom
  BY <1>1 DEF End, Reserved, PushResize, Goto, TypeOK, Threads
<1>6. top \in Nat /\ bottom \in Nat /\ t <= top
  BY <1>1 DEF TypeOK, OwnerInv, Pushing
<1>7. ASSUME NEW i \in top .. End - 1 PROVE At(i)' = At(i)
  <2>1. i \in t .. bottom - 1
    BY <1>2, <1>5, <1>6
  <2>2. QED
    BY <1>2, <1>4, <2>1 DEF At
<1>8. WindowInv'
  <2>1. Len(new) > 0 /\ bottom - top <= Len(new)
    BY <1>1, <1>2, <1>5, <1>6 DEF WindowInv
  <2>2. \A b \in 1 .. Len(arrays') : Len(arrays'[b]) > 0
    BY <1>1, <1>3, <2>1 DEF WindowInv
  <2>3. /\ Origin <= top' /\ top' <= End' /\ End' - top' <= Capacity'
        /\ arrays' = <<>> => End' = Origin
    BY <1>1, <1>3, <1>4, <1>5, <2>1 DEF WindowInv
  <2>4. QED
    BY <2>2, <2>3 DEF WindowInv
<1>9. /\ \A i : i \in (top .. End - 1)' <=> i \in top .. End - 1
      /\ \A j : Handed(j)' <=> Handed(j)
  BY <1>1, <1>5 DEF Handed
<1>10. ContentsInv'
  <2>1. \A i \in (top .. End - 1)' : At(i)' \in pushed' /\ ~Handed(At(i))'
    BY <1>1, <1>7, <1>9 DEF ContentsInv
  <2>2. \A i, k \in (top .. End - 1)' : At(i)' = At(k)' => i = k
    BY <1>1, <1>7, <1>9 DEF ContentsInv
  <2>3. \A j \in pushed' : Handed(j)' \/ \E i \in (top .. End - 1)' : At(i)' = j
    BY <1>1, <1>7, <1>9 DEF ContentsInv
  <2>4. \A j \in Jobs : Handed(j)' => j \in pushed'
    BY <1>1, <1>9 DEF ContentsInv
  <2>5. QED
    BY <2>1, <2>2, <2>3, <2>4 DEF ContentsInv
<1>11. HandedOnce'
  BY <1>1 DEF HandedOnce
<1>12. QED
  BY <1>1, <1>4, <1>5, <1>7, <1>8, <1>10, <1>11 DEF Core, new

\* Writing the free slot at `bottom' changes no live slot.
LEMMA CoreSlot ==
  ASSUME IndInv, PushSlot
  PROVE  /\ Core'
         /\ arrays' \in Seq(Seq(Jobs \cup {Garbage}))
         /\ Len(arrays') = Len(arrays) /\ arrays' # <<>>
         /\ \A a \in 1 .. Len(arrays) : a # Len(arrays) => arrays'[a] = arrays[a]
         /\ CurrentArray' = arrays'[Len(arrays)]
         /\ Capacity' = Capacity
         /\ End' = End
         /\ \A i \in top .. End - 1 : At(i)' = At(i)
         /\ At(bottom)' = local[Owner].job
<1> DEFINE j == local[Owner].job
           n == Len(arrays)
           s == Position(bottom, Capacity)
<1>1. /\ TypeOK /\ WindowInv /\ OwnerInv /\ ContentsInv /\ HandedOnce
      /\ local[Owner].pc = "push_slot"
      /\ UNCHANGED <<top, bottom, pushed, taken>>
      /\ arrays' = [arrays EXCEPT ![n][s] = j]
  BY DEF IndInv, PushSlot, history
<1>2. /\ j \in Jobs /\ local[Owner].t \in Nat /\ local[Owner].t <= top
      /\ bottom - local[Owner].t < Capacity
  BY <1>1 DEF OwnerInv, Pushing, TypeOK, Threads
<1>3. End = bottom /\ End' = bottom
  BY <1>1 DEF End, Reserved, PushSlot, Goto, TypeOK, Threads
<1>4. top \in Nat /\ bottom \in Nat /\ Capacity \in Nat \ {0} /\ top <= bottom
  BY <1>1, <1>2, <1>3, Numbers DEF WindowInv
<1>5. arrays # <<>> /\ n \in 1 .. n /\ n \in Nat
  BY <1>1, <1>4, Numbers
<1>6. /\ CurrentArray \in Seq(Jobs \cup {Garbage})
      /\ Capacity = Len(CurrentArray) /\ s \in 1 .. Capacity
  BY <1>1, <1>4, <1>5, Slots
<1> DEFINE new == [CurrentArray EXCEPT ![s] = j]
<1>7. /\ new \in Seq(Jobs \cup {Garbage}) /\ Len(new) = Capacity
      /\ \A k \in 1 .. Capacity : new[k] = IF k = s THEN j ELSE CurrentArray[k]
  BY <1>2, <1>6, ExceptSeq
<1> HIDE DEF s
<1>8. arrays' = [arrays EXCEPT ![n] = new]
  BY <1>1 DEF CurrentArray
<1> HIDE DEF new
<1>9. /\ arrays' \in Seq(Seq(Jobs \cup {Garbage})) /\ Len(arrays') = n
      /\ \A a \in 1 .. n : arrays'[a] = IF a = n THEN new ELSE arrays[a]
  <2>1. arrays \in Seq(Seq(Jobs \cup {Garbage})) /\ n \in 1 .. Len(arrays)
    BY <1>1, <1>5 DEF TypeOK
  <2>2. new \in Seq(Jobs \cup {Garbage})
    BY <1>7
  <2>3. QED
    BY <1>8, <2>1, <2>2, ExceptSeq
<1>10. arrays' # <<>> /\ CurrentArray' = new /\ Capacity' = Capacity
  BY <1>5, <1>7, <1>9 DEF CurrentArray, Capacity
<1>11. ASSUME NEW i \in top .. End - 1 PROVE At(i)' = At(i)
  <2>1. i \in Nat /\ i < bottom /\ bottom - i < Capacity
    BY <1>2, <1>3, <1>4
  <2>2. Position(i, Capacity) \in 1 .. Capacity /\ Position(i, Capacity) # s
    BY <1>4, <2>1, PositionType, PositionInjective DEF s
  <2>3. QED
    BY <1>6, <1>7, <1>10, <2>2 DEF At, Slot
<1>12. At(bottom)' = j
  <2>1. At(bottom)' = new[s]
    BY <1>1, <1>7, <1>10 DEF At, Slot, s
  <2>2. QED
    BY <1>6, <1>7, <2>1
<1>13. WindowInv'
  BY <1>1, <1>3, <1>5, <1>7, <1>9, <1>10, <1>4 DEF WindowInv
<1>14. /\ \A i : i \in (top .. End - 1)' <=> i \in top .. End - 1
       /\ \A k : Handed(k)' <=> Handed(k)
  BY <1>1, <1>3 DEF Handed
<1>15. ContentsInv'
  <2>1. \A i \in (top .. End - 1)' : At(i)' \in pushed' /\ ~Handed(At(i))'
    BY <1>1, <1>11, <1>14 DEF ContentsInv
  <2>2. \A i, k \in (top .. End - 1)' : At(i)' = At(k)' => i = k
    BY <1>1, <1>11, <1>14 DEF ContentsInv
  <2>3. \A k \in pushed' : Handed(k)' \/ \E i \in (top .. End - 1)' : At(i)' = k
    BY <1>1, <1>11, <1>14 DEF ContentsInv
  <2>4. \A k \in Jobs : Handed(k)' => k \in pushed'
    BY <1>1, <1>14 DEF ContentsInv
  <2>5. QED
    BY <2>1, <2>2, <2>3, <2>4 DEF ContentsInv
<1>16. HandedOnce'
  BY <1>1 DEF HandedOnce
<1>17. QED
  BY <1>3, <1>9, <1>10, <1>11, <1>12, <1>13, <1>15, <1>16 DEF Core

\* Raising m_bottom makes the job written at `bottom' live.
LEMMA CoreBottom ==
  ASSUME IndInv, PushBottom
  PROVE  Core' /\ End' = End + 1
<1> DEFINE j == local[Owner].job
<1>1. /\ TypeOK /\ WindowInv /\ OwnerInv /\ ContentsInv /\ HandedOnce
      /\ local[Owner].pc = "push_bottom"
      /\ UNCHANGED <<top, arrays, taken>>
      /\ bottom' = bottom + 1 /\ pushed' = pushed \cup {j}
  BY DEF IndInv, PushBottom
<1>2. /\ j \in Jobs \ pushed /\ local[Owner].t \in Nat /\ local[Owner].t <= top
      /\ bottom - local[Owner].t < Capacity /\ At(bottom) = j
  BY <1>1 DEF OwnerInv, Pushing, TypeOK, Threads
<1>3. End = bottom /\ End' = bottom + 1
  BY <1>1 DEF End, Reserved, PushBottom, Return, Idle, TypeOK, Threads
<1>4. top \in Nat /\ bottom \in Nat /\ Capacity \in Nat /\ arrays # <<>>
  BY <1>1, <1>2, <1>3, Numbers DEF WindowInv
<1>5. Capacity' = Capacity /\ CurrentArray' = CurrentArray
  BY <1>1 DEF Capacity, CurrentArray
<1>6. WindowInv'
  BY <1>1, <1>2, <1>3, <1>4, <1>5 DEF WindowInv
<1>7. /\ \A i : At(i)' = At(i)
      /\ \A k : Handed(k)' <=> Handed(k)
  BY <1>1, <1>5 DEF At, Handed
<1>8. \A i : i \in (top .. End - 1)' <=> i \in top .. End - 1 \/ i = bottom
  BY <1>1, <1>3, <1>4 DEF WindowInv
<1>9. ~Handed(j)
  BY <1>1, <1>2 DEF ContentsInv
<1>10. ContentsInv'
  <2>1. \A i \in (top .. End - 1)' : At(i)' \in pushed' /\ ~Handed(At(i))'
    BY <1>1, <1>2, <1>7, <1>8, <1>9 DEF ContentsInv
  <2>2. \A i, k \in (top .. End - 1)' : At(i)' = At(k)' => i = k
    BY <1>1, <1>2, <1>7, <1>8 DEF ContentsInv
  <2>3. \A k \in pushed' : Handed(k)' \/ \E i \in (top .. End - 1)' : At(i)' = k
    BY <1>1, <1>2, <1>7, <1>8 DEF ContentsInv
  <2>4. \A k \in Jobs : Handed(k)' => k \in pushed'
    BY <1>1, <1>7 DEF ContentsInv
  <2>5. QED
    BY <2>1, <2>2, <2>3, <2>4 DEF ContentsInv
<1>11. HandedOnce'
  BY <1>1 DEF HandedOnce
<1>12. QED
  BY <1>3, <1>6, <1>10, <1>11 DEF Core

-----------------------------------------------------------------------------
(* What other threads' steps leave a thief with.                           *)

\* A step that keeps m_top and the live slots keeps what a waiting thief knows.
LEMMA ThiefStable ==
  ASSUME NEW p \in Thieves, TypeOK, WindowInv, ThiefInv(p),
         local'[p] = local[p],
         top' \in Nat, top <= top',
         Len(arrays') \in Nat, Len(arrays) <= Len(arrays'),
         arrays # <<>> => arrays' # <<>>,
         top' = top /\ top < End =>
           /\ top < End'
           /\ Slot(CurrentArray', top) = At(top)
           /\ \A a \in 1 .. Len(arrays) :
                Slot(arrays[a], top) = At(top) => Slot(arrays'[a], top) = At(top)
  PROVE  ThiefInv(p)'
<1>1. top \in Nat /\ local[p].t \in Nat /\ Len(arrays) \in Nat /\ Origin \in Nat
  BY OriginAssumption DEF TypeOK, Threads
<1>2. local[p].pc # "idle" /\ local[p].t = top' => top' = top
  BY <1>1 DEF ThiefInv
<1>3. ASSUME top' = top PROVE At(top)' = Slot(CurrentArray', top)
  BY <1>3 DEF At, Slot
<1>4. ASSUME NEW a \in 1 .. Len(arrays), top' = top, top < End,
             Slot(arrays[a], top) = At(top)
      PROVE  a \in 1 .. Len(arrays') /\ Slot(arrays'[a], top') = At(top)'
  BY <1>1, <1>3, <1>4
<1>5. QED
  BY <1>1, <1>2, <1>3, <1>4 DEF ThiefInv

\* A step of one thread that moves no end, writes no slot and hands out no job
\* keeps the contents and what all other thieves know.
LEMMA QuietStep ==
  ASSUME IndInv, UNCHANGED <<top, arrays, pushed, taken>>, End' = End
  PROVE  /\ Core'
         /\ \A p \in Thieves : local'[p] = local[p] => ThiefInv(p)'
<1>1. TypeOK /\ Core /\ WindowInv
  BY DEF IndInv, Core
<1>2. Core'
  BY <1>1, CoreUnchanged
<1>3. ASSUME NEW p \in Thieves, local'[p] = local[p]
      PROVE  ThiefInv(p)'
  <2>1. ThiefInv(p) /\ top \in Nat /\ Len(arrays) \in Nat
    BY Numbers, <1>1 DEF IndInv
  <2>2. Slot(CurrentArray', top) = At(top)
    BY DEF At, CurrentArray
  <2>3. QED
    BY <1>1, <1>3, <2>1, <2>2, ThiefStable
<1>4. QED
  BY <1>2, <1>3

\* Counting a job as handed out keeps the type of the counters.
LEMMA HandType ==
  ASSUME TypeOK, NEW p \in Threads, NEW j \in Jobs, Hand(p, j)
  PROVE  taken' \in [Threads -> [Jobs -> Nat]]
<1>1. taken \in [Threads -> [Jobs -> Nat]]
  BY DEF TypeOK
<1>2. taken[p][j] + 1 \in Nat
  BY <1>1
<1>3. QED
  BY <1>1, <1>2 DEF Hand

\* The inductive invariant, as its parts.
LEMMA IndInvParts ==
  TypeOK /\ Core /\ OwnerInv /\ (\A p \in Thieves : ThiefInv(p)) <=> IndInv
BY DEF IndInv, Core

-----------------------------------------------------------------------------
(* The owner's steps.                                                      *)

\* push_bottom decides whether to resize.
LEMMA PushLoadInv ==
  ASSUME IndInv, NEW j \in Jobs, PushLoad(j) PROVE IndInv'
<1>1. /\ TypeOK /\ WindowInv /\ OwnerInv
      /\ local[Owner].pc = "idle" /\ j \notin pushed
      /\ UNCHANGED <<top, bottom, arrays, pushed, taken>>
  BY DEF IndInv, PushLoad, shared, history
<1>2. TypeOK'
  BY <1>1 DEF TypeOK, PushLoad, Threads, PCs
<1>3. /\ local'[Owner] = [pc |-> IF Capacity < bottom - top + 1
                               THEN "push_resize" ELSE "push_slot",
                        t |-> top, array |-> 0, job |-> j]
      /\ \A p \in Thieves : local'[p] = local[p]
  BY <1>1, NamesAssumption DEF PushLoad, TypeOK, Threads
<1>4. End = bottom /\ End' = bottom
  BY <1>1, <1>3 DEF End, Reserved
<1>5. Core' /\ \A p \in Thieves : ThiefInv(p)'
  BY <1>1, <1>3, <1>4, QuietStep
<1>6. OwnerInv'
  <2>1. Capacity' = Capacity /\ Capacity \in Nat /\ top \in Nat /\ bottom \in Nat
    BY <1>1, Numbers DEF Capacity, CurrentArray
  <2>2. bottom - top <= Capacity
    BY <1>1, <1>4 DEF WindowInv
  <2>3. QED
    BY <1>1, <1>3, <2>1, <2>2 DEF OwnerInv, Pushing
<1>7. QED
  BY <1>2, <1>5, <1>6, IndInvParts DEF IndInv, Core

\* push_bottom publishes a larger array.
LEMMA PushResizeInv ==
  ASSUME IndInv, PushResize PROVE IndInv'
<1> DEFINE own == local[Owner]
           new == Resized(own.t)
<1>1. /\ TypeOK /\ WindowInv /\ OwnerInv /\ own.pc = "push_resize"
      /\ UNCHANGED <<top, bottom, pushed, taken>>
  BY DEF IndInv, PushResize, history
<1>2. /\ Core' /\ arrays' = Append(arrays, new) /\ Capacity' = Len(new) /\ End' = End
      /\ \A i \in top .. End - 1 : At(i)' = At(i)
  BY CoreResize
<1>3. /\ own.t \in Nat /\ new \in Seq(Jobs \cup {Garbage}) /\ bottom - own.t < Len(new)
  BY <1>1, ResizedCopies
<1>4. /\ local'[Owner] = [own EXCEPT !.pc = "push_slot"]
      /\ \A p \in Thieves : local'[p] = local[p]
  BY <1>1, NamesAssumption DEF PushResize, Goto, TypeOK, Threads
<1> HIDE DEF new
<1>5. /\ arrays \in Seq(Seq(Jobs \cup {Garbage}))
      /\ arrays' \in Seq(Seq(Jobs \cup {Garbage}))
      /\ Len(arrays) \in Nat /\ Len(arrays') = Len(arrays) + 1
      /\ arrays' # <<>>
      /\ \A a \in 1 .. Len(arrays) : arrays'[a] = arrays[a]
  BY <1>1, <1>2, <1>3 DEF TypeOK
<1>6. TypeOK'
  <2>1. Goto(Owner, "push_slot") /\ Owner \in Threads /\ "push_slot" \in PCs
    BY DEF PushResize, Threads, PCs
  <2>2. local' \in [Threads -> [pc : PCs, t : Nat, array : Nat,
                               job : Jobs \cup {Garbage, NoJob}]]
    BY <1>1, <2>1, GotoType
  <2>3. QED
    BY <1>1, <1>5, <2>2 DEF TypeOK
<1>7. OwnerInv'
  BY <1>1, <1>2, <1>3, <1>4 DEF OwnerInv, Pushing, TypeOK, Threads
<1>8. ASSUME NEW p \in Thieves PROVE ThiefInv(p)'
  <2>1. top \in Nat /\ ThiefInv(p)
    BY <1>1 DEF TypeOK, IndInv
  <2>2. top < End => Slot(CurrentArray', top) = At(top)
    <3>1. End \in Nat
      BY <1>1, Numbers
    <3>2. ASSUME top < End PROVE At(top)' = At(top)
      BY <1>1, <1>2, <2>1, <3>1, <3>2
    <3>3. QED
      BY <1>1, <3>2 DEF At
  <2>3. ASSUME NEW a \in 1 .. Len(arrays), Slot(arrays[a], top) = At(top)
        PROVE  Slot(arrays'[a], top) = At(top)
    BY <1>5, <2>3
  <2>4. top < End => top < End'
    BY <1>2
  <2>5. top' \in Nat /\ top <= top' /\ Len(arrays') \in Nat /\ Len(arrays) <= Len(arrays')
    BY <1>1, <1>5, <2>1
  <2>6. QED
    BY <1>1, <1>4, <1>5, <2>1, <2>2, <2>3, <2>4, <2>5, ThiefStable
<1>9. QED
  BY <1>2, <1>6, <1>7, <1>8 DEF IndInv, Core

\* push_bottom writes the slot.
LEMMA PushSlotInv ==
  ASSUME IndInv, PushSlot PROVE IndInv'
<1> DEFINE own == local[Owner]
<1>1. /\ TypeOK /\ WindowInv /\ OwnerInv /\ own.pc = "push_slot"
      /\ UNCHANGED <<top, bottom, pushed, taken>>
  BY DEF IndInv, PushSlot, history
<1>2. /\ Core'
      /\ arrays' \in Seq(Seq(Jobs \cup {Garbage}))
      /\ Len(arrays') = Len(arrays) /\ arrays' # <<>>
      /\ \A a \in 1 .. Len(arrays) : a # Len(arrays) => arrays'[a] = arrays[a]
      /\ CurrentArray' = arrays'[Len(arrays)]
      /\ Capacity' = Capacity /\ End' = End
      /\ \A i \in top .. End - 1 : At(i)' = At(i)
      /\ At(bottom)' = own.job
  BY CoreSlot
<1>3. /\ local'[Owner] = [own EXCEPT !.pc = "push_bottom"]
      /\ \A p \in Thieves : local'[p] = local[p]
  BY <1>1, NamesAssumption DEF PushSlot, Goto, TypeOK, Threads
<1>4. TypeOK'
  <2>1. Goto(Owner, "push_bottom") /\ Owner \in Threads /\ "push_bottom" \in PCs
    BY DEF PushSlot, Threads, PCs
  <2>2. local' \in [Threads -> [pc : PCs, t : Nat, array : Nat,
                               job : Jobs \cup {Garbage, NoJob}]]
    BY <1>1, <2>1, GotoType
  <2>3. QED
    BY <1>1, <1>2, <2>2 DEF TypeOK
<1>5. OwnerInv'
  <2>2. own \in [pc : PCs, t : Nat, array : Nat, job : Jobs \cup {Garbage, NoJob}]
    BY <1>1 DEF TypeOK, Threads
  <2>3. QED
    BY <1>1, <1>2, <1>3, <2>2 DEF OwnerInv, Pushing
<1>6. ASSUME NEW p \in Thieves PROVE ThiefInv(p)'
  <2>1. /\ top \in Nat /\ End \in Nat /\ Len(arrays) \in Nat /\ ThiefInv(p)
    BY <1>1, Numbers DEF IndInv
  <2>2. top < End => Slot(CurrentArray', top) = At(top)
    <3>1. ASSUME top < End PROVE At(top)' = At(top)
      BY <1>1, <1>2, <2>1, <3>1
    <3>2. QED
      BY <1>1, <3>1 DEF At
  <2>3. ASSUME NEW a \in 1 .. Len(arrays), top < End, Slot(arrays[a], top) = At(top)
        PROVE  Slot(arrays'[a], top) = At(top)
    BY <1>2, <2>2, <2>3
  <2>4. QED
    BY <1>1, <1>2, <1>3, <2>1, <2>2, <2>3, ThiefStable
<1>7. QED
  BY <1>2, <1>4, <1>5, <1>6 DEF IndInv, Core

\* push_bottom raises m_bottom.
LEMMA PushBottomInv ==
  ASSUME IndInv, PushBottom PROVE IndInv'
<1>1. /\ TypeOK /\ WindowInv /\ OwnerInv /\ local[Owner].pc = "push_bottom"
      /\ UNCHANGED <<top, arrays, taken>>
      /\ bottom' = bottom + 1
  BY DEF IndInv, PushBottom
<1>2. Core' /\ End' = End + 1
  BY CoreBottom
<1>3. /\ local'[Owner] = Idle
      /\ \A p \in Thieves : local'[p] = local[p]
  BY <1>1, NamesAssumption DEF PushBottom, Return, TypeOK, Threads
<1>4. TypeOK'
  BY <1>1 DEF TypeOK, OwnerInv, Pushing, PushBottom, Return, Idle, Threads, PCs
<1>5. OwnerInv'
  BY <1>3 DEF OwnerInv, Pushing, Idle
<1>6. ASSUME NEW p \in Thieves PROVE ThiefInv(p)'
  <2>1. /\ top \in Nat /\ End \in Nat /\ Len(arrays) \in Nat /\ ThiefInv(p)
      BY <1>1, Numbers DEF IndInv
  <2>2. Slot(CurrentArray', top) = At(top)
    BY <1>1 DEF At, CurrentArray
  <2>3. QED
    BY <1>1, <1>2, <1>3, <2>1, <2>2, ThiefStable
<1>7. QED
  BY <1>2, <1>4, <1>5, <1>6 DEF IndInv, Core

\* pop_bottom lowers m_bottom.
LEMMA PopReserveInv ==
  ASSUME IndInv, PopReserve PROVE IndInv'
<1>1. /\ TypeOK /\ WindowInv /\ OwnerInv /\ local[Owner].pc = "idle"
      /\ UNCHANGED <<top, arrays, pushed, taken>>
      /\ bottom' = bottom - 1
  BY DEF IndInv, PopReserve, history
<1>2. /\ local'[Owner] = [local[Owner] EXCEPT !.pc = "pop_top"]
      /\ \A p \in Thieves : local'[p] = local[p]
  BY <1>1, NamesAssumption DEF PopReserve, Goto, TypeOK, Threads
<1>3. local[Owner] \in [pc : PCs, t : Nat, array : Nat, job : Jobs \cup {Garbage, NoJob}]
  BY <1>1 DEF TypeOK, Threads
<1>4. End = bottom /\ End' = bottom /\ bottom \in Nat \ {0}
  <2>1. End = bottom /\ ~Reserved /\ Reserved'
    BY <1>1, <1>2, <1>3 DEF End, Reserved
  <2>2. bottom \in Nat /\ top \in Nat /\ Origin \in Nat \ {0} /\ Origin <= top /\ top <= End
    BY <1>1, OriginAssumption DEF WindowInv, TypeOK
  <2>3. End' = bottom' + 1
    BY <2>1 DEF End
  <2>4. QED
    BY <1>1, <2>1, <2>2, <2>3
<1>5. TypeOK'
  <2>1. bottom' \in Nat
    BY <1>1, <1>4
  <2>2. local' \in [Threads -> [pc : PCs, t : Nat, array : Nat,
                               job : Jobs \cup {Garbage, NoJob}]]
    <3>1. Goto(Owner, "pop_top") /\ Owner \in Threads /\ "pop_top" \in PCs
      BY DEF PopReserve, Threads, PCs
    <3>2. QED
      BY <1>1, <3>1, GotoType
  <2>3. QED
    BY <1>1, <2>1, <2>2 DEF TypeOK
<1>6. OwnerInv'
  BY <1>2, <1>3 DEF OwnerInv, Pushing
<1>7. QED
  BY <1>1, <1>2, <1>4, <1>5, <1>6, QuietStep DEF IndInv, Core

\* pop_bottom finds nothing.
LEMMA PopEmptyInv ==
  ASSUME IndInv, PopEmpty PROVE IndInv'
<1>1. /\ TypeOK /\ WindowInv /\ OwnerInv /\ local[Owner].pc = "pop_top"
      /\ bottom < top
      /\ UNCHANGED <<top, bottom, arrays, pushed, taken>>
  BY DEF IndInv, PopEmpty, shared, history
<1>2. /\ local'[Owner] = [local[Owner] EXCEPT !.pc = "pop_restore"]
      /\ \A p \in Thieves : local'[p] = local[p]
  BY <1>1, NamesAssumption DEF PopEmpty, Goto, TypeOK, Threads
<1>3. local[Owner] \in [pc : PCs, t : Nat, array : Nat, job : Jobs \cup {Garbage, NoJob}]
  BY <1>1 DEF TypeOK, Threads
<1>4. End = bottom + 1 /\ End' = bottom + 1 /\ top \in Nat /\ bottom \in Nat
  BY <1>1, <1>2, <1>3 DEF End, Reserved, TypeOK
<1>5. TypeOK'
  <2>1. Goto(Owner, "pop_restore") /\ Owner \in Threads /\ "pop_restore" \in PCs
    BY DEF PopEmpty, Threads, PCs
  <2>2. local' \in [Threads -> [pc : PCs, t : Nat, array : Nat,
                               job : Jobs \cup {Garbage, NoJob}]]
    BY <1>1, <2>1, GotoType
  <2>3. QED
    BY <1>1, <2>2 DEF TypeOK
<1>6. OwnerInv'
  BY <1>1, <1>2, <1>3, <1>4 DEF OwnerInv, Pushing, WindowInv
<1>7. QED
  BY <1>1, <1>2, <1>4, <1>5, <1>6, QuietStep DEF IndInv, Core

\* pop_bottom takes a job no thief can reach.
LEMMA PopManyInv ==
  ASSUME IndInv, PopMany PROVE IndInv'
<1>1. /\ TypeOK /\ WindowInv /\ OwnerInv /\ Core /\ local[Owner].pc = "pop_top"
      /\ top < bottom
      /\ UNCHANGED <<top, bottom, arrays, pushed>>
      /\ Hand(Owner, At(bottom))
  BY DEF IndInv, PopMany, shared, At, Core
<1>2. /\ local'[Owner] = Idle
      /\ \A p \in Thieves : local'[p] = local[p]
  BY <1>1, NamesAssumption DEF PopMany, Return, TypeOK, Threads
<1>3. /\ End = bottom + 1 /\ End' = bottom
      /\ top \in Nat /\ bottom \in Nat /\ Len(arrays) \in Nat
  BY <1>1, <1>2, Numbers DEF End, Reserved, Idle
<1>4. Core'
  <2>1. bottom \in top .. End - 1 /\ bottom = End - 1 /\ End' = End - 1
    BY <1>1, <1>3
  <2>2. Owner \in Threads
    BY DEF Threads
  <2>3. QED
    BY <1>1, <2>1, <2>2, CoreHand
<1>5. TypeOK'
  <2>1. taken' \in [Threads -> [Jobs -> Nat]]
    <3>1. bottom \in top .. End - 1 /\ Owner \in Threads
      BY <1>1, <1>3 DEF Threads
    <3>2. At(bottom) \in Jobs
      BY <1>1, <3>1 DEF Core, ContentsInv, TypeOK
    <3>3. QED
      BY <1>1, <3>1, <3>2, HandType
  <2>2. local' \in [Threads -> [pc : PCs, t : Nat, array : Nat,
                               job : Jobs \cup {Garbage, NoJob}]]
    BY <1>1 DEF TypeOK, PopMany, Return, Idle, Threads, PCs
  <2>3. QED
    BY <1>1, <2>1, <2>2 DEF TypeOK
<1>6. OwnerInv'
  BY <1>2 DEF OwnerInv, Pushing, Idle
<1>7. ASSUME NEW p \in Thieves PROVE ThiefInv(p)'
  <2>1. Slot(CurrentArray', top) = At(top)
    BY <1>1 DEF At, CurrentArray
  <2>2. ThiefInv(p)
    BY DEF IndInv
  <2>3. QED
    BY <1>1, <1>2, <1>3, <2>1, <2>2, ThiefStable
<1>8. QED
  BY <1>4, <1>5, <1>6, <1>7 DEF IndInv, Core

\* pop_bottom finds one job, for which it must race.
LEMMA PopLastInv ==
  ASSUME IndInv, PopLast PROVE IndInv'
<1>1. /\ TypeOK /\ WindowInv /\ OwnerInv /\ local[Owner].pc = "pop_top"
      /\ top = bottom
      /\ UNCHANGED <<top, bottom, arrays, pushed, taken>>
  BY DEF IndInv, PopLast, shared, history
<1>2. /\ local'[Owner] = [pc |-> "pop_cas", t |-> top, array |-> 0, job |-> At(bottom)]
      /\ \A p \in Thieves : local'[p] = local[p]
  BY <1>1, NamesAssumption DEF PopLast, TypeOK, Threads, At
<1>3. End = bottom + 1 /\ End' = bottom + 1 /\ top \in Nat /\ bottom \in Nat
  BY <1>1, <1>2, Numbers DEF End, Reserved
<1>4. At(bottom) \in Jobs \cup {Garbage}
  <2>1. arrays # <<>>
    BY <1>1, <1>3, Numbers
  <2>2. QED
    BY <1>1, <1>3, <2>1, Slots
<1>5. TypeOK'
  BY <1>1, <1>4 DEF TypeOK, PopLast, At, Threads, PCs
<1>6. OwnerInv'
  <2>1. At(bottom)' = At(bottom)
    BY <1>1 DEF At, CurrentArray
  <2>2. QED
    BY <1>1, <1>2, <1>3, <2>1 DEF OwnerInv, Pushing
<1>7. QED
  BY <1>1, <1>2, <1>3, <1>5, <1>6, QuietStep DEF IndInv, Core

\* pop_bottom raises m_bottom again.
LEMMA PopRestoreInv ==
  ASSUME IndInv, PopRestore PROVE IndInv'
<1>1. /\ TypeOK /\ WindowInv /\ OwnerInv /\ local[Owner].pc = "pop_restore"
      /\ UNCHANGED <<top, arrays, pushed, taken>>
      /\ bottom' = bottom + 1
  BY DEF IndInv, PopRestore, history
<1>2. /\ local'[Owner] = Idle
      /\ \A p \in Thieves : local'[p] = local[p]
  BY <1>1, NamesAssumption DEF PopRestore, Return, TypeOK, Threads
<1>3. End = bottom + 1 /\ End' = bottom + 1
  BY <1>1, <1>2 DEF End, Reserved, Idle
<1>4. TypeOK'
  BY <1>1 DEF TypeOK, PopRestore, Return, Idle, Threads, PCs
<1>5. OwnerInv'
  BY <1>2 DEF OwnerInv, Pushing, Idle
<1>6. QED
  BY <1>1, <1>2, <1>3, <1>4, <1>5, QuietStep DEF IndInv, Core

\* pop_bottom wins or loses the last job.
LEMMA PopCasInv ==
  ASSUME IndInv, PopCas PROVE IndInv'
<1> DEFINE own == local[Owner]
<1>1. /\ TypeOK /\ WindowInv /\ OwnerInv /\ Core /\ own.pc = "pop_cas"
      /\ own.t = bottom /\ own.job = At(bottom)
      /\ UNCHANGED <<bottom, arrays, pushed>>
      /\ own \in [pc : PCs, t : Nat, array : Nat, job : Jobs \cup {Garbage, NoJob}]
  BY DEF IndInv, PopCas, Core, OwnerInv, TypeOK, Threads
<1>2. /\ End = bottom + 1 /\ top <= End
      /\ top \in Nat /\ bottom \in Nat /\ Len(arrays) \in Nat
  BY <1>1, Numbers DEF End, Reserved, WindowInv
<1>3. CASE /\ top = own.t /\ top' = top + 1
           /\ Hand(Owner, own.job) /\ Goto(Owner, "pop_restore")
  <2>1. /\ local'[Owner] = [own EXCEPT !.pc = "pop_restore"]
        /\ \A p \in Thieves : local'[p] = local[p]
    BY <1>1, <1>3, NamesAssumption DEF Goto, TypeOK, Threads
  <2>2. End' = End
    BY <1>1, <1>2, <2>1 DEF End, Reserved
  <2>3. top \in top .. End - 1 /\ Owner \in Threads /\ Hand(Owner, At(top))
    BY <1>1, <1>2, <1>3 DEF Threads
  <2>4. Core'
    BY <1>1, <1>3, <2>2, <2>3, CoreHand
  <2>5. TypeOK'
    <3>1. At(top) \in Jobs
      BY <1>1, <2>3 DEF Core, ContentsInv, TypeOK
    <3>2. taken' \in [Threads -> [Jobs -> Nat]]
      BY <1>1, <2>3, <3>1, HandType
    <3>3. local' \in [Threads -> [pc : PCs, t : Nat, array : Nat,
                                 job : Jobs \cup {Garbage, NoJob}]]
      BY <1>1, <1>3 DEF TypeOK, Goto, Threads, PCs
    <3>4. QED
      BY <1>1, <1>2, <1>3, <3>2, <3>3 DEF TypeOK
  <2>6. OwnerInv'
    BY <1>1, <1>2, <1>3, <2>1 DEF OwnerInv, Pushing
  <2>7. ASSUME NEW p \in Thieves PROVE ThiefInv(p)'
    <3>1. ThiefInv(p)
      BY DEF IndInv
    <3>2. QED
      BY <1>1, <1>2, <1>3, <2>1, <3>1, ThiefStable
  <2>8. QED
    BY <2>4, <2>5, <2>6, <2>7 DEF IndInv, Core
<1>4. CASE /\ top # own.t
           /\ local' = [local EXCEPT ![Owner].pc = "pop_restore", ![Owner].job = NoJob]
           /\ UNCHANGED <<top, taken>>
  <2>1. /\ local'[Owner] = [own EXCEPT !.pc = "pop_restore", !.job = NoJob]
        /\ \A p \in Thieves : local'[p] = local[p]
    BY <1>1, <1>4, NamesAssumption DEF TypeOK, Threads
  <2>2. End' = End
    BY <1>1, <1>2, <2>1 DEF End, Reserved
  <2>3. top = bottom + 1
    <3>1. top >= bottom
      BY <1>1, <1>2 DEF IndInv, OwnerInv
    <3>2. QED
      BY <1>1, <1>2, <1>4, <3>1
  <2>4. TypeOK'
    BY <1>1, <1>4 DEF TypeOK, Threads, PCs
  <2>5. OwnerInv'
    <3>1. local'[Owner].pc = "pop_restore"
      BY <1>1, <2>1
    <3>2. top' = bottom' + 1
      BY <1>1, <1>4, <2>3
    <3>3. QED
      BY <3>1, <3>2 DEF OwnerInv, Pushing
  <2>6. QED
    BY <1>1, <1>4, <2>1, <2>2, <2>4, <2>5, QuietStep DEF IndInv, Core
<1>5. QED
  BY <1>3, <1>4 DEF PopCas

-----------------------------------------------------------------------------
(* A thief's steps.                                                        *)

\* A thief's step that only changes its own local state.
LEMMA ThiefLocalStep ==
  ASSUME IndInv, NEW p \in Thieves,
         UNCHANGED <<top, bottom, arrays, pushed, taken>>,
         NEW r \in [pc : PCs, t : Nat, array : Nat, job : Jobs \cup {Garbage, NoJob}],
         local' = [local EXCEPT ![p] = r],
         ThiefInv(p)'
  PROVE  IndInv'
<1>1. TypeOK /\ OwnerInv /\ local \in [Threads -> [pc : PCs, t : Nat, array : Nat,
                                                job : Jobs \cup {Garbage, NoJob}]]
  BY DEF IndInv, TypeOK
<1>2. /\ local'[Owner] = local[Owner]
      /\ \A q \in Thieves : q # p => local'[q] = local[q]
  BY <1>1, NamesAssumption DEF Threads
<1>3. End' = End
  BY <1>2 DEF End, Reserved
<1>4. TypeOK'
  BY <1>1 DEF TypeOK
<1>5. OwnerInv'
  <2>1. At(bottom)' = At(bottom) /\ Capacity' = Capacity
    BY DEF At, CurrentArray, Capacity
  <2>2. QED
    BY <1>1, <1>2, <2>1 DEF OwnerInv, Pushing
<1>6. Core' /\ \A q \in Thieves : ThiefInv(q)'
  BY <1>2, <1>3, QuietStep
<1>7. QED
  BY <1>4, <1>5, <1>6 DEF IndInv, Core

\* steal_top reads m_top.
LEMMA StealTopInv ==
  ASSUME IndInv, NEW p \in Thieves, StealTop(p) PROVE IndInv'
<1> DEFINE me == local[p]
           r == [me EXCEPT !.pc = "steal_bottom", !.t = top]
<1>1. /\ TypeOK /\ WindowInv
      /\ UNCHANGED <<top, bottom, arrays, pushed, taken>>
      /\ me \in [pc : PCs, t : Nat, array : Nat, job : Jobs \cup {Garbage, NoJob}]
      /\ local' = [local EXCEPT ![p] = r]
      /\ top \in Nat
  BY DEF IndInv, StealTop, TypeOK, Threads, shared, history
<1>2. r \in [pc : PCs, t : Nat, array : Nat, job : Jobs \cup {Garbage, NoJob}]
  BY <1>1 DEF PCs
<1>3. local'[p].pc = "steal_bottom" /\ local'[p].t = top
  BY <1>1 DEF TypeOK, Threads
<1>4. ThiefInv(p)'
  BY <1>1, <1>3 DEF ThiefInv, WindowInv
<1>5. QED
  BY <1>1, <1>2, <1>4, ThiefLocalStep

\* steal_top reads m_bottom.
LEMMA StealBottomInv ==
  ASSUME IndInv, NEW p \in Thieves, StealBottom(p) PROVE IndInv'
<1> DEFINE me == local[p]
           r == [me EXCEPT !.pc = "steal_array"]
<1>1. /\ TypeOK /\ WindowInv /\ ThiefInv(p) /\ me.pc = "steal_bottom"
      /\ UNCHANGED <<top, bottom, arrays, pushed, taken>>
      /\ me \in [pc : PCs, t : Nat, array : Nat, job : Jobs \cup {Garbage, NoJob}]
  BY DEF IndInv, StealBottom, TypeOK, Threads, shared, history
<1>2. CASE bottom <= me.t /\ Return(p)
  <2>1. Idle \in [pc : PCs, t : Nat, array : Nat, job : Jobs \cup {Garbage, NoJob}]
    BY DEF Idle, PCs
  <2>2. local' = [local EXCEPT ![p] = Idle] /\ local'[p] = Idle
    BY <1>1, <1>2 DEF Return, TypeOK, Threads
  <2>3. ThiefInv(p)'
    BY <2>2 DEF ThiefInv, Idle
  <2>4. QED
    BY <1>1, <2>1, <2>2, <2>3, ThiefLocalStep
<1>3. CASE bottom > me.t /\ Goto(p, "steal_array")
  <2>1. local' = [local EXCEPT ![p] = r] /\ local'[p] = r
    BY <1>1, <1>3 DEF Goto, TypeOK, Threads
  <2>2. r \in [pc : PCs, t : Nat, array : Nat, job : Jobs \cup {Garbage, NoJob}]
    BY <1>1 DEF PCs
  <2>3. /\ End' = End /\ End >= bottom /\ bottom \in Nat /\ End \in Nat
        /\ top \in Nat /\ Origin \in Nat
    <3>1. local'[Owner] = local[Owner]
      BY <1>1, <2>1, NamesAssumption DEF TypeOK, Threads
    <3>2. QED
      BY <1>1, <3>1, OriginAssumption DEF End, Reserved, TypeOK
  <2>4. arrays # <<>>
    BY <1>1, <1>3, <2>3 DEF ThiefInv, WindowInv
  <2>5. ThiefInv(p)'
    BY <1>1, <1>3, <2>1, <2>3, <2>4 DEF ThiefInv
  <2>6. QED
    BY <1>1, <2>1, <2>2, <2>5, ThiefLocalStep
<1>4. QED
  BY <1>2, <1>3 DEF StealBottom

\* steal_top reads m_job_array.
LEMMA StealArrayInv ==
  ASSUME IndInv, NEW p \in Thieves, StealArray(p) PROVE IndInv'
<1> DEFINE me == local[p]
           r == [me EXCEPT !.pc = "steal_slot", !.array = Len(arrays)]
<1>1. /\ TypeOK /\ WindowInv /\ ThiefInv(p) /\ me.pc = "steal_array"
      /\ UNCHANGED <<top, bottom, arrays, pushed, taken>>
      /\ me \in [pc : PCs, t : Nat, array : Nat, job : Jobs \cup {Garbage, NoJob}]
      /\ local' = [local EXCEPT ![p] = r] /\ local'[p] = r
      /\ local'[Owner] = local[Owner]
  BY NamesAssumption DEF IndInv, StealArray, TypeOK, Threads, shared, history
<1>2. /\ arrays # <<>> /\ Len(arrays) \in 1 .. Len(arrays) /\ Len(arrays) \in Nat
  BY <1>1, Numbers DEF ThiefInv
<1>3. r \in [pc : PCs, t : Nat, array : Nat, job : Jobs \cup {Garbage, NoJob}]
  BY <1>1, <1>2 DEF PCs
<1>4. End' = End
  BY <1>1 DEF End, Reserved
<1>5. ThiefInv(p)'
  BY <1>1, <1>2, <1>4 DEF ThiefInv, At, CurrentArray
<1>6. QED
  BY <1>1, <1>3, <1>5, ThiefLocalStep

\* steal_top reads the slot, perhaps of an array that has been replaced.
LEMMA StealSlotInv ==
  ASSUME IndInv, NEW p \in Thieves, StealSlot(p) PROVE IndInv'
<1> DEFINE me == local[p]
           j == Slot(arrays[me.array], me.t)
           r == [me EXCEPT !.pc = "steal_cas", !.job = j]
<1>1. /\ TypeOK /\ WindowInv /\ ThiefInv(p) /\ me.pc = "steal_slot"
      /\ UNCHANGED <<top, bottom, arrays, pushed, taken>>
      /\ me \in [pc : PCs, t : Nat, array : Nat, job : Jobs \cup {Garbage, NoJob}]
      /\ local' = [local EXCEPT ![p] = r] /\ local'[p] = r
      /\ local'[Owner] = local[Owner]
  BY NamesAssumption DEF IndInv, StealSlot, TypeOK, Threads, shared, history
<1>2. j \in Jobs \cup {Garbage}
  <2>1. me.array \in 1 .. Len(arrays) /\ me.t \in Nat
    BY <1>1 DEF ThiefInv
  <2>2. arrays[me.array] \in Seq(Jobs \cup {Garbage}) /\ Len(arrays[me.array]) > 0
    <3>1. arrays \in Seq(Seq(Jobs \cup {Garbage}))
      BY <1>1 DEF TypeOK
    <3>2. QED
      BY <1>1, <2>1, <3>1, ElementOfSeq DEF WindowInv
  <2>3. Position(me.t, Len(arrays[me.array])) \in 1 .. Len(arrays[me.array])
    <3>1. Len(arrays[me.array]) \in Nat \ {0}
      BY <2>2, LenProperties
    <3>2. QED
      BY <2>1, <3>1, PositionType
  <2>4. QED
    BY <2>2, <2>3, ElementOfSeq DEF Slot
<1>3. r \in [pc : PCs, t : Nat, array : Nat, job : Jobs \cup {Garbage, NoJob}]
  BY <1>1, <1>2 DEF PCs
<1>4. End' = End /\ At(top)' = At(top)
  BY <1>1 DEF End, Reserved, At, CurrentArray
<1>5. me.t = top => j = At(top)
  BY <1>1 DEF ThiefInv
<1> HIDE DEF j
<1>6. local'[p].pc = "steal_cas" /\ local'[p].t = me.t /\ local'[p].job = j
  <2>1. me \in [pc : PCs, t : Nat, array : Nat, job : Jobs \cup {Garbage, NoJob}]
    BY <1>1
  <2>2. r.pc = "steal_cas" /\ r.t = me.t /\ r.job = j
    BY <2>1
  <2>3. local'[p] = r
    BY <1>1
  <2>4. QED
    BY <2>2, <2>3
<1>7. ThiefInv(p)'
  BY <1>1, <1>4, <1>5, <1>6 DEF ThiefInv
<1>8. QED
  BY <1>1, <1>3, <1>7, ThiefLocalStep

\* steal_top wins or loses the job.
LEMMA StealCasInv ==
  ASSUME IndInv, NEW p \in Thieves, StealCas(p) PROVE IndInv'
<1> DEFINE me == local[p]
<1>1. /\ TypeOK /\ WindowInv /\ OwnerInv /\ Core /\ ThiefInv(p)
      /\ me.pc = "steal_cas"
      /\ UNCHANGED <<bottom, arrays, pushed>>
      /\ local' = [local EXCEPT ![p] = Idle] /\ local'[p] = Idle
      /\ local'[Owner] = local[Owner]
      /\ \A q \in Thieves : q # p => local'[q] = local[q]
  BY NamesAssumption DEF IndInv, StealCas, Return, Core, TypeOK, Threads
<1>2. Idle \in [pc : PCs, t : Nat, array : Nat, job : Jobs \cup {Garbage, NoJob}]
  BY DEF Idle, PCs
<1>3. ThiefInv(p)'
  BY <1>1 DEF ThiefInv, Idle
<1>4. CASE top = me.t /\ top' = top + 1 /\ Hand(p, me.job)
  <2>1. /\ End' = End /\ End \in Nat /\ top \in Nat /\ bottom \in Nat
        /\ Len(arrays) \in Nat
    BY <1>1, Numbers DEF End, Reserved
  <2>2. top \in top .. End - 1 /\ p \in Threads /\ Hand(p, At(top))
    BY <1>1, <1>4, <2>1 DEF ThiefInv, Threads
  <2>3. Core'
    BY <1>1, <1>4, <2>1, <2>2, CoreHand
  <2>4. TypeOK'
    <3>1. At(top) \in Jobs
      BY <1>1, <2>2 DEF Core, ContentsInv, TypeOK
    <3>2. taken' \in [Threads -> [Jobs -> Nat]]
      BY <1>1, <2>2, <3>1, HandType
    <3>3. local' \in [Threads -> [pc : PCs, t : Nat, array : Nat,
                                 job : Jobs \cup {Garbage, NoJob}]]
      BY <1>1, <1>2 DEF TypeOK
    <3>4. QED
      BY <1>1, <1>4, <2>1, <3>2, <3>3 DEF TypeOK
  <2>5. OwnerInv'
    <3>1. At(bottom)' = At(bottom) /\ Capacity' = Capacity
      BY <1>1 DEF At, CurrentArray, Capacity
    <3>2. local[Owner].t \in Nat /\ top < End
      BY <1>1, <2>1, <2>2 DEF TypeOK, Threads
    <3>3. local[Owner].pc # "pop_restore"
      BY <1>1, <2>1, <3>2 DEF OwnerInv, End, Reserved
    <3>4. QED
      BY <1>1, <1>4, <2>1, <3>1, <3>2, <3>3 DEF OwnerInv, Pushing
  <2>6. ASSUME NEW q \in Thieves, q # p PROVE ThiefInv(q)'
    <3>1. ThiefInv(q) /\ local'[q] = local[q]
      BY <1>1, <2>6 DEF IndInv
    <3>2. QED
      BY <1>1, <1>4, <2>1, <3>1, ThiefStable
  <2>7. QED
    BY <1>3, <2>3, <2>4, <2>5, <2>6 DEF IndInv, Core
<1>5. CASE top # me.t /\ UNCHANGED <<top, taken>>
  BY <1>1, <1>2, <1>3, <1>5, ThiefLocalStep
<1>6. QED
  BY <1>4, <1>5 DEF StealCas

-----------------------------------------------------------------------------
(* Theorems                                                                *)

\* A new deque satisfies the inductive invariant.
LEMMA Initially == Init => IndInv
<1> SUFFICES ASSUME Init PROVE IndInv
  OBVIOUS
<1>1. /\ top = Origin /\ bottom = Origin /\ arrays = <<>> /\ pushed = {}
      /\ local = [p \in Threads |-> Idle]
      /\ taken = [p \in Threads |-> [j \in Jobs |-> 0]]
      /\ Origin \in Nat
  BY OriginAssumption DEF Init
<1>2. Owner \in Threads /\ \A p \in Thieves : p \in Threads
  BY DEF Threads
<1>3. End = bottom /\ Capacity = 0
  BY <1>1, <1>2 DEF End, Reserved, Idle, Capacity
<1>4. TypeOK
  BY <1>1, <1>2 DEF TypeOK, Idle, PCs
<1>5. WindowInv
  BY <1>1, <1>3 DEF WindowInv
<1>6. OwnerInv /\ \A p \in Thieves : ThiefInv(p)
  BY <1>1, <1>2 DEF OwnerInv, Pushing, ThiefInv, Idle
<1>7. ContentsInv /\ HandedOnce
  BY <1>1, <1>2, <1>3 DEF ContentsInv, HandedOnce, Handed
<1>8. QED
  BY <1>4, <1>5, <1>6, <1>7 DEF IndInv

\* Every step of every thread preserves it.
LEMMA Inductive == IndInv /\ [Next]_vars => IndInv'
<1> SUFFICES ASSUME IndInv, [Next]_vars PROVE IndInv'
  OBVIOUS
<1>1. CASE OwnerStep
  BY <1>1, PushLoadInv, PushResizeInv, PushSlotInv, PushBottomInv, PopReserveInv,
     PopEmptyInv, PopManyInv, PopLastInv, PopCasInv, PopRestoreInv DEF OwnerStep
<1>2. ASSUME NEW p \in Thieves, ThiefStep(p) PROVE IndInv'
  BY <1>2, StealTopInv, StealBottomInv, StealArrayInv, StealSlotInv, StealCasInv
     DEF ThiefStep
<1>3. CASE UNCHANGED vars
  <2>1. /\ UNCHANGED <<top, bottom, arrays, local, pushed, taken>>
        /\ End' = End
    BY <1>3 DEF vars, End, Reserved
  <2>2. TypeOK' /\ OwnerInv'
    BY <2>1 DEF IndInv, TypeOK, OwnerInv, Pushing, At, CurrentArray, Capacity
  <2>3. Core' /\ \A p \in Thieves : ThiefInv(p)'
    BY <2>1, QuietStep
  <2>4. QED
    BY <2>2, <2>3 DEF IndInv, Core
<1>4. QED
  BY <1>1, <1>2, <1>3 DEF Next

\* The inductive invariant holds in every reachable state, whatever the jobs,
\* the thieves, the initial capacity and the interleaving.
THEOREM InvariantTheorem == Spec => []IndInv
BY Initially, Inductive, PTL DEF Spec

\* Type correctness; m_bottom - 1 never underflows.
THEOREM TypeTheorem == Spec => []TypeOK
<1>1. IndInv => TypeOK
  BY DEF IndInv
<1>2. QED
  BY <1>1, InvariantTheorem, PTL

\* pop_bottom and steal_top never return the same job twice.
THEOREM HandedOnceTheorem == Spec => []HandedOnce
<1>1. IndInv => HandedOnce
  BY DEF IndInv
<1>2. QED
  BY <1>1, InvariantTheorem, PTL

\* No job is lost or duplicated: resizes, stale arrays and races included.
THEOREM NoJobLostTheorem == Spec => []NoJobLost
<1>1. IndInv => NoJobLost
  BY DEF IndInv, ContentsInv, NoJobLost
<1>2. QED
  BY <1>1, InvariantTheorem, PTL

\* pop_bottom returns nullptr only when every pushed job has been handed out.
THEOREM PopFailsTheorem == Spec => []PopFailsOnlyWhenEmpty
<1>1. IndInv => PopFailsOnlyWhenEmpty
  <2> SUFFICES ASSUME IndInv, local[Owner].pc = "pop_restore"
               PROVE  \A j \in pushed : Handed(j)
    BY DEF PopFailsOnlyWhenEmpty
  <2>1. End = bottom + 1 /\ top = bottom + 1 /\ bottom \in Nat
    BY DEF IndInv, OwnerInv, End, Reserved, TypeOK
  <2>2. \A i : i \notin top .. End - 1
    BY <2>1
  <2>3. QED
    BY <2>2 DEF IndInv, ContentsInv
<1>2. QED
  BY <1>1, InvariantTheorem, PTL

-----------------------------------------------------------------------------
(* JobStealingDeque implements WorkStealingQueue: every push_bottom,       *)
(* pop_bottom and steal_top takes effect at one instant.  The effective    *)
(* steps are the store of m_bottom (push), the read of m_top when jobs     *)
(* remain (pop) and a successful CAS on m_top (pop of the last job,        *)
(* steal); every other step leaves the abstract queue alone.               *)

\* The abstract queue: the jobs at the live indices, the oldest first.
Queue == [k \in 1 .. End - top |-> At(top + k - 1)]

-----------------------------------------------------------------------------
(* Sequences and queues.                                                   *)

\* A function that keeps a sequence's elements and adds one is its Append.
LEMMA AppendAsFunction ==
  ASSUME NEW S, NEW s \in Seq(S), NEW e \in S,
         NEW f \in [1 .. Len(s) + 1 -> S],
         \A k \in 1 .. Len(s) : f[k] = s[k], f[Len(s) + 1] = e
  PROVE  f = Append(s, e)
<1>1. Len(s) \in Nat /\ Len(s) + 1 \in Nat
  BY LenProperties
<1>2. f \in Seq(S) /\ Len(f) = Len(s) + 1
  BY <1>1, FunctionIsSequence
<1>3. \A k \in 1 .. Len(f) : f[k] = Append(s, e)[k]
  BY <1>1, <1>2, AppendProperties
<1>4. QED
  BY <1>2, <1>3, AppendProperties, SeqEqual

\* Removing at either end, as functions on positions.
LEMMA RemovalsAsFunctions ==
  ASSUME NEW S, NEW s \in Seq(S), s # <<>>
  PROVE  /\ Head(s) = s[1]
         /\ Tail(s) = [k \in 1 .. Len(s) - 1 |-> s[k + 1]]
         /\ SubSeq(s, 1, Len(s) - 1) = [k \in 1 .. Len(s) - 1 |-> s[k]]
<1> DEFINE f == [k \in 1 .. Len(s) - 1 |-> s[k + 1]]
           g == [k \in 1 .. Len(s) - 1 |-> s[k]]
<1>1. /\ Len(s) \in Nat \ {0} /\ Len(s) - 1 \in Nat
      /\ \A k \in 1 .. Len(s) : s[k] \in S
  BY EmptySeq, LenProperties
<1>2. f \in [1 .. Len(s) - 1 -> S] /\ g \in [1 .. Len(s) - 1 -> S]
  BY <1>1
<1>3. f \in Seq(S) /\ Len(f) = Len(s) - 1 /\ g \in Seq(S) /\ Len(g) = Len(s) - 1
  BY <1>1, <1>2, FunctionIsSequence
<1>4. \A k \in 1 .. Len(s) - 1 : f[k] = s[k + 1] /\ g[k] = s[k]
  OBVIOUS
<1> HIDE DEF f, g
<1>5. Tail(s) = f
  BY <1>1, <1>3, <1>4, HeadTailProperties, SeqEqual
<1>6. SubSeq(s, 1, Len(s) - 1) = g
  <2> DEFINE u == SubSeq(s, 1, Len(s) - 1)
  <2>1. \A k \in 1 .. Len(s) - 1 : s[k] \in S
    BY <1>1
  <2>2. /\ u \in Seq(S)
        /\ Len(u) = IF 1 <= Len(s) - 1 THEN Len(s) - 1 - 1 + 1 ELSE 0
        /\ \A k \in 1 .. Len(s) - 1 - 1 + 1 : u[k] = s[1 + k - 1]
    BY <1>1, <2>1, SubSeqProperties
  <2> HIDE DEF u
  <2>3. Len(u) = Len(g) /\ \A k \in 1 .. Len(u) : u[k] = g[k]
    BY <1>1, <1>3, <1>4, <2>2
  <2>4. u = g
    BY <1>3, <2>2, <2>3, SeqEqual
  <2>5. QED
    BY <2>4 DEF u
<1>7. Head(s) = s[1]
  BY <1>1
<1>8. QED
  BY <1>5, <1>6, <1>7 DEF f, g

\* The live slots are a sequence of jobs, one for each live index.
LEMMA QueueIsSequence ==
  ASSUME IndInv
  PROVE  /\ Queue \in Seq(Jobs)
         /\ Len(Queue) = End - top
         /\ \A k \in 1 .. End - top : Queue[k] = At(top + k - 1)
         /\ top \in Nat /\ End \in Nat /\ top <= End
<1>1. /\ top \in Nat /\ End \in Nat /\ top <= End
      /\ \A i \in top .. End - 1 : At(i) \in Jobs
  BY Numbers DEF IndInv, WindowInv, ContentsInv, TypeOK
<1>2. ASSUME NEW k \in 1 .. End - top PROVE At(top + k - 1) \in Jobs
  <2>1. top + k - 1 \in top .. End - 1
    BY <1>1
  <2>2. QED
    BY <1>1, <2>1
<1>3. Queue \in [1 .. End - top -> Jobs] /\ End - top \in Nat
  BY <1>1, <1>2 DEF Queue
<1>4. Queue \in Seq(Jobs) /\ Len(Queue) = End - top
  BY <1>3, FunctionIsSequence
<1>5. QED
  BY <1>1, <1>4 DEF Queue

-----------------------------------------------------------------------------
(* What the concrete steps do to the queue.                                *)

\* A step that moves neither end and changes no live slot.
LEMMA QueueUnchanged ==
  ASSUME IndInv, top' = top, End' = End,
         \A i \in top .. End - 1 : At(i)' = At(i)
  PROVE  Queue' = Queue
<1>1. top \in Nat /\ End \in Nat
  BY QueueIsSequence
<1>2. Queue' = [k \in 1 .. End - top |-> At(top + k - 1)']
  BY DEF Queue
<1>3. ASSUME NEW k \in 1 .. End - top PROVE At(top + k - 1)' = At(top + k - 1)
  <2>1. top + k - 1 \in top .. End - 1
    BY <1>1
  <2>2. QED
    BY <2>1
<1>4. QED
  BY <1>2, <1>3 DEF Queue

\* The queue after a step that writes no array, slot by slot.
LEMMA QueueNext ==
  ASSUME UNCHANGED arrays
  PROVE  Queue' = [k \in 1 .. End' - top' |-> At(top' + k - 1)]
BY DEF Queue, At, CurrentArray

\* Raising the end makes the job at the old end the newest one.
LEMMA QueueAppend ==
  ASSUME IndInv, UNCHANGED <<top, arrays>>, End' = End + 1, At(End) \in Jobs
  PROVE  Queue' = Append(Queue, At(End))
<1>1. /\ Queue \in Seq(Jobs) /\ Len(Queue) = End - top
      /\ \A k \in 1 .. End - top : Queue[k] = At(top + k - 1)
      /\ top \in Nat /\ End \in Nat /\ top <= End
  BY QueueIsSequence
<1>2. Queue' = [k \in 1 .. Len(Queue) + 1 |-> At(top + k - 1)]
  <2>1. End' - top' = Len(Queue) + 1
    BY <1>1
  <2>2. QED
    BY <2>1, QueueNext
<1>3. /\ \A k \in 1 .. Len(Queue) : Queue'[k] = Queue[k]
      /\ Queue'[Len(Queue) + 1] = At(End)
  BY <1>1, <1>2
<1>4. Queue' \in [1 .. Len(Queue) + 1 -> Jobs]
  <2>1. \A k \in 1 .. Len(Queue) : Queue[k] \in Jobs
    BY <1>1, LenProperties
  <2>2. \A k \in 1 .. Len(Queue) + 1 : Queue'[k] \in Jobs
    BY <1>1, <1>3, <2>1
  <2>3. QED
    BY <1>2, <2>2
<1>5. QED
  BY <1>1, <1>3, <1>4, AppendAsFunction

\* Lowering the end removes the newest job.
LEMMA QueueDropLast ==
  ASSUME IndInv, UNCHANGED <<top, arrays>>, top < End, End' = End - 1
  PROVE  /\ Queue # <<>>
         /\ Queue' = SubSeq(Queue, 1, Len(Queue) - 1)
         /\ Queue[Len(Queue)] = At(End - 1)
<1>1. /\ Queue \in Seq(Jobs) /\ Len(Queue) = End - top
      /\ \A k \in 1 .. End - top : Queue[k] = At(top + k - 1)
      /\ top \in Nat /\ End \in Nat
  BY QueueIsSequence
<1>2. Queue # <<>>
  BY <1>1, EmptySeq
<1>3. SubSeq(Queue, 1, Len(Queue) - 1) = [k \in 1 .. End - top - 1 |-> Queue[k]]
  BY <1>1, <1>2, RemovalsAsFunctions
<1>4. Queue' = [k \in 1 .. End - top - 1 |-> At(top + k - 1)]
  <2>1. End' - top' = End - top - 1
    BY <1>1
  <2>2. QED
    BY <2>1, QueueNext
<1>5. \A k \in 1 .. End - top - 1 : Queue[k] = At(top + k - 1)
  BY <1>1
<1>6. Queue[Len(Queue)] = At(End - 1)
  <2>1. Len(Queue) \in 1 .. End - top /\ top + Len(Queue) - 1 = End - 1
    BY <1>1
  <2>2. QED
    BY <1>1, <2>1
<1>7. QED
  BY <1>2, <1>3, <1>4, <1>5, <1>6

\* Raising m_top removes the oldest job; of a single job it is the newest too.
LEMMA QueueDropFirst ==
  ASSUME IndInv, UNCHANGED arrays, top < End, top' = top + 1, End' = End
  PROVE  /\ Queue # <<>>
         /\ Queue' = Tail(Queue)
         /\ Head(Queue) = At(top)
         /\ End = top + 1 => /\ Queue' = SubSeq(Queue, 1, Len(Queue) - 1)
                             /\ Queue[Len(Queue)] = At(top)
<1>1. /\ Queue \in Seq(Jobs) /\ Len(Queue) = End - top
      /\ \A k \in 1 .. End - top : Queue[k] = At(top + k - 1)
      /\ top \in Nat /\ End \in Nat
  BY QueueIsSequence
<1>2. Queue # <<>>
  BY <1>1, EmptySeq
<1>3. /\ Head(Queue) = Queue[1]
      /\ Tail(Queue) = [k \in 1 .. End - top - 1 |-> Queue[k + 1]]
      /\ SubSeq(Queue, 1, Len(Queue) - 1) = [k \in 1 .. End - top - 1 |-> Queue[k]]
  BY <1>1, <1>2, RemovalsAsFunctions
<1>4. Queue' = [k \in 1 .. End - top - 1 |-> At(top + 1 + k - 1)]
  <2>1. End' - top' = End - top - 1
    BY <1>1
  <2>2. QED
    BY <2>1, QueueNext
<1>5. ASSUME NEW k \in 1 .. End - top - 1 PROVE Queue[k + 1] = At(top + 1 + k - 1)
  <2>1. k + 1 \in 1 .. End - top /\ top + (k + 1) - 1 = top + 1 + k - 1
    BY <1>1
  <2>2. QED
    BY <1>1, <2>1
<1>6. Queue[1] = At(top)
  <2>1. 1 \in 1 .. End - top /\ top + 1 - 1 = top
    BY <1>1
  <2>2. QED
    BY <1>1, <2>1
<1>7. ASSUME End = top + 1
      PROVE  /\ Queue' = SubSeq(Queue, 1, Len(Queue) - 1)
             /\ Queue[Len(Queue)] = At(top)
  <2>1. 1 .. End - top - 1 = {} /\ Len(Queue) = 1
    BY <1>1, <1>7
  <2>2. QED
    BY <1>3, <1>4, <1>6, <2>1
<1>8. QED
  BY <1>2, <1>3, <1>4, <1>5, <1>6, <1>7

-----------------------------------------------------------------------------
(* The steps, one by one.                                                  *)

Stutter == UNCHANGED <<Queue, pushed, taken>>

\* A step that leaves the shared state and the history alone and does not move
\* the end stutters.
LEMMA QuietStutters ==
  ASSUME IndInv, UNCHANGED <<top, arrays, pushed, taken>>, End' = End
  PROVE  Stutter
<1>1. \A i : At(i)' = At(i)
  BY DEF At, CurrentArray
<1>2. QED
  BY <1>1, QueueUnchanged DEF Stutter

\* The owner's place after each kind of assignment to `local'.
LEMMA OwnerGoes ==
  ASSUME IndInv
  PROVE  /\ \A pc \in PCs : Goto(Owner, pc) => local'[Owner].pc = pc
         /\ Return(Owner) => local'[Owner].pc = "idle"
         /\ \A p \in Thieves : \A r :
              local' = [local EXCEPT ![p] = r] => local'[Owner] = local[Owner]
<1>1. /\ local \in [Threads -> [pc : PCs, t : Nat, array : Nat,
                                job : Jobs \cup {Garbage, NoJob}]]
      /\ Owner \in Threads
  BY DEF IndInv, TypeOK, Threads
<1>2. ASSUME NEW pc \in PCs, Goto(Owner, pc) PROVE local'[Owner].pc = pc
  <2>1. local' = [local EXCEPT ![Owner] = [local[Owner] EXCEPT !.pc = pc]]
    BY <1>2 DEF Goto
  <2>2. QED
    BY <1>1, <2>1
<1>3. ASSUME Return(Owner) PROVE local'[Owner].pc = "idle"
  BY <1>1, <1>3 DEF Return, Idle
<1>4. ASSUME NEW p \in Thieves, NEW r, local' = [local EXCEPT ![p] = r]
      PROVE  local'[Owner] = local[Owner]
  BY <1>1, <1>4, NamesAssumption
<1>5. QED
  BY <1>2, <1>3, <1>4

\* push_bottom before its store of m_bottom.
LEMMA PushStutters ==
  ASSUME IndInv,
         \/ \E j \in Jobs : PushLoad(j)
         \/ PushResize \/ PushSlot
  PROVE  Stutter
<1>1. ASSUME NEW j \in Jobs, PushLoad(j) PROVE Stutter
  <2>1. /\ UNCHANGED <<top, bottom, arrays, pushed, taken>>
        /\ local[Owner].pc = "idle"
    BY <1>1 DEF PushLoad, shared, history
  <2>2. local'[Owner].pc \in {"push_resize", "push_slot"}
    BY <1>1 DEF PushLoad, IndInv, TypeOK, Threads
  <2>3. End' = End
    BY <2>1, <2>2 DEF End, Reserved
  <2>4. QED
    BY <2>1, <2>3, QuietStutters
<1>2. CASE PushResize
  <2>1. UNCHANGED <<top, pushed, taken>>
    BY <1>2 DEF PushResize, history
  <2>2. QED
    BY <1>2, <2>1, CoreResize, QueueUnchanged DEF Stutter
<1>3. CASE PushSlot
  <2>1. UNCHANGED <<top, pushed, taken>>
    BY <1>3 DEF PushSlot, history
  <2>2. QED
    BY <1>3, <2>1, CoreSlot, QueueUnchanged DEF Stutter
<1>4. QED
  BY <1>1, <1>2, <1>3

\* The store of m_bottom is the push.
LEMMA PushTakesEffect ==
  ASSUME IndInv, PushBottom
  PROVE  \E j \in Jobs : /\ j \notin pushed
                         /\ Queue' = Append(Queue, j)
                         /\ pushed' = pushed \cup {j}
                         /\ taken' = taken
<1> DEFINE j == local[Owner].job
<1>1. /\ OwnerInv /\ local[Owner].pc = "push_bottom"
      /\ UNCHANGED <<top, arrays, taken>> /\ pushed' = pushed \cup {j}
  BY DEF IndInv, PushBottom
<1>2. End = bottom /\ End' = End + 1
  BY <1>1, CoreBottom DEF End, Reserved
<1>3. j \in Jobs \ pushed /\ At(End) = j
  BY <1>1, <1>2 DEF OwnerInv, Pushing
<1>4. Queue' = Append(Queue, j)
  BY <1>1, <1>2, <1>3, QueueAppend
<1>5. QED
  BY <1>1, <1>3, <1>4

\* pop_bottom: reserving, finding nothing, and giving the reservation back.
LEMMA PopStutters ==
  ASSUME IndInv, PopReserve \/ PopEmpty \/ PopLast \/ PopRestore
  PROVE  Stutter
<1>1. {"pop_top", "pop_restore"} \subseteq PCs /\ bottom \in Nat
  BY DEF PCs, IndInv, TypeOK
<1>2. UNCHANGED <<top, arrays, pushed, taken>>
  BY DEF PopReserve, PopEmpty, PopLast, PopRestore, shared, history
<1>3. CASE PopReserve
  <2>1. local[Owner].pc = "idle" /\ local'[Owner].pc = "pop_top" /\ bottom' = bottom - 1
    BY <1>1, <1>3, OwnerGoes DEF PopReserve
  <2>2. End' = End
    BY <1>1, <2>1 DEF End, Reserved
  <2>3. QED
    BY <1>2, <2>2, QuietStutters
<1>4. CASE PopEmpty
  <2>1. /\ local[Owner].pc = "pop_top" /\ local'[Owner].pc = "pop_restore"
        /\ bottom' = bottom
    BY <1>1, <1>4, OwnerGoes DEF PopEmpty, shared
  <2>2. End' = End
    BY <2>1 DEF End, Reserved
  <2>3. QED
    BY <1>2, <2>2, QuietStutters
<1>5. CASE PopLast
  <2>1. /\ local[Owner].pc = "pop_top" /\ local'[Owner].pc = "pop_cas"
        /\ bottom' = bottom
    BY <1>5 DEF PopLast, shared, IndInv, TypeOK, Threads
  <2>2. End' = End
    BY <2>1 DEF End, Reserved
  <2>3. QED
    BY <1>2, <2>2, QuietStutters
<1>6. CASE PopRestore
  <2>1. /\ local[Owner].pc = "pop_restore" /\ local'[Owner].pc = "idle"
        /\ bottom' = bottom + 1
    BY <1>6, OwnerGoes DEF PopRestore
  <2>2. End' = End
    BY <2>1 DEF End, Reserved
  <2>3. QED
    BY <1>2, <2>2, QuietStutters
<1>7. QED
  BY <1>3, <1>4, <1>5, <1>6

\* An abstract pop, on the refinement's queue.
Popped ==
  /\ Queue # <<>>
  /\ Queue' = SubSeq(Queue, 1, Len(Queue) - 1)
  /\ Hand(Owner, Queue[Len(Queue)])
  /\ pushed' = pushed

\* While at least two jobs remain, reading m_top is the pop.
LEMMA PopManyTakesEffect ==
  ASSUME IndInv, PopMany PROVE Popped
<1>1. /\ local[Owner].pc = "pop_top" /\ top < bottom
      /\ UNCHANGED <<top, bottom, arrays, pushed>>
      /\ Hand(Owner, At(bottom)) /\ local'[Owner].pc = "idle"
  BY OwnerGoes DEF PopMany, shared, At
<1>2. End = bottom + 1 /\ End' = bottom /\ top \in Nat /\ bottom \in Nat
  BY <1>1 DEF End, Reserved, IndInv, TypeOK
<1>3. top < End /\ End' = End - 1 /\ End - 1 = bottom
  BY <1>1, <1>2
<1>4. QED
  BY <1>1, <1>3, QueueDropLast DEF Popped

\* For the last job, the CAS on m_top is the pop; a lost race stutters.
LEMMA PopCasTakesEffect ==
  ASSUME IndInv, PopCas PROVE Popped \/ Stutter
<1>1. /\ OwnerInv /\ local[Owner].pc = "pop_cas"
      /\ local[Owner].t = bottom /\ local[Owner].job = At(bottom)
      /\ UNCHANGED <<bottom, arrays, pushed>>
      /\ End = bottom + 1 /\ top \in Nat /\ bottom \in Nat
  BY DEF IndInv, PopCas, OwnerInv, End, Reserved, TypeOK
<1>2. CASE /\ top = local[Owner].t /\ top' = top + 1
           /\ Hand(Owner, local[Owner].job) /\ Goto(Owner, "pop_restore")
  <2>1. local'[Owner].pc = "pop_restore"
    BY <1>2, OwnerGoes DEF PCs
  <2>2. End' = End
    BY <1>1, <2>1 DEF End, Reserved
  <2>3. top < End /\ End = top + 1 /\ Hand(Owner, At(top))
    BY <1>1, <1>2
  <2>4. QED
    BY <1>1, <1>2, <2>2, <2>3, QueueDropFirst DEF Popped
<1>3. CASE /\ local' = [local EXCEPT ![Owner].pc = "pop_restore", ![Owner].job = NoJob]
           /\ UNCHANGED <<top, taken>>
  <2>1. local'[Owner].pc = "pop_restore"
    BY <1>3 DEF IndInv, TypeOK, Threads
  <2>2. End' = End
    BY <1>1, <2>1 DEF End, Reserved
  <2>3. QED
    BY <1>1, <1>3, <2>2, QuietStutters
<1>4. QED
  BY <1>2, <1>3 DEF PopCas

\* An abstract steal, on the refinement's queue.
Stolen(p) ==
  /\ Queue # <<>>
  /\ Queue' = Tail(Queue)
  /\ Hand(p, Head(Queue))
  /\ pushed' = pushed

\* A thief before its CAS changes nothing.
LEMMA StealStutters ==
  ASSUME IndInv, NEW p \in Thieves,
         StealTop(p) \/ StealBottom(p) \/ StealArray(p) \/ StealSlot(p)
  PROVE  Stutter
<1>1. UNCHANGED <<top, bottom, arrays, pushed, taken>>
  BY DEF StealTop, StealBottom, StealArray, StealSlot, shared, history
<1>2. local \in [Threads -> [pc : PCs, t : Nat, array : Nat,
                             job : Jobs \cup {Garbage, NoJob}]]
  BY DEF IndInv, TypeOK
<1>3. Owner # p /\ Owner \in Threads
  BY NamesAssumption DEF Threads
<1>4. local'[Owner] = local[Owner]
  BY <1>2, <1>3 DEF StealTop, StealBottom, StealArray, StealSlot, Goto, Return
<1>5. End' = End
  BY <1>1, <1>4 DEF End, Reserved
<1>6. QED
  BY <1>1, <1>5, QuietStutters

\* A successful CAS of a thief is the steal of the oldest job.
LEMMA StealCasTakesEffect ==
  ASSUME IndInv, NEW p \in Thieves, StealCas(p)
  PROVE  Stolen(p) \/ Stutter
<1>1. /\ ThiefInv(p) /\ local[p].pc = "steal_cas"
      /\ UNCHANGED <<bottom, arrays, pushed>> /\ Return(p)
  BY DEF IndInv, StealCas
<1>2. local'[Owner] = local[Owner]
  BY <1>1, OwnerGoes DEF Return
<1>3. End' = End
  BY <1>1, <1>2 DEF End, Reserved
<1>4. CASE top = local[p].t /\ top' = top + 1 /\ Hand(p, local[p].job)
  <2>1. top < End /\ Hand(p, At(top))
    BY <1>1, <1>4 DEF ThiefInv
  <2>2. QED
    BY <1>1, <1>3, <1>4, <2>1, QueueDropFirst DEF Stolen
<1>5. CASE UNCHANGED <<top, taken>>
  BY <1>1, <1>3, <1>5, QuietStutters
<1>6. QED
  BY <1>4, <1>5 DEF StealCas

-----------------------------------------------------------------------------
(* The refinement.                                                         *)

\* A new deque is the empty queue.
LEMMA InitRefines == Init => Abstract!Init
<1> SUFFICES ASSUME Init PROVE Abstract!Init
  OBVIOUS
<1>1. IndInv /\ top = Origin /\ bottom = Origin /\ End = bottom /\ Origin \in Nat
  BY Initially, OriginAssumption DEF Init, End, Reserved, Idle, Threads
<1>2. Queue \in Seq(Jobs) /\ Len(Queue) = 0
  BY <1>1, QueueIsSequence
<1>3. Queue = <<>>
  BY <1>2, EmptySeq
<1>4. QED
  BY <1>3 DEF Queue, Init, Abstract!Init, Threads

\* Every step of every thread is a step of the abstract queue, or none.
LEMMA StepRefines == IndInv /\ [Next]_vars => [Abstract!Next]_(Abstract!vars)
<1> SUFFICES ASSUME IndInv, [Next]_vars PROVE [Abstract!Next]_(Abstract!vars)
  OBVIOUS
<1>1. ASSUME Stutter PROVE UNCHANGED Abstract!vars
  BY <1>1 DEF Stutter, Queue, Abstract!vars
<1>2. ASSUME Popped PROVE Abstract!Next
  BY <1>2 DEF Popped, Queue, Hand, Abstract!Next, Abstract!Pop, Abstract!Hand
<1>3. ASSUME NEW p \in Thieves, Stolen(p) PROVE Abstract!Next
  BY <1>3 DEF Stolen, Queue, Hand, Abstract!Next, Abstract!Steal, Abstract!Hand
<1>4. ASSUME PushBottom PROVE Abstract!Next
  BY <1>4, PushTakesEffect DEF Queue, Abstract!Next, Abstract!Push
<1>5. CASE OwnerStep
  BY <1>1, <1>2, <1>4, <1>5, PushStutters, PopStutters, PopManyTakesEffect,
     PopCasTakesEffect DEF OwnerStep
<1>6. ASSUME NEW p \in Thieves, ThiefStep(p) PROVE [Abstract!Next]_(Abstract!vars)
  BY <1>1, <1>3, <1>6, StealStutters, StealCasTakesEffect DEF ThiefStep
<1>7. CASE UNCHANGED vars
  <2>1. UNCHANGED <<top, arrays, pushed, taken>> /\ End' = End
    BY <1>7 DEF vars, End, Reserved
  <2>2. QED
    BY <1>1, <2>1, QuietStutters
<1>8. QED
  BY <1>5, <1>6, <1>7 DEF Next

\* ix_JobStealingDeque is linearizable: whatever the interleaving of its
\* owner's and its thieves' accesses, resizes included, it behaves as a queue
\* whose operations each happen at one instant.
THEOREM LinearizableTheorem == Spec => Linearizable
<1>1. Spec => []IndInv
  BY InvariantTheorem
<1>2. QED
  BY <1>1, InitRefines, StepRefines, PTL DEF Spec, Linearizable, Abstract!Spec
=============================================================================
