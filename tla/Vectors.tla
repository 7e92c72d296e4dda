------------------------------ MODULE Vectors ------------------------------
(***************************************************************************)
(* ix_Vector and ix_StackVector, with what ix_Vector_util.hpp does to both *)
(* of them: objects in blocks of memory, each of which must be constructed *)
(* before it is assigned to or moved from, and destructed once.  The       *)
(* elements are of a type whose moves and destructors do something: a cell *)
(* is Raw memory, holds a value, an object that was moved from, or one     *)
(* that was Left: it is no element any more, and nothing destructs it.     *)
(* Where the code works in place, the steps of its loops are done one by   *)
(* one, in its order.                                                      *)
(*                                                                         *)
(* `elements' is the sequence that a vector stands for: the operations are *)
(* specified on it, and implemented on the cells.                          *)
(***************************************************************************)
EXTENDS Integers, Sequences, FiniteSets

CONSTANTS
  Objects,
  Values,
  Default,       \* T()
  Raw, Moved, Left,
  N,             \* elements in an ix_StackVector itself
  LeastGrown,    \* 8: what ix_grow_array_size makes of less
  Blocks,        \* what malloc returns
  Null, Inline,  \* m_data = nullptr and m_data = m_initial_data
  Gone,          \* m_data of an object before construction and after destruction
  MaxElements    \* bound: elements of all vectors, or all stack vectors, together

ASSUME VectorsAssumption ==
  /\ Default \in Values /\ {Raw, Moved, Left} \cap Values = {}
  /\ Raw # Moved /\ Left # Moved /\ Left # Raw
  /\ N \in Nat \ {0} /\ LeastGrown \in Nat \ {0} /\ MaxElements \in [BOOLEAN -> Nat]
  /\ Null \notin Blocks /\ Inline \notin Blocks /\ Null # Inline
  /\ Gone \notin Blocks \cup {Null, Inline}

\* malloc does not fail: a vector asks for a block while it has one.
ASSUME BlocksAssumption ==
  IsFiniteSet(Objects) /\ IsFiniteSet(Blocks) /\ Cardinality(Objects) < Cardinality(Blocks)

VARIABLES
  stack,      \* whether the objects are ix_StackVectors
  vec,        \* of each object m_data, m_size, m_capacity and the cells at
              \* m_data; `ok' until a cell was not what a step needs it to be
  inline,     \* m_initial_data of each object while m_data is a block
  heap,       \* the blocks that are allocated
  ruined,     \* history: a block was freed twice, or with objects in it
  elements

vars == <<stack, vec, inline, heap, ruined, elements>>

RawCells(n) == [i \in 0 .. n - 1 |-> Raw]

\* An element may be constructed in them.
Blank == {Raw, Left}

\* The cells of m_initial_data without the elements, if those are in them.
Vacated(o) ==
  IF vec[o].m_data = Inline
  THEN [i \in 0 .. N - 1 |-> IF i < vec[o].m_size THEN Raw ELSE vec[o].cells[i]]
  ELSE inline[o]

\* What a move leaves of an object.
Emptied(o) ==
  [m_data |-> IF stack THEN Inline ELSE Null, m_size |-> 0,
   m_capacity |-> IF stack THEN N ELSE 0,
   cells |-> IF stack THEN Vacated(o) ELSE RawCells(0), ok |-> TRUE]

NoObject == [m_data |-> Gone, m_size |-> 0, m_capacity |-> 0, cells |-> RawCells(0), ok |-> TRUE]

Init ==
  /\ stack \in BOOLEAN
  /\ vec = [o \in Objects |-> NoObject]
  /\ inline = [o \in Objects |-> RawCells(N)]
  /\ heap = {} /\ ruined = FALSE
  /\ elements = [o \in Objects |-> <<>>]

Exists(o) == vec[o].m_data # Gone
FreshBlock == CHOOSE b \in Blocks : b \notin heap
Room == MaxElements[stack] - Cardinality(UNION {{o} \X DOMAIN elements[o] : o \in Objects})

-----------------------------------------------------------------------------
(* Steps on cells.                                                         *)

\* new (to) T(...) and *to = ...; what is put there is a value, a copy of
\* another cell, or moved out of it.
Construct(to, how, from) == [does |-> "construct", to |-> to, how |-> how, from |-> from]
Assign(to, how, from) == [does |-> "assign", to |-> to, how |-> how, from |-> from]

WithSize(v, n) == [v EXCEPT !.m_size = n]

\* The cells change, which was right if `fine'.
WithCells(v, cells, fine) == [v EXCEPT !.cells = cells, !.ok = v.ok /\ fine]

Do(v, s) ==
  LET here == IF s.how = "value" THEN {s.to} ELSE {s.to, s.from}
      taken == IF s.how = "value" THEN s.from ELSE v.cells[s.from]
      emptied == IF s.how = "move" THEN [v.cells EXCEPT ![s.from] = Moved] ELSE v.cells
  IN IF ~ (here \subseteq DOMAIN v.cells) THEN WithCells(v, v.cells, FALSE)
     ELSE WithCells(v, [emptied EXCEPT ![s.to] = taken],
                    taken \in Values /\ (s.does = "construct") = (v.cells[s.to] \in Blank))

DoAll(v, steps) ==
  LET done[k \in 0 .. Len(steps)] == IF k = 0 THEN v ELSE Do(done[k - 1], steps[k])
  IN done[Len(steps)]

\* ix_bulk_destruct and ~T
Destruct(v, first, n) ==
  LET there == first .. first + n - 1
  IN WithCells(v, [i \in DOMAIN v.cells |-> IF i \in there THEN Raw ELSE v.cells[i]],
               \A i \in there : i \in DOMAIN v.cells /\ v.cells[i] \notin Blank)

\* The elements of v moved to the cells at `data'; nothing is alive in those,
\* and nothing but the elements where they come from.
MovedTo(v, data, capacity, cells) ==
  [m_data |-> data, m_size |-> v.m_size, m_capacity |-> capacity,
   cells |-> [i \in DOMAIN cells |-> IF i < v.m_size THEN v.cells[i] ELSE cells[i]],
   ok |-> /\ v.ok
          /\ \A i \in DOMAIN v.cells : v.cells[i] \in (IF i < v.m_size THEN Values ELSE Blank)
          /\ \A i \in 0 .. v.m_size - 1 : i \in DOMAIN cells /\ cells[i] \in Blank]

GrowArraySize(n) == IF n < LeastGrown THEN LeastGrown ELSE 2 * n
Larger(m, n) == IF m < n THEN n ELSE m

Reserve(v, n) ==
  IF n <= v.m_capacity THEN v ELSE MovedTo(v, FreshBlock, n, RawCells(n))

-----------------------------------------------------------------------------
(* The operations on a vector v.                                           *)

EmplaceBack(v, x) ==
  LET r == IF v.m_size = v.m_capacity THEN Reserve(v, GrowArraySize(v.m_size)) ELSE v
  IN WithSize(Do(r, Construct(v.m_size, "value", x)), v.m_size + 1)

PopBack(v) == WithSize(Destruct(v, v.m_size - 1, 1), v.m_size - 1)

Clear(v) == WithSize(Destruct(v, 0, v.m_size), 0)

\* resize(n, x), and resize(n) with Default.
Resize(v, n, x) ==
  IF n < v.m_size THEN WithSize(Destruct(v, n, v.m_size - n), n)
  ELSE LET r == Reserve(v, n)
           steps == [k \in 1 .. n - v.m_size |-> Construct(v.m_size + k - 1, "value", x)]
       IN WithSize(DoAll(r, steps), n)

SwapErase(v, i) ==
  PopBack(IF i = v.m_size - 1 THEN v ELSE Do(v, Assign(i, "move", v.m_size - 1)))

\* ix_Vector_insert of one element in front of the i-th
Insert(v, i, x) ==
  LET size == v.m_size
      r == IF size + 1 > v.m_capacity THEN Reserve(v, GrowArraySize(v.m_capacity)) ELSE v
      steps == IF i = size THEN <<Construct(size, "value", x)>>
               ELSE <<Construct(size, "move", size - 1)>>
                    \o [k \in 1 .. size - 1 - i |-> Assign(size - k, "move", size - k - 1)]
                    \o <<Assign(i, "value", x)>>
  IN WithSize(DoAll(r, steps), size + 1)

\* m elements from the i-th make room for n; the last n of them, and the
\* others from the back to the front, when the room is theirs already.
\* Mutant: from the front to the back.
ShiftForwards(size, i, n) ==
  LET m == size - i
  IN [k \in 1 .. n |-> Construct(size + k - 1, "copy", size - n + k - 1)]
     \o [k \in 1 .. m - n |-> Assign(i + n + k - 1, "copy", i + k - 1)]

ShiftBackwards(size, i, n) ==
  LET m == size - i
  IN [k \in 1 .. n |-> Construct(size + k - 1, "copy", size - n + k - 1)]
     \o [k \in 1 .. m - n |-> Assign(size - k, "copy", size - k - n)]

\* ix_Vector_insert of a range that is not part of the vector
InsertRange(v, i, xs) ==
  LET size == v.m_size
      n == Len(xs)
      m == size - i
      r == IF size + n >= v.m_capacity
           THEN Reserve(v, Larger(GrowArraySize(v.m_capacity), size + n)) ELSE v
      steps ==
        IF i = size THEN [k \in 1 .. n |-> Construct(size + k - 1, "value", xs[k])]
        ELSE IF m >= n
        THEN ShiftBackwards(size, i, n) \o [k \in 1 .. n |-> Assign(i + k - 1, "value", xs[k])]
        ELSE [k \in 1 .. n - m |-> Construct(size + k - 1, "value", xs[m + k])]
             \o [k \in 1 .. m |-> Construct(size + n - m + k - 1, "copy", i + k - 1)]
             \o [k \in 1 .. m |-> Assign(i + k - 1, "value", xs[k])]
  IN WithSize(DoAll(r, steps), size + n)

\* Mutant: the last element is left as it was moved from.
EraseWithoutDestruct(v, i) ==
  LET steps == [k \in 1 .. v.m_size - 1 - i |-> Assign(i + k - 1, "move", i + k)]
  IN WithSize(DoAll(v, steps), v.m_size - 1)

\* ix_Vector_erase
Erase(v, i) ==
  LET steps == [k \in 1 .. v.m_size - 1 - i |-> Assign(i + k - 1, "move", i + k)]
  IN WithSize(Destruct(DoAll(v, steps), v.m_size - 1, 1), v.m_size - 1)

\* n objects that were alive are no elements any more.
Abandon(v, first, n) ==
  LET there == first .. first + n - 1
  IN WithCells(v, [i \in DOMAIN v.cells |-> IF i \in there THEN Left ELSE v.cells[i]],
               \A i \in there : i \in DOMAIN v.cells /\ v.cells[i] \notin Blank)

\* ix_Vector_erase of n: one destructor is called, however many elements go.
EraseMany(v, i, n) ==
  IF n = 0 THEN v
  ELSE LET last == v.m_size - n
           steps == [k \in 1 .. last - i |-> Assign(i + k - 1, "move", i + k - 1 + n)]
       IN WithSize(Abandon(Destruct(DoAll(v, steps), last, 1), last + 1, n - 1), last)

-----------------------------------------------------------------------------
(* Objects.                                                                *)

Account(allocated, freed) ==
  /\ heap' = (heap \cup allocated) \ freed
  /\ ruined' = (ruined \/ ~ (freed \subseteq heap))

BlockOf(v) == {v.m_data} \cap Blocks

\* m_initial_data when the elements have been moved out of it to a block:
\* the loop that should destruct them goes over its bytes.
LeftInline(v) == [i \in 0 .. N - 1 |-> IF i < v.m_size THEN Left ELSE v.cells[i]]

\* An operation makes v of object o, which stands for s from now on.
Becomes(o, v, s) ==
  /\ Exists(o)
  /\ vec' = [vec EXCEPT ![o] = v]
  /\ inline' = IF vec[o].m_data = Inline /\ v.m_data # Inline
               THEN [inline EXCEPT ![o] = LeftInline(vec[o])] ELSE inline
  /\ elements' = [elements EXCEPT ![o] = s]
  /\ Account(BlockOf(v), BlockOf(vec[o]) \ BlockOf(v))
  /\ UNCHANGED stack

\* The constructors: default, of a size, and of an initializer list, which
\* makes it the capacity even if there is room for more.
New(o, xs, capacity, data) ==
  LET cells == RawCells(IF data = Inline THEN N ELSE capacity)
      v == [m_data |-> data, m_size |-> Len(xs), m_capacity |-> capacity, cells |-> cells, ok |-> TRUE]
  IN /\ ~Exists(o)
     /\ vec' = [vec EXCEPT ![o] = DoAll(v, [k \in DOMAIN xs |-> Construct(k - 1, "value", xs[k])])]
     /\ elements' = [elements EXCEPT ![o] = xs]
     /\ Account({data} \cap Blocks, {})
     /\ UNCHANGED <<stack, inline>>

DataFor(n) == IF stack /\ n <= N THEN Inline ELSE FreshBlock

NewDefault(o) == New(o, <<>>, IF stack THEN N ELSE 0, IF stack THEN Inline ELSE Null)
NewSized(o, n) == New(o, [k \in 1 .. n |-> Default], IF stack THEN Larger(N, n) ELSE n, DataFor(n))
NewOf(o, xs) == New(o, xs, Len(xs), DataFor(Len(xs)))

\* What o gets from p: the block, or the elements, moved into o itself.
Taken(o, p) ==
  IF vec[p].m_data = Inline THEN MovedTo(vec[p], Inline, vec[p].m_capacity, Vacated(o)) ELSE vec[p]

\* Mutant: the vector moved from is only made empty.
TakesAndKeepsBlock(o, p) ==
  /\ vec' = [vec EXCEPT ![o] = Taken(o, p), ![p].m_size = 0]
  /\ inline' = [inline EXCEPT ![o] = IF vec[p].m_data = Inline THEN RawCells(N) ELSE Vacated(o)]
  /\ elements' = [elements EXCEPT ![o] = elements[p], ![p] = <<>>]
  /\ UNCHANGED stack

\* o has what p had.
Takes(o, p) ==
  /\ vec' = [vec EXCEPT ![o] = Taken(o, p), ![p] = Emptied(p)]
  /\ inline' = [inline EXCEPT ![o] = IF vec[p].m_data = Inline THEN RawCells(N) ELSE Vacated(o),
                              ![p] = RawCells(N)]
  /\ elements' = [elements EXCEPT ![o] = elements[p], ![p] = <<>>]
  /\ UNCHANGED stack

Move(o, p) ==
  /\ ~Exists(o) /\ Exists(p)
  /\ Takes(o, p)
  /\ UNCHANGED <<heap, ruined>>

\* The destructor; a block must have nothing alive in it when it is freed.
Dispose(o) ==
  LET v == Destruct(vec[o], 0, vec[o].m_size)
  IN /\ heap' = heap \ BlockOf(v)
     /\ ruined' = (ruined \/ ~v.ok \/ ~ (BlockOf(v) \subseteq heap)
                          \/ \E i \in DOMAIN v.cells : v.cells[i] \notin Blank)

\* operator=; a vector assigned to itself is left alone.
AssignFrom(o, p) ==
  /\ Exists(o) /\ Exists(p)
  /\ IF o = p THEN UNCHANGED vars
     ELSE Dispose(o) /\ Takes(o, p)

Delete(o) ==
  /\ Exists(o)
  /\ Dispose(o)
  /\ vec' = [vec EXCEPT ![o] = NoObject]
  /\ inline' = [inline EXCEPT ![o] = RawCells(N)]
  /\ elements' = [elements EXCEPT ![o] = <<>>]
  /\ UNCHANGED stack

-----------------------------------------------------------------------------
Lists == UNION {[1 .. n -> Values] : n \in 0 .. Room}

\* s with xs for the n elements behind the first i.
Spliced(s, i, n, xs) == SubSeq(s, 1, i) \o xs \o SubSeq(s, i + n + 1, Len(s))

Create(o) ==
  \/ NewDefault(o)
  \/ \E n \in 0 .. Room : NewSized(o, n)
  \/ \E xs \in Lists : NewOf(o, xs)

Lengthen(o) ==
  LET v == vec[o]
      s == elements[o]
      size == Len(s)
  IN Exists(o) /\
     \/ \E n \in 0 .. size + Room : Becomes(o, Reserve(v, n), s)
     \/ \E x \in Values :
          /\ Room > 0
          /\ \/ Becomes(o, EmplaceBack(v, x), Append(s, x))
             \/ \E i \in 0 .. size : Becomes(o, Insert(v, i, x), Spliced(s, i, 0, <<x>>))
     \/ \E i \in 0 .. size, xs \in Lists :
          Becomes(o, InsertRange(v, i, xs), Spliced(s, i, 0, xs))
     \/ \E n \in 0 .. size + Room, x \in Values :
          Becomes(o, Resize(v, n, x), [k \in 1 .. n |-> IF k <= size THEN s[k] ELSE x])

Shorten(o) ==
  LET v == vec[o]
      s == elements[o]
      size == Len(s)
  IN Exists(o) /\
     \/ Becomes(o, Clear(v), <<>>)
     \/ size > 0 /\ Becomes(o, PopBack(v), SubSeq(s, 1, size - 1))
     \/ \E i \in 0 .. size - 1 :
          \/ Becomes(o, Erase(v, i), Spliced(s, i, 1, <<>>))
          \/ Becomes(o, SwapErase(v, i), SubSeq([s EXCEPT ![i + 1] = s[size]], 1, size - 1))
          \/ \E n \in 0 .. size - i : Becomes(o, EraseMany(v, i, n), Spliced(s, i, n, <<>>))

Next ==
  \E o \in Objects :
    \/ Create(o) \/ Lengthen(o) \/ Shorten(o) \/ Delete(o)
    \/ \E p \in Objects : Move(o, p) \/ AssignFrom(o, p)

Spec == Init /\ [][Next]_vars

-----------------------------------------------------------------------------
\* A vector holds, in order, the elements of the sequence it stands for
\* (insert, erase, resize, swap_erase, moves and assignments).
HoldsTheSequence ==
  \A o \in Objects : Exists(o) =>
    /\ vec[o].m_size = Len(elements[o])
    /\ \A k \in DOMAIN elements[o] : k - 1 \in DOMAIN vec[o].cells /\ vec[o].cells[k - 1] = elements[o][k]

\* Every element of a vector is alive, and none is constructed twice, assigned
\* to before it is constructed or destructed twice.  What is no element any
\* more was destructed, but for what the code leaves: the objects that were
\* moved out of m_initial_data (ix_StackVector.hpp:216), and of several that
\* are erased all but one (ix_Vector_util.hpp:190).  Every block is freed
\* once, by the only vector that has it; and the capacity is the room there is.
ObjectsAreAliveInTurn ==
  /\ ~ruined
  /\ \A o \in Objects : Exists(o) =>
       /\ vec[o].ok
       /\ vec[o].m_size <= vec[o].m_capacity
       /\ 0 .. vec[o].m_capacity - 1 \subseteq DOMAIN vec[o].cells
       /\ \A i \in DOMAIN vec[o].cells :
            vec[o].cells[i] \in (IF i < vec[o].m_size THEN Values ELSE Blank)
  /\ heap = UNION {BlockOf(vec[o]) : o \in {p \in Objects : Exists(p)}}
  /\ \A o, p \in Objects : Exists(o) /\ Exists(p) /\ o # p => BlockOf(vec[o]) \cap BlockOf(vec[p]) = {}
=============================================================================
