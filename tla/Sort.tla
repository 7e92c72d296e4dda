------------------------------- MODULE Sort -------------------------------
(***************************************************************************)
(* ix_sort and ix_sort_branchless (ix_sort.hpp): pattern-defeating         *)
(* quicksort over an array of integers, 0-based as in the code.  The calls *)
(* of pdqsort_loop that are not finished are a stack; one action is one    *)
(* turn of its loop or of the loop of a partition.  The thresholds are     *)
(* constants.  A loop that is not guarded searches the whole array, and    *)
(* `outside' remembers that it left the segment it was called for.         *)
(***************************************************************************)
EXTENDS Integers, Sequences, FiniteSets

CONSTANTS
  Inputs,                       \* the arrays to sort
  Modes,                        \* Branchless, a subset of BOOLEAN
  insertion_sort_threshold,
  ninther_threshold,
  partial_insertion_sort_limit,
  block_size,
  Fraction                      \* l_size < size / 8 is highly unbalanced: the 8

\* A quarter of a partition that is shuffled must not be nothing, and the nine
\* candidates for a pivot must be different elements.
ASSUME ThresholdAssumption ==
  /\ {insertion_sort_threshold, ninther_threshold, partial_insertion_sort_limit,
      block_size, Fraction} \subseteq Nat
  /\ insertion_sort_threshold >= 4 /\ ninther_threshold >= 8
  /\ block_size > 0 /\ Fraction > 0
ASSUME InputsAssumption ==
  /\ Modes \subseteq BOOLEAN
  /\ \A s \in Inputs : LET n == Cardinality(DOMAIN s)
                       IN  n \in Nat /\ s \in [0 .. n - 1 -> Int]

VARIABLES
  input,        \* the array as it was
  Branchless,
  arr,          \* the array
  calls,        \* the calls of pdqsort_loop, the current one last
  part,         \* the partition of the current call that is going on, if any
  outside,      \* history: an access was outside the segment
  fallback      \* history: the switch to heap sort was made

vars == <<input, Branchless, arr, calls, part, outside, fallback>>

Size == Cardinality(DOMAIN arr)
Call == calls[Len(calls)]
Segment == Call.begin .. Call.end - 1

Swapped(s, i, j) == [s EXCEPT ![i] = s[j], ![j] = s[i]]

\* Pairs are swapped one after the other.
SwappedAll(s, pairs) ==
  LET upto[n \in 0 .. Len(pairs)] ==
        IF n = 0 THEN s ELSE Swapped(upto[n - 1], pairs[n][1], pairs[n][2])
  IN  upto[Len(pairs)]

\* The next of the positions `stops' above or below k, off the array if there
\* is none.
Above(stops, k) ==
  LET found == {j \in stops : j > k}
  IN  IF found = {} THEN Size ELSE CHOOSE j \in found : \A i \in found : j <= i
Below(stops, k) ==
  LET found == {j \in stops : j < k}
  IN  IF found = {} THEN -1 ELSE CHOOSE j \in found : \A i \in found : j >= i

-----------------------------------------------------------------------------
(* Insertion sort                                                          *)

\* Where s[cur] belongs among the sorted elements before it, from `from' on.
Place(s, from, cur) ==
  CHOOSE p \in from .. cur : /\ \A q \in p .. cur - 1 : s[cur] < s[q]
                             /\ p = from \/ s[p - 1] <= s[cur]

Inserted(s, from, cur) ==
  LET p == Place(s, from, cur)
  IN  [k \in DOMAIN s |-> IF k = p THEN s[cur] ELSE IF k \in p + 1 .. cur THEN s[k - 1] ELSE s[k]]

\* insertion_sort, or with from = 0 unguarded_insertion_sort.
InsertionSorted(s, from, begin, end) ==
  LET upto[cur \in begin .. end - 1] ==
        IF cur = begin THEN s ELSE Inserted(upto[cur - 1], from, cur)
  IN  IF begin = end THEN s ELSE upto[end - 1]

\* partial_insertion_sort: the array, and how many elements were moved when it
\* was finished or given up.
PartiallySorted(s, begin, end) ==
  LET turn[cur \in begin .. end - 1] ==
        IF cur = begin THEN [arr |-> s, moved |-> 0]
        ELSE LET before == turn[cur - 1]
             IN  IF before.moved > partial_insertion_sort_limit THEN before
                 ELSE [arr |-> Inserted(before.arr, begin, cur),
                       moved |-> before.moved + cur - Place(before.arr, begin, cur)]
  IN  IF begin = end THEN [arr |-> s, moved |-> 0] ELSE turn[end - 1]

-----------------------------------------------------------------------------
(* Heap sort, of the n elements from b on                                  *)

SiftedDown(s, b, n, start) ==
  LET tmp == s[b + start]
      Child(root) == LET left == 2 * root + 1
                     IN  IF left + 1 < n /\ s[b + left] < s[b + left + 1] THEN left + 1 ELSE left
      Stops(root) == 2 * root + 1 >= n \/ ~(tmp < s[b + Child(root)])
      from[root \in 0 .. n - 1] ==
        IF Stops(root) THEN [s EXCEPT ![b + root] = tmp]
        ELSE [from[Child(root)] EXCEPT ![b + root] = s[b + Child(root)]]
  IN  from[start]

make_heap(s, b, n) ==
  LET from[i \in 0 .. n \div 2] ==
        IF i = n \div 2 THEN s ELSE SiftedDown(from[i + 1], b, n, i)
  IN  from[0]

\* sort_heap: the arguments of sift_down are the length of the heap and the
\* root, in this order, and the code has them as written here.
sort_heap(s, b, n) ==
  LET from[i \in 1 .. n] ==
        IF i = n THEN s ELSE SiftedDown(Swapped(from[i + 1], b, b + i), b, n, i)
  IN  from[1]

-----------------------------------------------------------------------------
(* pdqsort_loop                                                            *)

\* floor(log2(n)) for n > 1: how many powers of two above 1 are not above n.
log2(n) == Cardinality({k \in 1 .. n \div 2 : 2 ^ k <= n})

NoPartition == [kind |-> "none", first |-> 0, last |-> 0]

Init ==
  /\ input \in Inputs /\ Branchless \in Modes
  /\ arr = input
  /\ calls = IF Size <= 1 THEN <<>>
             ELSE <<[begin |-> 0, end |-> Size, bad_allowed |-> log2(Size), leftmost |-> TRUE]>>
  /\ part = NoPartition
  /\ outside = FALSE /\ fallback = FALSE

Running == calls # <<>> /\ part.kind = "none"

\* The call in progress returns.
Popped == SubSeq(calls, 1, Len(calls) - 1)

SortSmall ==
  LET from == IF Call.leftmost THEN Call.begin ELSE 0
      s == InsertionSorted(arr, from, Call.begin, Call.end)
  IN  /\ Running /\ Cardinality(Segment) < insertion_sort_threshold
      /\ arr' = s
      /\ outside' = (outside \/ \E k \in 0 .. Call.begin - 1 : s[k] # arr[k])
      /\ calls' = Popped
      /\ UNCHANGED <<input, Branchless, part, fallback>>

sort2(s, i, j) == IF s[j] < s[i] THEN Swapped(s, i, j) ELSE s
sort3(s, i, j, k) == sort2(sort2(sort2(s, i, j), j, k), i, j)

\* Mutant: the first element is the pivot.
FirstAsPivot(s, b, e) == s

\* The array with the pivot in front: a median of 3, or a pseudomedian of 9.
WithPivot(s, b, e) ==
  LET m == b + (e - b) \div 2
      three == sort3(sort3(sort3(s, b, m, e - 1), b + 1, m - 1, e - 2), b + 2, m + 1, e - 3)
  IN  IF e - b > ninther_threshold
      THEN Swapped(sort3(three, m - 1, m, m + 1), b, m)
      ELSE sort3(s, m, b, e - 1)

\* The first two searches of partition_right or partition_left.  The second is
\* guarded by the first if that has not passed any element.
StartPartition ==
  LET s == WithPivot(arr, Call.begin, Call.end)
      pivot == s[Call.begin]
      NotLess == {j \in DOMAIN s : s[j] >= pivot}
      Less == {j \in DOMAIN s : s[j] < pivot}
      Greater == {j \in DOMAIN s : s[j] > pivot}
      NotGreater == {j \in DOMAIN s : s[j] <= pivot}
      equal_left == ~Call.leftmost /\ s[Call.begin - 1] >= pivot
      up == Above(NotLess, Call.begin)
      down == Below(Less, Call.end)
      down_left == Below(NotGreater, Call.end)
      up_left == Above(Greater, Call.begin)
      first == IF ~equal_left THEN up
               ELSE IF down_left + 1 = Call.end /\ up_left > down_left THEN down_left ELSE up_left
      last == IF equal_left THEN down_left
              ELSE IF up - 1 = Call.begin /\ down < up THEN up ELSE down
      done == first >= last
  IN  /\ Running /\ Cardinality(Segment) >= insertion_sort_threshold
      /\ outside' = (outside \/ ~({first, last} \subseteq Segment))
      /\ IF ~equal_left /\ Branchless /\ ~done
         THEN /\ arr' = Swapped(s, first, last)
              /\ part' = [kind |-> "blocks", first |-> first + 1, last |-> last,
                          already |-> FALSE, l_base |-> first + 1, r_base |-> last,
                          offsets_l |-> <<>>, offsets_r |-> <<>>]
         ELSE /\ arr' = s
              /\ part' = [kind |-> IF equal_left THEN "left" ELSE "right",
                          first |-> first, last |-> last, already |-> done]
      /\ UNCHANGED <<input, Branchless, calls, fallback>>

Partitioning(kind) == calls # <<>> /\ part.kind = kind

Pivot == arr[Call.begin]

\* One turn of the loop of partition_right.
ExchangeRight ==
  LET s == Swapped(arr, part.first, part.last)
      NotLess == {j \in DOMAIN s : s[j] >= Pivot}
      Less == {j \in DOMAIN s : s[j] < Pivot}
      first == Above(NotLess, part.first)
      last == Below(Less, part.last)
  IN  /\ Partitioning("right") /\ part.first < part.last
      /\ arr' = s
      /\ part' = [part EXCEPT !.first = first, !.last = last]
      /\ outside' = (outside \/ ~({first, last} \subseteq Segment))
      /\ UNCHANGED <<input, Branchless, calls, fallback>>

\* One turn of the loop of partition_left.
ExchangeLeft ==
  LET s == Swapped(arr, part.first, part.last)
      Greater == {j \in DOMAIN s : s[j] > Pivot}
      NotGreater == {j \in DOMAIN s : s[j] <= Pivot}
      first == Above(Greater, part.first)
      last == Below(NotGreater, part.last)
  IN  /\ Partitioning("left") /\ part.first < part.last
      /\ arr' = s
      /\ part' = [part EXCEPT !.first = first, !.last = last]
      /\ outside' = (outside \/ ~({first, last} \subseteq Segment))
      /\ UNCHANGED <<input, Branchless, calls, fallback>>

\* partition_left has put all that equal the pivot into their places.
LeftDone ==
  /\ Partitioning("left") /\ part.first >= part.last
  /\ arr' = Swapped(arr, Call.begin, part.last)
  /\ calls' = [calls EXCEPT ![Len(calls)].begin = part.last + 1]
  /\ part' = NoPartition
  /\ UNCHANGED <<input, Branchless, outside, fallback>>

-----------------------------------------------------------------------------
(* partition_right_branchless                                              *)

\* Mutant: the cycle is not closed by the first element.
ExchangedOpen(s, l, r) ==
  [k \in DOMAIN s |->
    IF \E i \in DOMAIN l : l[i] = k THEN s[r[CHOOSE i \in DOMAIN l : l[i] = k]]
    ELSE IF \E i \in DOMAIN l : r[i] = k
         THEN LET i == CHOOSE i \in DOMAIN l : r[i] = k
              IN  s[IF i < Len(l) THEN l[i + 1] ELSE l[i]]
         ELSE s[k]]

\* swap_offsets without use_swaps: one cycle through all the pairs.
Exchanged(s, l, r) ==
  [k \in DOMAIN s |->
    IF \E i \in DOMAIN l : l[i] = k THEN s[r[CHOOSE i \in DOMAIN l : l[i] = k]]
    ELSE IF \E i \in DOMAIN l : r[i] = k
         THEN LET i == CHOOSE i \in DOMAIN l : r[i] = k IN s[l[(i % Len(l)) + 1]]
         ELSE s[k]]

Least(x, y) == IF x <= y THEN x ELSE y

\* The elements of S, which are in 0 .. n, in order.
Ascending(S, n) ==
  LET upto[i \in -1 .. n] ==
        IF i = -1 THEN <<>> ELSE IF i \in S THEN Append(upto[i - 1], i) ELSE upto[i - 1]
  IN  upto[n]

\* Offsets of the wrong elements among the next n from `first' up, and among
\* the n up to `last' down.
WrongLeft(first, n) == Ascending({i \in 0 .. n - 1 : arr[first + i] >= Pivot}, n)
WrongRight(last, n) == Ascending({i \in 1 .. n : arr[last - i] < Pivot}, n)

\* One turn of the loop: empty offset blocks are filled, then as many pairs as
\* there are in both are exchanged.
ExchangeBlocks ==
  LET unknown == part.last - part.first
      left_split == IF part.offsets_l # <<>> THEN 0
                    ELSE IF part.offsets_r = <<>> THEN unknown \div 2 ELSE unknown
      right_split == IF part.offsets_r # <<>> THEN 0 ELSE unknown - left_split
      n_left == Least(left_split, block_size)
      n_right == Least(right_split, block_size)
      l == IF part.offsets_l # <<>> THEN part.offsets_l ELSE WrongLeft(part.first, n_left)
      r == IF part.offsets_r # <<>> THEN part.offsets_r ELSE WrongRight(part.last, n_right)
      num == Least(Len(l), Len(r))
      first == part.first + n_left
      last == part.last - n_right
      Position_l == [i \in 1 .. num |-> part.l_base + l[i]]
      Position_r == [i \in 1 .. num |-> part.r_base - r[i]]
  IN  /\ Partitioning("blocks") /\ part.first < part.last
      /\ arr' = IF Len(l) = Len(r)
                THEN SwappedAll(arr, [i \in 1 .. num |-> <<Position_l[i], Position_r[i]>>])
                ELSE Exchanged(arr, Position_l, Position_r)
      /\ part' = [part EXCEPT !.first = first, !.last = last,
                              !.offsets_l = SubSeq(l, num + 1, Len(l)),
                              !.offsets_r = SubSeq(r, num + 1, Len(r)),
                              !.l_base = IF num = Len(l) THEN first ELSE @,
                              !.r_base = IF num = Len(r) THEN last ELSE @]
      /\ UNCHANGED <<input, Branchless, calls, outside, fallback>>

\* Mutant: the nearest offset first.
NearestFirst(offsets) == offsets

FarthestFirst(offsets) == [i \in DOMAIN offsets |-> offsets[Len(offsets) + 1 - i]]

\* What is left in one of the blocks goes next to the boundary, the farthest
\* offset first.
LastBlock ==
  LET l == FarthestFirst(part.offsets_l)
      r == FarthestFirst(part.offsets_r)
      boundary == IF l # <<>> THEN part.last - Len(l) ELSE part.first + Len(r)
  IN  /\ Partitioning("blocks") /\ part.first >= part.last
      /\ arr' = SwappedAll(arr,
                  IF l # <<>>
                  THEN [i \in DOMAIN l |-> <<part.l_base + l[i], part.last - i>>]
                  ELSE [i \in DOMAIN r |-> <<part.r_base - r[i], part.first + i - 1>>])
      /\ part' = [kind |-> "right", first |-> boundary, last |-> boundary, already |-> FALSE]
      /\ UNCHANGED <<input, Branchless, calls, outside, fallback>>

-----------------------------------------------------------------------------
(* After partition_right                                                   *)

PivotPos == part.first - 1
LeftSize == PivotPos - Call.begin
RightSize == Call.end - (PivotPos + 1)
HighlyUnbalanced ==
  LET limit == (Call.end - Call.begin) \div Fraction IN LeftSize < limit \/ RightSize < limit

TooManyBad == Call.bad_allowed - 1 = 0

RightDone == Partitioning("right") /\ part.first >= part.last

\* The array with the pivot in its place.
Partitioned == Swapped(arr, Call.begin, PivotPos)

\* Too many bad partitions.
HeapSort ==
  LET b == Call.begin
      n == Call.end - b
  IN  /\ RightDone /\ HighlyUnbalanced /\ TooManyBad
      /\ arr' = sort_heap(make_heap(Partitioned, b, n), b, n)
      /\ calls' = Popped
      /\ part' = NoPartition /\ fallback' = TRUE
      /\ UNCHANGED <<input, Branchless, outside>>

\* Elements of a large part are moved, to break patterns.
Shuffled(s) ==
  LET p == PivotPos
      b == Call.begin
      e == Call.end
      l == LeftSize \div 4
      r == RightSize \div 4
      When(condition, pairs) == IF condition THEN pairs ELSE <<>>
  IN  SwappedAll(s,
        When(LeftSize >= insertion_sort_threshold, <<<<b, b + l>>, <<p - 1, p - l>>>>)
        \o When(LeftSize > ninther_threshold,
                <<<<b + 1, b + l + 1>>, <<b + 2, b + l + 2>>,
                  <<p - 2, p - (l + 1)>>, <<p - 3, p - (l + 2)>>>>)
        \o When(RightSize >= insertion_sort_threshold, <<<<p + 1, p + 1 + r>>, <<e - 1, e - r>>>>)
        \o When(RightSize > ninther_threshold,
                <<<<p + 2, p + 2 + r>>, <<p + 3, p + 3 + r>>,
                  <<e - 2, e - (1 + r)>>, <<e - 3, e - (2 + r)>>>>))

\* Mutant: the pivot is sorted again with the right part.
RecurseWithPivot(bad_allowed) ==
  LET call == [Call EXCEPT !.bad_allowed = bad_allowed]
  IN  /\ calls' = Popped \o <<[call EXCEPT !.begin = PivotPos, !.leftmost = FALSE],
                              [call EXCEPT !.end = PivotPos]>>
      /\ part' = NoPartition
      /\ UNCHANGED <<input, Branchless, outside, fallback>>

\* The right part takes the place of the call, the left part is called first.
Recurse(bad_allowed) ==
  LET call == [Call EXCEPT !.bad_allowed = bad_allowed]
  IN  /\ calls' = Popped \o <<[call EXCEPT !.begin = PivotPos + 1, !.leftmost = FALSE],
                              [call EXCEPT !.end = PivotPos]>>
      /\ part' = NoPartition
      /\ UNCHANGED <<input, Branchless, outside, fallback>>

RecurseShuffled ==
  /\ RightDone /\ HighlyUnbalanced /\ ~TooManyBad
  /\ arr' = Shuffled(Partitioned)
  /\ Recurse(Call.bad_allowed - 1)

SortedLeft == PartiallySorted(Partitioned, Call.begin, PivotPos)
SortedBoth == PartiallySorted(SortedLeft.arr, PivotPos + 1, Call.end)
\* Mutant: the limit is checked one move late.
GivesUpLate(attempt) == attempt.moved > partial_insertion_sort_limit + 1

GivesUp(attempt) == attempt.moved > partial_insertion_sort_limit

\* A sequence that was partitioned already may be nearly sorted.
NearlySorted ==
  /\ RightDone /\ ~HighlyUnbalanced /\ part.already
  /\ ~GivesUp(SortedLeft) /\ ~GivesUp(SortedBoth)
  /\ arr' = SortedBoth.arr
  /\ calls' = Popped
  /\ part' = NoPartition
  /\ UNCHANGED <<input, Branchless, outside, fallback>>

RecurseBalanced ==
  /\ RightDone /\ ~HighlyUnbalanced
  /\ ~part.already \/ GivesUp(SortedLeft) \/ GivesUp(SortedBoth)
  /\ arr' = IF ~part.already THEN Partitioned
            ELSE IF GivesUp(SortedLeft) THEN SortedLeft.arr ELSE SortedBoth.arr
  /\ Recurse(Call.bad_allowed)

Next ==
  \/ SortSmall \/ StartPartition
  \/ ExchangeRight \/ ExchangeLeft \/ LeftDone \/ ExchangeBlocks \/ LastBlock
  \/ HeapSort \/ RecurseShuffled \/ NearlySorted \/ RecurseBalanced

Spec == Init /\ [][Next]_vars

-----------------------------------------------------------------------------
(* Properties                                                              *)

\* No element is lost or doubled, whatever order the blocks of
\* partition_right_branchless are exchanged in and however far an insertion
\* sort got before it gave up.
SameElements ==
  \A x \in {input[k] : k \in DOMAIN input} :
    Cardinality({k \in DOMAIN arr : arr[k] = x}) = Cardinality({k \in DOMAIN input : input[k] = x})

\* The comments `the median of 3 guarantees this exists' and `assumes *(begin - 1)
\* is an element smaller than or equal': the loops without bounds check stay in
\* the segment they were called for.
StaysInside == ~outside

\* The calls that have not returned have disjoint segments, the current one
\* leftmost, and no element is ordered against an element of another segment:
\* this is what makes it enough to sort each, and the element before a segment
\* a sentinel for its unguarded loops.
Separated ==
  \A c \in DOMAIN calls :
    /\ c > 1 => calls[c].end < calls[c - 1].begin
    /\ \A border \in {calls[c].begin, calls[c].end} :
         \A i \in 0 .. border - 1, j \in border .. Size - 1 : arr[i] <= arr[j]

Finished == calls = <<>>

\* Unless heap sort had to be used, the array is sorted in the end.
SortedUnlessHeapSort == Finished /\ ~fallback => \A i, j \in DOMAIN arr : i <= j => arr[i] <= arr[j]

\* The array is sorted in the end (`switch to heapsort to guarantee
\* O(n log n)' is no exception).
Sorted == Finished => \A i, j \in DOMAIN arr : i <= j => arr[i] <= arr[j]

\* The sort comes to an end: every turn of a loop brings the ends of a partition
\* closer, every partition leaves less to sort, and every call gets less than
\* its caller had.
Work ==
  LET upto[n \in 0 .. Len(calls)] ==
        IF n = 0 THEN 0 ELSE upto[n - 1] + 2 * (calls[n].end - calls[n].begin) + 1
  IN  upto[Len(calls)]
Stage == CASE part.kind = "none" -> 2 [] part.kind = "blocks" -> 1 [] OTHER -> 0
EveryTurnProgresses ==
  [][ \/ Work' < Work
      \/ Work' = Work /\ Stage' < Stage
      \/ /\ Work' = Work /\ Stage' = Stage
         /\ part.first < part.last /\ part'.last - part'.first < part.last - part.first ]_vars
=============================================================================
