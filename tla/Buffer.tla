------------------------------- MODULE Buffer -------------------------------
(***************************************************************************)
(* ix_Buffer (ix_Buffer.cpp): bytes in a region of memory that grows, or   *)
(* in a region that belongs to somebody else and does not.                 *)
(*                                                                         *)
(* A buffer is a record: m_data is the name of its region, m_size the      *)
(* length of its text, m_capacity a size_t whose top bit tells the two     *)
(* kinds apart: a borrowed region of n bytes has SizeMax - n.  `high' is   *)
(* no field of the code: it is how far the last push has written.          *)
(* An operator that may allocate takes the region malloc would return.     *)
(***************************************************************************)
EXTENDS Integers, Sequences

CONSTANTS
  SizeMax,    \* ix_SIZE_MAX
  NoRegion    \* nullptr

ASSUME SizeMaxAssumption == SizeMax \in Nat /\ SizeMax > 16 /\ SizeMax % 2 = 1

TopBit == (SizeMax + 1) \div 2

Larger(m, n) == IF m < n THEN n ELSE m

IsResizeable(b) == b.m_capacity < TopBit

Capacity(b) == IF IsResizeable(b) THEN b.m_capacity ELSE SizeMax - b.m_capacity

\* ix_Buffer(initial_capacity)
NewBuffer(capacity, region) ==
  [m_data |-> IF capacity = 0 THEN NoRegion ELSE region, text |-> <<>>,
   m_capacity |-> capacity, high |-> 0]

\* What a buffer that was moved from, detached from or reset is left as.
EmptyBuffer == NewBuffer(0, NoRegion)

FromExistingRegion(region, length) ==
  [m_data |-> region, text |-> <<>>, m_capacity |-> SizeMax - length, high |-> 0]

\* ix_REALLOC: keeps the region, however it moves, unless there was none.
Reallocated(b, capacity, region) ==
  [b EXCEPT !.m_data = IF @ = NoRegion THEN region ELSE @, !.m_capacity = capacity]

Reserve(b, n, region) ==
  IF n <= b.m_capacity THEN b ELSE Reallocated(b, n, region)

GrowArraySize(n) == IF n < 8 THEN 8 ELSE 2 * n

ReserveAggressively(b, n, region) ==
  IF n <= b.m_capacity THEN b
  ELSE Reallocated(b, Larger(GrowArraySize(b.m_capacity), n), region)

EnsureAggressively(b, extra, region) == ReserveAggressively(b, Len(b.text) + extra, region)

\* The bytes s behind the text, and `behind' more that are not counted to it.
Stored(b, s, behind) ==
  [b EXCEPT !.text = @ \o s, !.high = Len(b.text) + Len(s) + behind]

\* push, and with it push_between, push_str and allocate
Push(b, s, region) ==
  IF s = <<>> THEN b ELSE Stored(EnsureAggressively(b, Len(s), region), s, 0)

\* push_char and push_char_repeat
PushCharRepeat(b, s, region) == Stored(EnsureAggressively(b, Len(s), region), s, 0)

\* Mutant: no room for the NUL that vsnprintf writes behind the text.
PushStringNoNul(b, s, region) == Stored(EnsureAggressively(b, Len(s), region), s, 1)

\* Mutant: the NUL is counted to the text.
PushStringCountsNul(b, s, region) == Stored(EnsureAggressively(b, Len(s) + 1, region), s \o <<0>>, 0)

\* push_stringfv: vsnprintf writes a NUL behind the text.
PushString(b, s, region) == Stored(EnsureAggressively(b, Len(s) + 1, region), s, 1)

Cleared(b) == [b EXCEPT !.text = <<>>, !.high = 0]
=============================================================================
