------------------------------- MODULE Writer -------------------------------
(***************************************************************************)
(* ix_Writer (ix_Writer.cpp): text collected in an ix_Buffer on its way to *)
(* a file, or kept there when there is no file.  A writer has the address  *)
(* of a handle that is somebody else's, may be pointed at another, is      *)
(* moved and assigned, and its buffer may be a borrowed array.             *)
(*                                                                         *)
(* The callers keep the protocol that the guards Settled, Sole and Fits    *)
(* state; everything else happens in any order.                            *)
(***************************************************************************)
EXTENDS Files, Buffer

CONSTANTS
  Writers,     \* the objects
  NoFile,      \* m_file = nullptr
  Capacities,  \* of new buffers
  HeapRegions, \* what malloc returns
  Arrays,      \* arrays that a buffer may borrow
  ArrayLength,
  Sizes,       \* lengths of what is written at once
  MaxBytes,    \* bound: bytes written altogether
  MaxDetached  \* bound: regions detached and not yet released

ASSUME WriterAssumption ==
  /\ Capacities \subseteq Nat /\ Sizes \subseteq Nat \ {0}
  /\ HeapRegions \cap Arrays = {} /\ NoRegion \notin HeapRegions \cup Arrays
  /\ NoFile \notin Handles /\ ArrayLength \in 1 .. TopBit - 2 /\ MaxBytes \in Nat

\* A buffer never needs half of the address space (ix_MEMORY_LIMIT is less).
ASSUME CapacityAssumption ==
  /\ \A c \in Capacities : c < TopBit
  /\ 2 * (MaxBytes + 1) < TopBit

\* malloc does not fail.
ASSUME RegionAssumption ==
  /\ IsFiniteSet(Writers) /\ IsFiniteSet(HeapRegions) /\ MaxDetached \in Nat
  /\ Cardinality(HeapRegions) >= Cardinality(Writers) + MaxDetached

\* ix_Buffer and ix_Writer
Buffers ==
  [m_data : HeapRegions \cup Arrays \cup {NoRegion}, text : Seq(1 .. MaxBytes),
   m_capacity : 0 .. SizeMax, high : Nat]

WriterValues == [m_file : Handles \cup {NoFile}, m_buffer : Buffers]

ASSUME NoWriterAssumption == Gone \notin WriterValues

VARIABLES
  writer,     \* of each object m_file and m_buffer, or Gone
  heap,       \* the regions malloc has returned and nobody has freed
  detached,   \* the regions that detach has given away
  ruined,     \* history: something was freed that was not on the heap
  next        \* the next byte to be written

writerVars == <<writer, heap, detached, ruined, next>>
vars == <<disk, fds, handle, faults, owed, writer, heap, detached, ruined, next>>

Init ==
  /\ FilesInit
  /\ writer = [w \in Writers |-> Gone]
  /\ heap = {} /\ detached = {} /\ ruined = FALSE
  /\ next = 1

Exists(w) == writer[w] # Gone
File(w) == writer[w].m_file
Buf(w) == writer[w].m_buffer
Text(w) == Buf(w).text
ToFile(w) == File(w) # NoFile

FreshRegion == CHOOSE r \in HeapRegions : r \notin heap

\* The file a writer's text is for.
Destination(w) == PathOf(File(w))
HasText(w) == Exists(w) /\ ToFile(w) /\ Text(w) # <<>>

\* Callers: what a writer still holds for a handle is flushed before the
\* handle is closed, moved or destroyed.  (textunpack_unpack lets the handle
\* go with the writer pointing at it, and that is allowed.)
Settled(h) == \A w \in Writers : HasText(w) => File(w) # h

\* Callers: a writer that is written to has a handle that is valid (the
\* assertion in write), and no other writer holds text for the same file.
Sole(w) ==
  ToFile(w) =>
    /\ Alive(File(w)) /\ Valid(File(w))
    /\ \A x \in Writers \ {w} : HasText(x) => Destination(x) # Destination(w)

\* Callers: without a file a borrowed array must have room for n bytes (the
\* assertions in reserve and reserve_aggressively).
Fits(w, n) == ToFile(w) \/ IsResizeable(Buf(w)) \/ Len(Text(w)) + n <= Capacity(Buf(w))

NewBytes(n) == [i \in 1 .. n |-> next + i - 1]

\* A region becomes known when a buffer gets it, and is freed with `freed'.
Account(buffers, freed) ==
  LET adopted == {b.m_data : b \in {c \in buffers : IsResizeable(c)}} \ {NoRegion}
  IN /\ heap' = (heap \cup adopted) \ freed
     /\ ruined' = (ruined \/ ~ (freed \subseteq heap))

\* What ix_FREE(m_data) frees.
FreedBy(b) == {b.m_data} \ {NoRegion}

-----------------------------------------------------------------------------
(* write, write_char_repeat and write_stringfv, on a writer with a file.   *)
(* The pieces are what goes to the file at once, the buffer what is left.  *)

Plan(pieces, buffer) == [pieces |-> pieces, buffer |-> buffer]

\* Mutant: the buffer is written after the piece it did not have room for.
WritePlanSwapped(b, s) ==
  IF Len(b.text) + Len(s) <= Capacity(b) THEN Plan(<<>>, Push(b, s, FreshRegion))
  ELSE IF Len(s) > Capacity(b) THEN Plan(<<s, b.text>>, Cleared(b))
  ELSE Plan(<<b.text>>, Push(Cleared(b), s, FreshRegion))

WritePlan(b, s) ==
  IF Len(b.text) + Len(s) <= Capacity(b) THEN Plan(<<>>, Push(b, s, FreshRegion))
  ELSE IF Len(s) > Capacity(b) THEN Plan(<<b.text, s>>, Cleared(b))
  ELSE Plan(<<b.text>>, Push(Cleared(b), s, FreshRegion))

\* What does not even fit an empty buffer is written byte by byte.
RepeatPlan(b, s) ==
  IF Len(b.text) + Len(s) <= Capacity(b) THEN Plan(<<>>, PushCharRepeat(b, s, FreshRegion))
  ELSE IF Len(s) <= Capacity(b) THEN Plan(<<b.text>>, PushCharRepeat(Cleared(b), s, FreshRegion))
  ELSE Plan(<<b.text>> \o [i \in DOMAIN s |-> <<s[i]>>], Cleared(b))

\* Mutant: a string is formatted in place where the NUL behind it has no room.
StringPlanTight(b, s) ==
  IF Len(s) <= Capacity(b) - Len(b.text) THEN Plan(<<>>, PushString(b, s, FreshRegion))
  ELSE WritePlan(b, s)

\* Formatted in the buffer when there is room for the NUL, and else elsewhere.
StringPlan(b, s) ==
  IF Len(s) + 1 <= Capacity(b) - Len(b.text) THEN Plan(<<>>, PushString(b, s, FreshRegion))
  ELSE WritePlan(b, s)

Perform(w, s, plan) ==
  /\ \E k \in Outcomes(plan.pieces) : WritePieces(Destination(w), s, plan.pieces, k)
  /\ writer' = [writer EXCEPT ![w].m_buffer = plan.buffer]
  /\ Account({plan.buffer}, {})
  /\ UNCHANGED <<fds, handle, detached>>

Keep(w, buffer) ==
  /\ writer' = [writer EXCEPT ![w].m_buffer = buffer]
  /\ Account({buffer}, {})
  /\ UNCHANGED <<fileVars, detached>>

\* Bytes are numbered in the order in which they are handed to the writer.
Hand(w, n, room) ==
  /\ Exists(w) /\ Sole(w) /\ Fits(w, room)
  /\ next + n - 1 <= MaxBytes
  /\ next' = next + n

\* write, write_between, write_string, write_char
Write(w, n) ==
  /\ Hand(w, n, n)
  /\ LET s == NewBytes(n)
     IN IF ToFile(w) THEN Perform(w, s, WritePlan(Buf(w), s))
        ELSE Keep(w, Push(Buf(w), s, FreshRegion))

WriteCharRepeat(w, n) ==
  /\ Hand(w, n, n)
  /\ LET s == NewBytes(n)
     IN IF ToFile(w) THEN Perform(w, s, RepeatPlan(Buf(w), s))
        ELSE Keep(w, PushCharRepeat(Buf(w), s, FreshRegion))

\* write_stringfv
WriteString(w, n) ==
  /\ Hand(w, n, n + 1)
  /\ LET s == NewBytes(n)
     IN IF ToFile(w) THEN Perform(w, s, StringPlan(Buf(w), s))
        ELSE Keep(w, PushString(Buf(w), s, FreshRegion))

\* end_string: a NUL behind the text, counted to it; nothing with a file.
EndString(w) ==
  /\ Exists(w) /\ ~ToFile(w)
  /\ Hand(w, 1, 1)
  /\ Keep(w, Push(Buf(w), NewBytes(1), FreshRegion))

-----------------------------------------------------------------------------
(* flush, and what begins with it.                                         *)

\* A writer with nothing left may point at a handle that is gone: the loop in
\* ix_FileHandle::write does not look at it.
CanFlush(w) == HasText(w) => Alive(File(w)) /\ Valid(File(w))

\* flush() of w while its fate is decided by the rest of the action.
Flushed(w) ==
  IF HasText(w)
  THEN /\ \E k \in Outcomes(<<Text(w)>>) : WritePieces(Destination(w), <<>>, <<Text(w)>>, k)
       /\ UNCHANGED <<fds, handle>>
  ELSE UNCHANGED fileVars

Flush(w) ==
  /\ Exists(w) /\ CanFlush(w)
  /\ Flushed(w)
  /\ writer' = [writer EXCEPT ![w].m_buffer = IF ToFile(w) THEN Cleared(@) ELSE @]
  /\ UNCHANGED <<heap, detached, ruined, next>>

Clear(w) ==
  /\ Exists(w) /\ CanFlush(w)
  /\ Flushed(w)
  /\ writer' = [writer EXCEPT ![w].m_buffer = Cleared(@)]
  /\ UNCHANGED <<heap, detached, ruined, next>>

\* Mutant: the old text is left in the buffer for the new file.
SubstituteWithoutClear(w, h) ==
  /\ Exists(w) /\ CanFlush(w)
  /\ UNCHANGED fileVars
  /\ writer' = [writer EXCEPT ![w].m_file = h]
  /\ UNCHANGED <<heap, detached, ruined, next>>

\* substitute(h), with nullptr for no file
Substitute(w, h) ==
  /\ Exists(w) /\ CanFlush(w)
  /\ Flushed(w)
  /\ writer' = [writer EXCEPT ![w] = [m_file |-> h, m_buffer |-> Cleared(Buf(w))]]
  /\ UNCHANGED <<heap, detached, ruined, next>>

-----------------------------------------------------------------------------
(* Construction, moves, destruction.                                       *)

\* ix_Writer(capacity, file)
Construct(w, capacity, h) ==
  /\ ~Exists(w)
  /\ LET b == NewBuffer(capacity, FreshRegion)
     IN /\ writer' = [writer EXCEPT ![w] = [m_file |-> h, m_buffer |-> b]]
        /\ Account({b}, {})
  /\ UNCHANGED <<fileVars, detached, next>>

Borrowed(a) == \E w \in Writers : Exists(w) /\ Buf(w).m_data = a

\* from_existing_region and from_existing_array
ConstructOn(w, a, h) ==
  /\ ~Exists(w) /\ ~Borrowed(a)
  /\ writer' = [writer EXCEPT ![w] = [m_file |-> h, m_buffer |-> FromExistingRegion(a, ArrayLength)]]
  /\ UNCHANGED <<fileVars, heap, detached, ruined, next>>

MovedFrom == [m_file |-> NoFile, m_buffer |-> EmptyBuffer]

\* Mutant: the writer moved from keeps its file and region.
MoveKeptFile(w, x) ==
  /\ ~Exists(w) /\ Exists(x)
  /\ writer' = [writer EXCEPT ![w] = writer[x], ![x].m_buffer = Cleared(@)]
  /\ UNCHANGED <<fileVars, heap, detached, ruined, next>>

\* ix_Writer(ix_Writer &&other)
Move(w, x) ==
  /\ ~Exists(w) /\ Exists(x)
  /\ writer' = [writer EXCEPT ![w] = writer[x], ![x] = MovedFrom]
  /\ UNCHANGED <<fileVars, heap, detached, ruined, next>>

\* operator=: flushes, takes file and buffer, and frees its own region -- also
\* one that is borrowed, so that callers do not assign to such a writer.
Assign(w, x) ==
  /\ w # x /\ Exists(w) /\ Exists(x) /\ CanFlush(w) /\ IsResizeable(Buf(w))
  /\ Flushed(w)
  /\ writer' = [writer EXCEPT ![w] = writer[x], ![x] = MovedFrom]
  /\ Account({}, FreedBy(Buf(w)))
  /\ UNCHANGED <<detached, next>>

\* reserve_buffer_capacity
ReserveBufferCapacity(w, n) ==
  /\ Exists(w) /\ n >= Capacity(Buf(w))
  /\ IsResizeable(Buf(w)) \/ n = Capacity(Buf(w))
  /\ Keep(w, Reserve(Buf(w), n, FreshRegion))
  /\ UNCHANGED next

\* detach: the region goes to an ix_UniquePointer, which is not for arrays,
\* and the text with it, so that there must be no file it is meant for.
Detach(w) ==
  /\ Exists(w) /\ ~HasText(w) /\ IsResizeable(Buf(w))
  /\ Cardinality(detached) < MaxDetached
  /\ detached' = detached \cup FreedBy(Buf(w))
  /\ writer' = [writer EXCEPT ![w].m_buffer = EmptyBuffer]
  /\ UNCHANGED <<fileVars, heap, ruined, next>>

\* ~ix_UniquePointer<char[]>
Release(r) ==
  /\ r \in detached
  /\ detached' = detached \ {r}
  /\ Account({}, {r})
  /\ UNCHANGED <<fileVars, writer, next>>

\* Mutant: the buffer is dropped with what is in it.
DestroyWithoutFlush(w) ==
  /\ Exists(w) /\ CanFlush(w)
  /\ UNCHANGED fileVars
  /\ writer' = [writer EXCEPT ![w] = Gone]
  /\ Account({}, IF IsResizeable(Buf(w)) THEN FreedBy(Buf(w)) ELSE {})
  /\ UNCHANGED <<detached, next>>

\* ~ix_Writer, and in it ~ix_Buffer, which frees what is not borrowed.
Destroy(w) ==
  /\ Exists(w) /\ CanFlush(w)
  /\ Flushed(w)
  /\ writer' = [writer EXCEPT ![w] = Gone]
  /\ Account({}, IF IsResizeable(Buf(w)) THEN FreedBy(Buf(w)) ELSE {})
  /\ UNCHANGED <<detached, next>>

-----------------------------------------------------------------------------
HandleStep ==
  \/ \E h \in Handles, p \in Paths : Open(h, p)
  \/ \E h \in Handles : DefaultHandle(h)
  \/ \E h, g \in Handles :
       \/ Settled(g) /\ (MoveHandle(h, g) \/ (Settled(h) /\ (AssignHandle(h, g) \/ SubstituteHandle(h, g))))
       \/ CopyHandle(h, g)
  \/ \E h \in Handles : Settled(h) /\ (CloseHandle(h) \/ DestroyHandle(h))

\* Straight to the handle, when no writer holds text for the file.
DirectWrite ==
  \E h \in Handles, n \in Sizes :
    /\ Alive(h) /\ Valid(h) /\ next + n - 1 <= MaxBytes
    /\ \A w \in Writers : HasText(w) => Destination(w) # PathOf(h)
    /\ WriteHandle(h, NewBytes(n))
    /\ next' = next + n

WriterStep ==
  \/ \E w \in Writers, n \in Sizes : Write(w, n) \/ WriteCharRepeat(w, n) \/ WriteString(w, n)
  \/ \E w \in Writers : EndString(w) \/ Flush(w) \/ Clear(w) \/ Detach(w) \/ Destroy(w)
  \/ \E w \in Writers, h \in Handles \cup {NoFile} : Substitute(w, h)
  \/ \E w \in Writers, c \in Capacities, h \in Handles \cup {NoFile} : Construct(w, c, h)
  \/ \E w \in Writers, a \in Arrays, h \in Handles \cup {NoFile} : ConstructOn(w, a, h)
  \/ \E w, x \in Writers : Move(w, x) \/ Assign(w, x)
  \/ \E w \in Writers, c \in Capacities : ReserveBufferCapacity(w, c)
  \/ \E r \in HeapRegions : Release(r)

Next ==
  \/ HandleStep /\ UNCHANGED writerVars
  \/ DirectWrite /\ UNCHANGED <<writer, heap, detached, ruined>>
  \/ WriterStep

Spec == Init /\ [][Next]_vars

-----------------------------------------------------------------------------
TypeOK ==
  /\ disk \in [Paths -> Seq(1 .. MaxBytes)]
  /\ fds \in [Fds -> Paths \cup {Closed}]
  /\ handle \in [Handles -> Fds \cup {Invalid, Gone}]
  /\ faults \in 0 .. MaxFaults
  /\ owed \in [Paths -> Seq(1 .. MaxBytes)]
  /\ writer \in [Writers -> WriterValues \cup {Gone}]
  /\ heap \subseteq HeapRegions /\ detached \subseteq HeapRegions
  /\ ruined \in BOOLEAN
  /\ next \in 1 .. MaxBytes + 1

\* The text on its way to a file: at most one writer holds any (Sole).
OnItsWay(p) ==
  LET holding == {w \in Writers : HasText(w) /\ Alive(File(w)) /\ Valid(File(w)) /\ Destination(w) = p}
  IN IF holding = {} THEN <<>> ELSE Text(CHOOSE w \in holding : TRUE)

\* What is in a file and what its writer still holds is, in order, what was
\* written for it, without the part of a piece that a failing ::write has
\* dropped: whatever was moved, assigned, pointed elsewhere, cleared or
\* destroyed in between (write, flush, substitute, operator=, ~ix_Writer).
FileHoldsTheText ==
  \A p \in Paths : disk[p] \o OnItsWay(p) = owed[p]

\* Nothing is written behind the end of a buffer's region, the NUL of
\* vsnprintf included (write, write_char_repeat, write_stringfv).
StaysInRegion ==
  \A w \in Writers : Exists(w) => /\ Len(Text(w)) <= Capacity(Buf(w))
                                  /\ Buf(w).high <= Capacity(Buf(w))

\* Every region that malloc has returned is held by exactly one buffer or
\* detached pointer, and nothing else is ever freed (the constructors,
\* assignments, destructors and detach of ix_Buffer and ix_Writer).
RegionsHaveOneOwner ==
  LET owning == {w \in Writers : Exists(w) /\ IsResizeable(Buf(w)) /\ Buf(w).m_data # NoRegion}
  IN /\ ~ruined
     /\ heap = detached \cup {Buf(w).m_data : w \in owning}
     /\ \A w \in owning : /\ Buf(w).m_data \notin detached
                          /\ \A x \in owning \ {w} : Buf(x).m_data # Buf(w).m_data
=============================================================================
