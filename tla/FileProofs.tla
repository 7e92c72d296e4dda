----------------------------- MODULE FileProofs -----------------------------
(***************************************************************************)
(* Who owns a region of memory and how far it is written to, who owns a    *)
(* file descriptor, and what is in a file, for any number of regions,      *)
(* handles, descriptors, files and writers, and texts of any length:       *)
(* ix_Buffer and ix_FileHandle under everything that Writer does.          *)
(*                                                                         *)
(* First come the regions, then the descriptors.  A writer's text reaches  *)
(* its file in pieces, of which any may be cut short: there are lemmas     *)
(* about pieces put together and bytes taken away, then what one call of   *)
(* write does, then every action of Writer.                                *)
(***************************************************************************)
EXTENDS Writer, FiniteSetTheorems, TLAPS, ProofLemmas

-----------------------------------------------------------------------------
(* Regions.                                                                *)

Texts == Seq(1 .. MaxBytes)

\* A buffer that grows has a region of the heap or none, and its capacity is
\* that of a borrowed region only if it has one.
Sound(b) ==
  /\ b \in Buffers
  /\ \/ b.m_data \in HeapRegions \cup {NoRegion} /\ b.m_capacity < TopBit
     \/ b.m_data \in Arrays /\ b.m_capacity = SizeMax - ArrayLength
  /\ Len(b.text) <= Capacity(b)
  /\ b.high <= Capacity(b)

\* What the buffer of a writer, or of an object that is none, has to free.
OwnedBy(v) ==
  IF v # Gone /\ IsResizeable(v.m_buffer) THEN {v.m_buffer.m_data} \ {NoRegion} ELSE {}

\* The invariant: every buffer is sound and holds no more than was written;
\* the heap is what is detached and what the writers own, and no region has
\* two owners.
Held == UNION {OwnedBy(writer[w]) : w \in Writers}

RegionTypes ==
  /\ writer \in [Writers -> WriterValues \cup {Gone}]
  /\ next \in Nat \ {0}
  /\ detached \in SUBSET HeapRegions
  /\ ruined = FALSE

SoundWriter(v, n) == v # Gone => Sound(v.m_buffer) /\ Len(v.m_buffer.text) < n

Ownership ==
  /\ Cardinality(detached) <= MaxDetached
  /\ heap = detached \cup Held
  /\ \A w \in Writers : OwnedBy(writer[w]) \cap detached = {}
  /\ \A w, x \in Writers : w # x => OwnedBy(writer[w]) \cap OwnedBy(writer[x]) = {}

RegionInv ==
  /\ RegionTypes
  /\ \A w \in Writers : SoundWriter(writer[w], next)
  /\ Ownership

-----------------------------------------------------------------------------
(* Buffers.                                                                *)

LEMMA TopBitFacts ==
  /\ TopBit \in Nat /\ TopBit > 8 /\ SizeMax = 2 * TopBit - 1
  /\ ArrayLength \in Nat /\ SizeMax - ArrayLength >= TopBit
BY SizeMaxAssumption, WriterAssumption DEF TopBit

LEMMA OwnedAreRegions ==
  ASSUME NEW v, v # Gone => Sound(v.m_buffer)
  PROVE  OwnedBy(v) \subseteq HeapRegions
BY TopBitFacts, WriterAssumption DEF OwnedBy, Sound, IsResizeable

\* Pushing s, with k bytes behind it that are not counted, into a buffer that
\* grows or has room for them.
Grows(b) == b.m_capacity < TopBit

SameKind(b, c, region) ==
  /\ Grows(c) <=> Grows(b)
  /\ c.m_data = b.m_data \/ (b.m_data = NoRegion /\ c.m_data = region)

LEMMA SoundTypes ==
  ASSUME NEW b, Sound(b)
  PROVE  /\ b \in Buffers /\ b.text \in Texts /\ Len(b.text) \in Nat
         /\ b.m_capacity \in Nat /\ b.m_capacity <= SizeMax /\ b.high \in Nat
         /\ b.m_data \in HeapRegions \cup Arrays \cup {NoRegion}
BY SizeMaxAssumption DEF Sound, Buffers, Texts

LEMMA EnsureIsSound ==
  ASSUME NEW b, Sound(b), NEW extra \in Nat, NEW region,
         b.m_data = NoRegion => region \in HeapRegions,
         Grows(b) => \/ Len(b.text) + extra <= MaxBytes + 1
                     \/ Len(b.text) + extra <= b.m_capacity,
         ~Grows(b) => Len(b.text) + extra <= Capacity(b)
  PROVE  LET e == EnsureAggressively(b, extra, region)
         IN /\ Sound(e)
            /\ e.text = b.text
            /\ Len(b.text) + extra <= Capacity(e)
            /\ SameKind(b, e, region)
<1> DEFINE n == Len(b.text) + extra
           e == EnsureAggressively(b, extra, region)
<1>1. /\ b \in Buffers /\ Len(b.text) \in Nat /\ n \in Nat
      /\ b.m_capacity \in Nat /\ b.m_data \in HeapRegions \cup Arrays \cup {NoRegion}
  BY SoundTypes
<1>2. TopBit \in Nat /\ TopBit > 8 /\ SizeMax = 2 * TopBit - 1
  BY TopBitFacts
<1>3. CASE n <= b.m_capacity
  <2>1. e = b
    BY <1>3 DEF EnsureAggressively, ReserveAggressively
  <2>2. n <= Capacity(b)
    BY <1>3 DEF Capacity, IsResizeable, Grows
  <2> QED BY <2>1, <2>2 DEF SameKind
<1>4. CASE ~ (n <= b.m_capacity)
  <2> DEFINE g == Larger(GrowArraySize(b.m_capacity), n)
  <2>1. b.m_capacity < TopBit
    <3> SUFFICES ASSUME ~ (b.m_capacity < TopBit) PROVE FALSE
      OBVIOUS
    <3>1. n <= SizeMax - b.m_capacity
      BY DEF Grows, Capacity, IsResizeable
    <3> QED BY <3>1, <1>1, <1>2, <1>4
  <2>2. n <= MaxBytes + 1
    BY <2>1, <1>4 DEF Grows
  <2>3. g \in Nat /\ n <= g /\ g < TopBit
    <3>1. MaxBytes \in Nat /\ 2 * (MaxBytes + 1) < TopBit
      BY CapacityAssumption, WriterAssumption
    <3>2. b.m_capacity <= MaxBytes
      BY <2>2, <3>1, <1>1, <1>4
    <3>3. GrowArraySize(b.m_capacity) \in Nat /\ GrowArraySize(b.m_capacity) < TopBit
      BY <3>1, <3>2, <1>1, <1>2 DEF GrowArraySize
    <3> HIDE DEF n
    <3> QED BY <2>2, <3>1, <3>3, <1>1, <1>2 DEF Larger
  <2>4. e = [b EXCEPT !.m_data = IF @ = NoRegion THEN region ELSE @, !.m_capacity = g]
    BY <1>4 DEF EnsureAggressively, ReserveAggressively, Reallocated
  <2> HIDE DEF g, n, e
  <2>5. /\ e.text = b.text /\ e.m_capacity = g /\ e.high = b.high
        /\ e.m_data = (IF b.m_data = NoRegion THEN region ELSE b.m_data)
        /\ e \in [m_data : HeapRegions \cup Arrays \cup {NoRegion}, text : Seq(1 .. MaxBytes),
                  m_capacity : Nat, high : Nat]
    BY <2>3, <2>4, <1>1 DEF Buffers
  <2>6. e \in Buffers
    BY <2>3, <2>5, <1>2 DEF Buffers
  <2>7. b.m_data \in HeapRegions \cup {NoRegion} /\ Len(b.text) <= b.m_capacity /\ b.high <= b.m_capacity /\ b.high \in Nat
    BY <2>1, <1>1, TopBitFacts, SoundTypes DEF Sound, Capacity, IsResizeable
  <2>8. Capacity(e) = g
    BY <2>3, <2>5 DEF Capacity, IsResizeable
  <2>9. Sound(e)
    BY <2>3, <2>5, <2>6, <2>7, <2>8, <1>1, <1>4 DEF Sound
  <2>10. SameKind(b, e, region)
    BY <2>1, <2>3, <2>5 DEF SameKind, Grows
  <2>11. n <= Capacity(e)
    BY <2>3, <2>8
  <2> QED BY <2>5, <2>9, <2>10, <2>11 DEF n, e
<1> QED BY <1>3, <1>4

\* Storing s, and k bytes more, where there is room.
LEMMA StoredIsSound ==
  ASSUME NEW e, Sound(e), NEW s \in Texts, NEW k \in Nat,
         Len(e.text) + (Len(s) + k) <= Capacity(e)
  PROVE  LET c == Stored(e, s, k)
         IN /\ Sound(c)
            /\ c.text = e.text \o s
            /\ c.m_data = e.m_data /\ c.m_capacity = e.m_capacity
<1> DEFINE c == Stored(e, s, k)
           n == Len(e.text) + Len(s) + k
<1>1. /\ e \in Buffers /\ e.text \in Texts /\ Len(e.text) \in Nat /\ Len(s) \in Nat /\ n \in Nat
  BY SoundTypes DEF Texts
<1>2. c = [e EXCEPT !.text = e.text \o s, !.high = n]
  BY DEF Stored
<1> HIDE DEF c, n
<1>3. e.text \o s \in Texts /\ Len(e.text \o s) = Len(e.text) + Len(s)
  BY <1>1 DEF Texts
<1>4. /\ c \in Buffers /\ c.text = e.text \o s /\ c.high = n
      /\ c.m_data = e.m_data /\ c.m_capacity = e.m_capacity
  BY <1>1, <1>2, <1>3 DEF Buffers, Texts
<1>5. Capacity(c) = Capacity(e)
  BY <1>4 DEF Capacity, IsResizeable
<1>6. n <= Capacity(c) /\ Len(c.text) <= n
  <2>1. Len(e.text) + (Len(s) + k) = n
    <3>1. \A x, y, z \in Nat : x + (y + z) = x + y + z
      OBVIOUS
    <3> QED BY <1>1, <3>1 DEF n
  <2>2. Len(c.text) <= n
    <3>1. Len(c.text) = Len(e.text) + Len(s)
      BY <1>3, <1>4
    <3>2. Len(e.text) + Len(s) <= Len(e.text) + Len(s) + k
      BY <1>1
    <3> QED BY <3>1, <3>2 DEF n
  <2> QED BY <2>1, <2>2, <1>5
<1>7. Capacity(e) \in Nat
  BY SoundTypes, TopBitFacts DEF Capacity, IsResizeable
<1>8. Len(c.text) <= Capacity(c) /\ c.high <= Capacity(c)
  BY <1>1, <1>3, <1>4, <1>5, <1>6, <1>7
<1>9. Sound(c)
  BY <1>4, <1>8 DEF Sound
<1> QED BY <1>4, <1>9 DEF c

LEMMA PushedIsSound ==
  ASSUME NEW b, Sound(b), NEW s \in Texts, NEW k \in Nat, NEW region,
         b.m_data = NoRegion => region \in HeapRegions,
         Grows(b) => \/ Len(b.text) + (Len(s) + k) <= MaxBytes + 1
                     \/ Len(b.text) + (Len(s) + k) <= b.m_capacity,
         ~Grows(b) => Len(b.text) + (Len(s) + k) <= Capacity(b)
  PROVE  LET c == Stored(EnsureAggressively(b, Len(s) + k, region), s, k)
         IN Sound(c) /\ c.text = b.text \o s /\ SameKind(b, c, region)
<1> DEFINE e == EnsureAggressively(b, Len(s) + k, region)
           c == Stored(e, s, k)
<1>1. Len(s) + k \in Nat
  BY DEF Texts
<1>2. /\ Sound(e) /\ e.text = b.text /\ Len(b.text) + (Len(s) + k) <= Capacity(e)
      /\ SameKind(b, e, region)
  BY <1>1, EnsureIsSound
<1> HIDE DEF e
<1>3. Sound(c) /\ c.text = e.text \o s /\ c.m_data = e.m_data /\ c.m_capacity = e.m_capacity
  BY <1>2, StoredIsSound
<1> HIDE DEF c
<1>4. SameKind(b, c, region)
  BY <1>2, <1>3 DEF SameKind, Grows
<1> QED BY <1>2, <1>3, <1>4 DEF c, e

LEMMA ClearedIsSound ==
  ASSUME NEW b, Sound(b)
  PROVE  /\ Sound(Cleared(b)) /\ Cleared(b).text = <<>> /\ Capacity(Cleared(b)) = Capacity(b)
         /\ Cleared(b).m_data = b.m_data /\ Cleared(b).m_capacity = b.m_capacity
<1> DEFINE c == Cleared(b)
<1>1. b \in Buffers /\ Capacity(b) \in Nat
  BY SoundTypes, TopBitFacts DEF Capacity, IsResizeable
<1>2. <<>> \in Texts /\ Len(<<>>) = 0
  BY DEF Texts
<1>3. /\ c \in Buffers /\ c.text = <<>> /\ c.high = 0
      /\ c.m_data = b.m_data /\ c.m_capacity = b.m_capacity
  BY <1>1, <1>2 DEF Cleared, Buffers, Texts
<1> HIDE DEF c
<1>4. Capacity(c) = Capacity(b)
  BY <1>3 DEF Capacity, IsResizeable
<1>5. Sound(c)
  BY <1>1, <1>2, <1>3, <1>4 DEF Sound
<1> QED BY <1>3, <1>4, <1>5 DEF c

LEMMA NewIsSound ==
  ASSUME NEW capacity \in Capacities, NEW region, capacity # 0 => region \in HeapRegions
  PROVE  LET b == NewBuffer(capacity, region)
         IN /\ Sound(b) /\ b.text = <<>> /\ Grows(b)
            /\ b.m_data \in {NoRegion} \/ (capacity # 0 /\ b.m_data = region)
<1> DEFINE b == NewBuffer(capacity, region)
<1>1. capacity \in Nat /\ capacity < TopBit
  BY CapacityAssumption, WriterAssumption
<1>2. <<>> \in Texts /\ Len(<<>>) = 0
  BY DEF Texts
<1>3. /\ b.text = <<>> /\ b.high = 0 /\ b.m_capacity = capacity
      /\ b.m_data = (IF capacity = 0 THEN NoRegion ELSE region)
  BY DEF NewBuffer
<1>4. b \in Buffers
  BY <1>1, <1>2, TopBitFacts DEF NewBuffer, Buffers, Texts
<1> HIDE DEF b
<1>5. Sound(b)
  BY <1>1, <1>2, <1>3, <1>4 DEF Sound, Capacity, IsResizeable
<1> QED BY <1>1, <1>3, <1>5 DEF b, Grows

LEMMA EmptyIsSound ==
  Sound(EmptyBuffer) /\ EmptyBuffer.text = <<>> /\ EmptyBuffer.m_data = NoRegion /\ Grows(EmptyBuffer)
<1> DEFINE b == EmptyBuffer
<1>1. <<>> \in Texts /\ Len(<<>>) = 0
  BY DEF Texts
<1>2. b.text = <<>> /\ b.high = 0 /\ b.m_capacity = 0 /\ b.m_data = NoRegion
  BY DEF EmptyBuffer, NewBuffer
<1>3. b \in Buffers
  BY <1>1, TopBitFacts DEF EmptyBuffer, NewBuffer, Buffers, Texts
<1> HIDE DEF b
<1>4. Sound(b)
  BY <1>1, <1>2, <1>3, TopBitFacts DEF Sound, Capacity, IsResizeable
<1> QED BY <1>2, <1>4, TopBitFacts DEF b, Grows

LEMMA BorrowedIsSound ==
  ASSUME NEW a \in Arrays
  PROVE  LET b == FromExistingRegion(a, ArrayLength)
         IN Sound(b) /\ b.text = <<>> /\ ~Grows(b)
<1> DEFINE b == FromExistingRegion(a, ArrayLength)
<1>1. <<>> \in Texts /\ Len(<<>>) = 0
  BY DEF Texts
<1>2. b.text = <<>> /\ b.high = 0 /\ b.m_capacity = SizeMax - ArrayLength /\ b.m_data = a
  BY DEF FromExistingRegion
<1>3. b \in Buffers
  BY <1>1, TopBitFacts DEF FromExistingRegion, Buffers, Texts
<1> HIDE DEF b
<1>4. Capacity(b) = ArrayLength
  BY <1>2, TopBitFacts DEF Capacity, IsResizeable
<1>5. Sound(b)
  BY <1>1, <1>2, <1>3, <1>4, TopBitFacts DEF Sound
<1> QED BY <1>2, <1>5, TopBitFacts DEF b, Grows

-----------------------------------------------------------------------------
(* Owners.                                                                 *)

LEMMA OwnedFacts ==
  ASSUME NEW v, NEW n, SoundWriter(v, n)
  PROVE  /\ OwnedBy(v) \subseteq HeapRegions
         /\ \A r, q \in OwnedBy(v) : r = q
         /\ v # Gone /\ Grows(v.m_buffer) => OwnedBy(v) = {v.m_buffer.m_data} \ {NoRegion}
         /\ v # Gone /\ ~Grows(v.m_buffer) => OwnedBy(v) = {}
BY OwnedAreRegions DEF OwnedBy, SoundWriter, Grows, IsResizeable

LEMMA HeldMembers ==
  \A r : r \in Held <=> \E w \in Writers : r \in OwnedBy(writer[w])
BY DEF Held

\* A writer without a region can have one: the others and what is detached do
\* not need them all.
LEMMA FreshRegionIsFree ==
  ASSUME RegionInv, NEW x \in Writers, OwnedBy(writer[x]) = {}
  PROVE  FreshRegion \in HeapRegions \ heap
<1> DEFINE Owner == [r \in Held |-> CHOOSE w \in Writers : r \in OwnedBy(writer[w])]
<1>1. \A r \in Held : Owner[r] \in Writers \ {x} /\ r \in OwnedBy(writer[Owner[r]])
  BY HeldMembers
<1>2. ASSUME NEW r \in Held, NEW q \in Held, Owner[r] = Owner[q] PROVE r = q
  <2>1. SoundWriter(writer[Owner[r]], next)
    BY <1>1 DEF RegionInv
  <2> QED BY <2>1, <1>1, <1>2, OwnedFacts
<1> HIDE DEF Owner
<1>3. Owner \in Injection(Held, Writers \ {x})
  <2>1. Owner \in [Held -> Writers \ {x}]
    BY <1>1 DEF Owner
  <2> QED BY <2>1, <1>2 DEF Injection, IsInjective
<1>4. IsFiniteSet(Writers \ {x}) /\ Cardinality(Writers \ {x}) = Cardinality(Writers) - 1
  BY RegionAssumption, FS_RemoveElement
<1>5. IsFiniteSet(Held) /\ Cardinality(Held) <= Cardinality(Writers) - 1
  BY <1>3, <1>4, FS_Injection
<1>6. IsFiniteSet(detached)
  BY RegionAssumption, FS_Subset DEF RegionInv, RegionTypes
<1>7. /\ Cardinality(Held) \in Nat /\ Cardinality(detached) \in Nat /\ Cardinality(Writers) \in Nat
      /\ IsFiniteSet(heap) /\ Cardinality(Held \cap detached) \in Nat
      /\ Cardinality(HeapRegions) \in Nat /\ Cardinality(heap) \in Nat
  BY <1>5, <1>6, RegionAssumption, FS_CardinalityType, FS_Union, FS_Intersection DEF RegionInv, Ownership
<1>8. Cardinality(heap) = Cardinality(detached) + Cardinality(Held) - Cardinality(detached \cap Held)
      /\ Cardinality(detached \cap Held) \in Nat
  BY <1>5, <1>6, FS_CardinalityType, FS_Union, FS_Intersection DEF RegionInv, Ownership
<1>9. Cardinality(heap) < Cardinality(HeapRegions)
  BY <1>5, <1>7, <1>8, RegionAssumption DEF RegionInv, Ownership
<1>10. \E r \in HeapRegions : r \notin heap
  <2> SUFFICES ASSUME HeapRegions \subseteq heap PROVE FALSE
    OBVIOUS
  <2>1. Cardinality(HeapRegions) <= Cardinality(heap)
    BY <1>7, FS_Subset
  <2> QED BY <1>7, <1>9, <2>1
<1> QED BY <1>10 DEF FreshRegion

\* The value of one writer changes, and the heap as it has to.
LEMMA OneWriterChanges ==
  ASSUME RegionInv, NEW w \in Writers, NEW v \in WriterValues \cup {Gone},
         next' \in Nat, next <= next', SoundWriter(v, next'),
         writer' = [writer EXCEPT ![w] = v],
         OwnedBy(v) \cap (heap \ OwnedBy(writer[w])) = {},
         heap' = (heap \ OwnedBy(writer[w])) \cup OwnedBy(v),
         detached' = detached, ruined' = FALSE
  PROVE  RegionInv'
<1> DEFINE own == [x \in Writers |-> OwnedBy(writer[x])]
<1>1. \A x \in Writers : writer'[x] = IF x = w THEN v ELSE writer[x]
  BY DEF RegionInv, RegionTypes
<1>2. RegionTypes'
  BY DEF RegionInv, RegionTypes
<1>3. \A x \in Writers : SoundWriter(writer[x], next)'
  <2> SUFFICES ASSUME NEW x \in Writers, x # w PROVE SoundWriter(writer[x], next')
    BY <1>1
  <2>1. SoundWriter(writer[x], next)
    BY DEF RegionInv
  <2>2. next \in Nat /\ writer[x] # Gone => Len(writer[x].m_buffer.text) \in Nat
    BY <2>1, SoundTypes DEF SoundWriter, RegionInv, RegionTypes
  <2>3. next \in Nat
    BY DEF RegionInv, RegionTypes
  <2> QED BY <2>1, <2>2, <2>3 DEF SoundWriter
<1>4. \A x \in Writers : OwnedBy(writer'[x]) = IF x = w THEN OwnedBy(v) ELSE OwnedBy(writer[x])
  BY <1>1
<1>5. \A r : r \in Held <=> \E x \in Writers : r \in OwnedBy(writer[x])
  BY HeldMembers
<1>6. \A r : r \in Held' <=> \E x \in Writers : r \in OwnedBy(writer'[x])
  BY DEF Held
<1>7. /\ heap = detached \cup Held
      /\ \A x \in Writers : OwnedBy(writer[x]) \cap detached = {}
      /\ \A x, y \in Writers : x # y => OwnedBy(writer[x]) \cap OwnedBy(writer[y]) = {}
  BY DEF RegionInv, Ownership
<1>8. Ownership'
  <2>1. heap' = detached' \cup Held'
    BY <1>4, <1>5, <1>6, <1>7
  <2>2. \A x \in Writers : OwnedBy(writer'[x]) \cap detached' = {}
    BY <1>4, <1>7
  <2>3. \A x \in Writers \ {w} : OwnedBy(v) \cap OwnedBy(writer[x]) = {}
    BY <1>5, <1>7
  <2>4. \A x, y \in Writers : x # y => OwnedBy(writer'[x]) \cap OwnedBy(writer'[y]) = {}
    BY <1>4, <1>7, <2>3
  <2> QED BY <2>1, <2>2, <2>4 DEF RegionInv, Ownership
<1> QED BY <1>2, <1>3, <1>8 DEF RegionInv

LEMMA WriterFacts ==
  ASSUME RegionInv, NEW w \in Writers, Exists(w)
  PROVE  /\ writer[w] = [m_file |-> File(w), m_buffer |-> Buf(w)]
         /\ File(w) \in Handles \cup {NoFile} /\ Buf(w) \in Buffers /\ Sound(Buf(w))
         /\ Text(w) \in Texts /\ Len(Text(w)) \in Nat /\ Len(Text(w)) < next /\ next \in Nat
         /\ OwnedBy(writer[w]) \subseteq heap
         /\ Grows(Buf(w)) => OwnedBy(writer[w]) = {Buf(w).m_data} \ {NoRegion}
         /\ ~Grows(Buf(w)) => OwnedBy(writer[w]) = {}
<1>1. writer[w] \in WriterValues /\ next \in Nat /\ writer[w] # Gone
  BY DEF RegionInv, RegionTypes, Exists
<1>2. /\ writer[w] = [m_file |-> File(w), m_buffer |-> Buf(w)]
      /\ File(w) \in Handles \cup {NoFile} /\ Buf(w) \in Buffers
  BY <1>1 DEF WriterValues, File, Buf
<1>3. SoundWriter(writer[w], next)
  BY DEF RegionInv
<1>4. Sound(Buf(w)) /\ Len(Text(w)) < next
  BY <1>1, <1>3 DEF SoundWriter, Buf, Text
<1>5. OwnedBy(writer[w]) \subseteq heap
  BY HeldMembers DEF RegionInv, Ownership
<1> QED BY <1>1, <1>2, <1>3, <1>4, <1>5, SoundTypes, OwnedFacts DEF Text, Buf

\* The region that a buffer without one may get.
LEMMA FreshForBuffer ==
  ASSUME RegionInv, NEW w \in Writers, Exists(w), Buf(w).m_data = NoRegion
  PROVE  FreshRegion \in HeapRegions \ heap
<1>1. OwnedBy(writer[w]) = {}
  BY WriterFacts
<1> QED BY <1>1, FreshRegionIsFree

LEMMA AccountOne ==
  ASSUME NEW f \in Handles \cup {NoFile}, NEW c \in Buffers, Account({c}, {}), ruined = FALSE
  PROVE  /\ [m_file |-> f, m_buffer |-> c] \in WriterValues
         /\ [m_file |-> f, m_buffer |-> c] # Gone
         /\ heap' = heap \cup OwnedBy([m_file |-> f, m_buffer |-> c])
         /\ ruined' = FALSE
<1> DEFINE v == [m_file |-> f, m_buffer |-> c]
<1>1. v \in WriterValues /\ v # Gone
  BY NoWriterAssumption DEF WriterValues
<1>2. OwnedBy(v) = IF IsResizeable(c) THEN {c.m_data} \ {NoRegion} ELSE {}
  BY <1>1 DEF OwnedBy
<1>3. {b.m_data : b \in {d \in {c} : IsResizeable(d)}} = IF IsResizeable(c) THEN {c.m_data} ELSE {}
  OBVIOUS
<1>4. heap' = heap \cup OwnedBy(v)
  BY <1>2, <1>3 DEF Account
<1>5. ruined' = FALSE
  BY DEF Account
<1> QED BY <1>1, <1>4, <1>5

\* A writer gets another buffer of the same region, or of a fresh one.
LEMMA BufferGrows ==
  ASSUME RegionInv, NEW w \in Writers, Exists(w), NEW c, Sound(c),
         SameKind(Buf(w), c, FreshRegion),
         next' \in Nat, next <= next', Len(c.text) < next',
         writer' = [writer EXCEPT ![w].m_buffer = c], Account({c}, {}), detached' = detached
  PROVE  RegionInv'
<1> DEFINE v == [m_file |-> File(w), m_buffer |-> c]
           O == OwnedBy(writer[w])
<1>1. c \in Buffers /\ ruined = FALSE /\ writer \in [Writers -> WriterValues \cup {Gone}]
  BY SoundTypes DEF RegionInv, RegionTypes
<1>2. v \in WriterValues /\ v # Gone /\ heap' = heap \cup OwnedBy(v) /\ ruined' = FALSE
  BY <1>1, AccountOne, WriterFacts
<1>3. writer' = [writer EXCEPT ![w] = v]
  <2>1. writer[w] = [m_file |-> File(w), m_buffer |-> Buf(w)]
    BY WriterFacts
  <2>2. writer' = [writer EXCEPT ![w] = [writer[w] EXCEPT !.m_buffer = c]]
    OBVIOUS
  <2>3. [writer[w] EXCEPT !.m_buffer = c] = v
    BY <2>1
  <2> QED BY <2>2, <2>3
<1>4. SoundWriter(v, next')
  BY DEF SoundWriter
<1>5. OwnedBy(v) = IF Grows(c) THEN {c.m_data} \ {NoRegion} ELSE {}
  BY <1>2 DEF OwnedBy, Grows, IsResizeable
<1>6. O \subseteq heap /\ O = IF Grows(Buf(w)) THEN {Buf(w).m_data} \ {NoRegion} ELSE {}
  BY WriterFacts
<1>7. OwnedBy(v) = O \/ (O = {} /\ OwnedBy(v) \cap heap = {})
  <2>1. CASE c.m_data = Buf(w).m_data
    BY <2>1, <1>5, <1>6 DEF SameKind
  <2>2. CASE Buf(w).m_data = NoRegion /\ c.m_data = FreshRegion
    BY <2>2, <1>5, <1>6, FreshForBuffer
  <2> QED BY <2>1, <2>2 DEF SameKind
<1> HIDE DEF v, O
<1>8. OwnedBy(v) \cap (heap \ O) = {} /\ heap' = (heap \ O) \cup OwnedBy(v)
  BY <1>2, <1>6, <1>7
<1> QED BY <1>1, <1>2, <1>3, <1>4, <1>8, OneWriterChanges DEF O

\* A writer keeps its region, with less in it or the same, and may be pointed
\* at another file.
LEMMA BufferKeepsRegion ==
  ASSUME RegionInv, NEW w \in Writers, Exists(w), NEW f \in Handles \cup {NoFile}, NEW c, Sound(c),
         c.m_data = Buf(w).m_data, c.m_capacity = Buf(w).m_capacity, Len(c.text) <= Len(Text(w)),
         writer' = [writer EXCEPT ![w] = [m_file |-> f, m_buffer |-> c]],
         UNCHANGED <<heap, detached, ruined, next>>
  PROVE  RegionInv'
<1> DEFINE v == [m_file |-> f, m_buffer |-> c]
           O == OwnedBy(writer[w])
<1>1. c \in Buffers /\ ruined = FALSE /\ next \in Nat /\ Len(c.text) \in Nat
  BY SoundTypes DEF RegionInv, RegionTypes
<1>2. v \in WriterValues /\ v # Gone
  BY <1>1, NoWriterAssumption DEF WriterValues
<1>3. SoundWriter(v, next)
  <2>1. Len(Text(w)) < next /\ Len(Text(w)) \in Nat
    BY WriterFacts
  <2>2. Len(c.text) < next
    BY <1>1, <2>1
  <2> QED BY <2>2 DEF SoundWriter
<1>4. OwnedBy(v) = O /\ O \subseteq heap
  BY <1>2, <1>3, OwnedFacts, WriterFacts DEF Grows
<1> HIDE DEF v, O
<1>5. OwnedBy(v) \cap (heap \ O) = {} /\ heap' = (heap \ O) \cup OwnedBy(v)
  BY <1>4
<1>6. next' \in Nat /\ next <= next' /\ SoundWriter(v, next') /\ ruined' = FALSE
  BY <1>1, <1>3
<1> QED BY <1>2, <1>5, <1>6, OneWriterChanges DEF v, O

-----------------------------------------------------------------------------
(* Writing.                                                                *)

\* What a way to write leaves in the buffer b of s.
Leaves(b, s, c) ==
  /\ Sound(c)
  /\ SameKind(b, c, FreshRegion)
  /\ Len(c.text) <= Len(b.text) + Len(s)

\* There is room for s and k bytes more, or the buffer may grow for them.
HasRoom(b, s, k) ==
  /\ Grows(b) => \/ Len(b.text) + (Len(s) + k) <= MaxBytes + 1
                 \/ Len(b.text) + (Len(s) + k) <= b.m_capacity
  /\ ~Grows(b) => Len(b.text) + (Len(s) + k) <= Capacity(b)

LEMMA PushLeaves ==
  ASSUME NEW b, Sound(b), NEW s \in Texts,
         b.m_data = NoRegion => FreshRegion \in HeapRegions, HasRoom(b, s, 0)
  PROVE  Leaves(b, s, Push(b, s, FreshRegion)) /\ Leaves(b, s, PushCharRepeat(b, s, FreshRegion))
<1> DEFINE c == Stored(EnsureAggressively(b, Len(s), FreshRegion), s, 0)
<1>1. Len(s) \in Nat /\ Len(s) + 0 = Len(s) /\ Len(b.text) \in Nat /\ b.text \in Texts
  BY SoundTypes DEF Texts
<1>2. LET d == Stored(EnsureAggressively(b, Len(s) + 0, FreshRegion), s, 0)
      IN Sound(d) /\ d.text = b.text \o s /\ SameKind(b, d, FreshRegion)
  BY PushedIsSound DEF HasRoom
<1>3. Sound(c) /\ c.text = b.text \o s /\ SameKind(b, c, FreshRegion)
  BY <1>1, <1>2
<1> HIDE DEF c
<1>4. Leaves(b, s, c)
  BY <1>1, <1>3 DEF Leaves, Texts
<1>5. Leaves(b, s, b)
  BY <1>1 DEF Leaves, SameKind
<1> QED BY <1>4, <1>5 DEF Push, PushCharRepeat, c

LEMMA PushStringLeaves ==
  ASSUME NEW b, Sound(b), NEW s \in Texts,
         b.m_data = NoRegion => FreshRegion \in HeapRegions, HasRoom(b, s, 1)
  PROVE  Leaves(b, s, PushString(b, s, FreshRegion))
<1> DEFINE c == Stored(EnsureAggressively(b, Len(s) + 1, FreshRegion), s, 1)
<1>1. Len(s) \in Nat /\ Len(b.text) \in Nat /\ b.text \in Texts
  BY SoundTypes DEF Texts
<1>2. Sound(c) /\ c.text = b.text \o s /\ SameKind(b, c, FreshRegion)
  BY PushedIsSound DEF HasRoom
<1> HIDE DEF c
<1>3. Leaves(b, s, c)
  BY <1>1, <1>2 DEF Leaves, Texts
<1> QED BY <1>3 DEF PushString, c

\* What fits the capacity of a buffer fits it when it grows and when it does not.
LEMMA CapacityIsRoom ==
  ASSUME NEW b, Sound(b), NEW s \in Texts, NEW k \in Nat, Len(b.text) + (Len(s) + k) <= Capacity(b)
  PROVE  HasRoom(b, s, k)
BY DEF HasRoom, Capacity, IsResizeable, Grows

LEMMA ClearedLeaves ==
  ASSUME NEW b, Sound(b), NEW s \in Texts, NEW c, Leaves(Cleared(b), s, c) \/ c = Cleared(b)
  PROVE  Leaves(b, s, c)
<1>1. /\ Sound(Cleared(b)) /\ Len(Cleared(b).text) = 0
      /\ Cleared(b).m_data = b.m_data /\ Cleared(b).m_capacity = b.m_capacity
  BY ClearedIsSound
<1>2. Len(b.text) \in Nat /\ Len(s) \in Nat
  BY SoundTypes DEF Texts
<1>3. CASE Leaves(Cleared(b), s, c)
  BY <1>1, <1>2, <1>3, SoundTypes DEF Leaves, SameKind, Grows
<1>4. CASE c = Cleared(b)
  BY <1>1, <1>2, <1>4 DEF Leaves, SameKind, Grows
<1> QED BY <1>3, <1>4

\* The three plans push only where there is room.
LEMMA PlansLeave ==
  ASSUME NEW b, Sound(b), NEW s \in Texts,
         b.m_data = NoRegion => FreshRegion \in HeapRegions
  PROVE  /\ Leaves(b, s, WritePlan(b, s).buffer)
         /\ Leaves(b, s, RepeatPlan(b, s).buffer)
         /\ Leaves(b, s, StringPlan(b, s).buffer)
<1> DEFINE z == Cleared(b)
<1>1. /\ Len(s) \in Nat /\ Len(b.text) \in Nat /\ Capacity(b) \in Nat
      /\ Len(b.text) + (Len(s) + 0) = Len(b.text) + Len(s)
  BY SoundTypes, TopBitFacts DEF Texts, Capacity, IsResizeable
<1>2. /\ Sound(z) /\ Len(z.text) = 0 /\ Capacity(z) = Capacity(b)
      /\ z.m_data = NoRegion => FreshRegion \in HeapRegions
  BY ClearedIsSound
<1>3. Leaves(b, s, z)
  BY ClearedLeaves
<1> HIDE DEF z
<1>4. Len(b.text) + Len(s) <= Capacity(b) =>
        Leaves(b, s, Push(b, s, FreshRegion)) /\ Leaves(b, s, PushCharRepeat(b, s, FreshRegion))
  BY <1>1, CapacityIsRoom, PushLeaves
<1>5. Len(s) <= Capacity(b) =>
        Leaves(b, s, Push(z, s, FreshRegion)) /\ Leaves(b, s, PushCharRepeat(z, s, FreshRegion))
  <2> SUFFICES ASSUME Len(s) <= Capacity(b)
               PROVE  Leaves(b, s, Push(z, s, FreshRegion)) /\ Leaves(b, s, PushCharRepeat(z, s, FreshRegion))
    OBVIOUS
  <2>1. Len(z.text) + (Len(s) + 0) <= Capacity(z)
    <3>1. \A x \in Nat : 0 + (x + 0) = x
      OBVIOUS
    <3> QED BY <1>1, <1>2, <3>1
  <2>2. HasRoom(z, s, 0)
    <3>1. 0 \in Nat
      OBVIOUS
    <3> QED BY <1>2, <2>1, <3>1, CapacityIsRoom, Zenon
  <2>3. Leaves(z, s, Push(z, s, FreshRegion)) /\ Leaves(z, s, PushCharRepeat(z, s, FreshRegion))
    BY <1>2, <2>2, PushLeaves
  <2> QED BY <2>3, ClearedLeaves DEF z
<1>6. Len(s) + 1 <= Capacity(b) - Len(b.text) => Leaves(b, s, PushString(b, s, FreshRegion))
  <2> SUFFICES ASSUME Len(s) + 1 <= Capacity(b) - Len(b.text)
               PROVE  Leaves(b, s, PushString(b, s, FreshRegion))
    OBVIOUS
  <2>1. Len(b.text) + (Len(s) + 1) <= Capacity(b)
    <3>1. \A i, j, k \in Nat : j + 1 <= k - i => i + (j + 1) <= k
      OBVIOUS
    <3> QED BY <1>1, <3>1
  <2> QED BY <2>1, CapacityIsRoom, PushStringLeaves
<1>7. Leaves(b, s, WritePlan(b, s).buffer)
  BY <1>1, <1>3, <1>4, <1>5 DEF WritePlan, Plan, z
<1>8. Leaves(b, s, RepeatPlan(b, s).buffer)
  BY <1>1, <1>3, <1>4, <1>5 DEF RepeatPlan, Plan, z
<1>9. Leaves(b, s, StringPlan(b, s).buffer)
  BY <1>6, <1>7 DEF StringPlan, Plan
<1> QED BY <1>7, <1>8, <1>9

LEMMA NewBytesFacts ==
  ASSUME NEW n \in Nat, next \in Nat \ {0}, next + n - 1 <= MaxBytes
  PROVE  NewBytes(n) \in Texts /\ Len(NewBytes(n)) = n
<1>1. MaxBytes \in Nat
  BY WriterAssumption
<1>2. \A i \in 1 .. n : next + i - 1 \in 1 .. MaxBytes
  BY <1>1
<1> QED BY <1>2 DEF NewBytes, Texts

\* Any of the functions that write, on a buffer that is left as they leave it.
LEMMA WritingKeepsRegions ==
  ASSUME RegionInv, NEW w \in Writers, Exists(w), NEW n \in Nat, NEW c,
         next' = next + n, Leaves(Buf(w), NewBytes(n), c), Len(NewBytes(n)) = n,
         writer' = [writer EXCEPT ![w].m_buffer = c], Account({c}, {}), detached' = detached
  PROVE  RegionInv'
<1>1. Len(Text(w)) \in Nat /\ Len(Text(w)) < next /\ next \in Nat
  BY WriterFacts
<1>2. Sound(c) /\ SameKind(Buf(w), c, FreshRegion) /\ Len(c.text) <= Len(Text(w)) + n
  BY DEF Leaves, Text
<1>3. Len(c.text) \in Nat
  BY <1>2, SoundTypes
<1>4. next' \in Nat /\ next <= next' /\ Len(c.text) < next'
  BY <1>1, <1>2, <1>3
<1> QED BY <1>2, <1>4, BufferGrows

LEMMA HandFacts ==
  ASSUME RegionInv, NEW w \in Writers, NEW n \in Nat, NEW k \in 0 .. 1, Hand(w, n, n + k)
  PROVE  /\ Exists(w) /\ n \in Nat /\ next' = next + n
         /\ NewBytes(n) \in Texts /\ Len(NewBytes(n)) = n
         /\ Sound(Buf(w))
         /\ Buf(w).m_data = NoRegion => FreshRegion \in HeapRegions
         /\ ~ToFile(w) => HasRoom(Buf(w), NewBytes(n), k)
<1>1. n \in Nat /\ MaxBytes \in Nat /\ next \in Nat \ {0}
  BY WriterAssumption DEF RegionInv, RegionTypes
<1>2. Exists(w) /\ next' = next + n /\ next + n - 1 <= MaxBytes /\ Fits(w, n + k)
  BY DEF Hand
<1>3. NewBytes(n) \in Texts /\ Len(NewBytes(n)) = n
  BY <1>1, <1>2, NewBytesFacts
<1>4. /\ Sound(Buf(w)) /\ Len(Buf(w).text) \in Nat /\ Len(Buf(w).text) < next
      /\ Buf(w).m_data = NoRegion => FreshRegion \in HeapRegions
  BY <1>2, WriterFacts, FreshForBuffer DEF Text
<1>5. ASSUME ~ToFile(w) PROVE HasRoom(Buf(w), NewBytes(n), k)
  <2>1. CASE IsResizeable(Buf(w))
    <3>1. \A i, j, m, e \in Nat, l \in 0 .. 1 : i < m /\ m + j - 1 <= e => i + (j + l) <= e + 1
      OBVIOUS
    <3>2. Len(Buf(w).text) + (n + k) <= MaxBytes + 1
      BY <1>1, <1>2, <1>4, <3>1
    <3> QED BY <2>1, <3>2, <1>3 DEF HasRoom, Grows, IsResizeable
  <2>2. CASE ~IsResizeable(Buf(w))
    <3>1. Len(Buf(w).text) + (n + k) <= Capacity(Buf(w))
      BY <2>2, <1>2, <1>5 DEF Fits, Text
    <3> QED BY <2>2, <3>1, <1>3 DEF HasRoom, Grows, IsResizeable
  <2> QED BY <2>1, <2>2
<1> QED BY <1>1, <1>2, <1>3, <1>4, <1>5

LEMMA WriteStep ==
  ASSUME RegionInv, NEW w \in Writers, NEW n \in Sizes, Write(w, n)
  PROVE  RegionInv'
<1> DEFINE s == NewBytes(n)
           c == IF ToFile(w) THEN WritePlan(Buf(w), s).buffer ELSE Push(Buf(w), s, FreshRegion)
<1>1. n \in Nat /\ Hand(w, n, n + 0)
  BY WriterAssumption DEF Write
<1>2. /\ Exists(w) /\ n \in Nat /\ next' = next + n /\ s \in Texts /\ Len(s) = n
      /\ Sound(Buf(w))
      /\ Buf(w).m_data = NoRegion => FreshRegion \in HeapRegions
      /\ ~ToFile(w) => HasRoom(Buf(w), s, 0)
  BY <1>1, HandFacts
<1>3. Leaves(Buf(w), s, c)
  BY <1>2, PlansLeave, PushLeaves
<1>4. writer' = [writer EXCEPT ![w].m_buffer = c] /\ Account({c}, {}) /\ detached' = detached
  BY DEF Write, Perform, Keep
<1> HIDE DEF c
<1> QED BY <1>2, <1>3, <1>4, WritingKeepsRegions

LEMMA WriteCharRepeatStep ==
  ASSUME RegionInv, NEW w \in Writers, NEW n \in Sizes, WriteCharRepeat(w, n)
  PROVE  RegionInv'
<1> DEFINE s == NewBytes(n)
           c == IF ToFile(w) THEN RepeatPlan(Buf(w), s).buffer ELSE PushCharRepeat(Buf(w), s, FreshRegion)
<1>1. n \in Nat /\ Hand(w, n, n + 0)
  BY WriterAssumption DEF WriteCharRepeat
<1>2. /\ Exists(w) /\ n \in Nat /\ next' = next + n /\ s \in Texts /\ Len(s) = n
      /\ Sound(Buf(w))
      /\ Buf(w).m_data = NoRegion => FreshRegion \in HeapRegions
      /\ ~ToFile(w) => HasRoom(Buf(w), s, 0)
  BY <1>1, HandFacts
<1>3. Leaves(Buf(w), s, c)
  BY <1>2, PlansLeave, PushLeaves
<1>4. writer' = [writer EXCEPT ![w].m_buffer = c] /\ Account({c}, {}) /\ detached' = detached
  BY DEF WriteCharRepeat, Perform, Keep
<1> HIDE DEF c
<1> QED BY <1>2, <1>3, <1>4, WritingKeepsRegions

LEMMA WriteStringStep ==
  ASSUME RegionInv, NEW w \in Writers, NEW n \in Sizes, WriteString(w, n)
  PROVE  RegionInv'
<1> DEFINE s == NewBytes(n)
           c == IF ToFile(w) THEN StringPlan(Buf(w), s).buffer ELSE PushString(Buf(w), s, FreshRegion)
<1>1. n \in Nat /\ Hand(w, n, n + 1)
  BY WriterAssumption DEF WriteString
<1>2. /\ Exists(w) /\ n \in Nat /\ next' = next + n /\ s \in Texts /\ Len(s) = n
      /\ Sound(Buf(w))
      /\ Buf(w).m_data = NoRegion => FreshRegion \in HeapRegions
      /\ ~ToFile(w) => HasRoom(Buf(w), s, 1)
  BY <1>1, HandFacts
<1>3. Leaves(Buf(w), s, c)
  BY <1>2, PlansLeave, PushStringLeaves
<1>4. writer' = [writer EXCEPT ![w].m_buffer = c] /\ Account({c}, {}) /\ detached' = detached
  BY DEF WriteString, Perform, Keep
<1> HIDE DEF c
<1> QED BY <1>2, <1>3, <1>4, WritingKeepsRegions

LEMMA EndStringStep ==
  ASSUME RegionInv, NEW w \in Writers, EndString(w)
  PROVE  RegionInv'
<1> DEFINE s == NewBytes(1)
           c == Push(Buf(w), s, FreshRegion)
<1>1. 1 \in Nat /\ 0 \in 0 .. 1 /\ Hand(w, 1, 1 + 0) /\ ~ToFile(w)
  BY DEF EndString
<1>2. /\ Exists(w) /\ next' = next + 1 /\ s \in Texts /\ Len(s) = 1
      /\ Sound(Buf(w))
      /\ Buf(w).m_data = NoRegion => FreshRegion \in HeapRegions
      /\ HasRoom(Buf(w), s, 0)
  BY <1>1, HandFacts, Zenon
<1>3. Leaves(Buf(w), s, c)
  BY <1>2, PushLeaves
<1>4. writer' = [writer EXCEPT ![w].m_buffer = c] /\ Account({c}, {}) /\ detached' = detached
  BY DEF EndString, Keep
<1> HIDE DEF c
<1> QED BY <1>2, <1>3, <1>4, WritingKeepsRegions

-----------------------------------------------------------------------------
(* What a writer does with what it has.                                    *)

LEMMA FlushStep ==
  ASSUME RegionInv, NEW w \in Writers, Flush(w) \/ Clear(w)
  PROVE  RegionInv'
<1>1. Exists(w) /\ UNCHANGED <<heap, detached, ruined, next>>
  BY DEF Flush, Clear
<1>2. PICK c \in {Buf(w), Cleared(Buf(w))} : writer' = [writer EXCEPT ![w].m_buffer = c]
  BY DEF Flush, Clear, Buf
<1>3. /\ writer[w] = [m_file |-> File(w), m_buffer |-> Buf(w)] /\ Sound(Buf(w))
      /\ File(w) \in Handles \cup {NoFile} /\ Len(Text(w)) \in Nat
  BY <1>1, WriterFacts
<1>4. writer' = [writer EXCEPT ![w] = [m_file |-> File(w), m_buffer |-> c]]
  <2>1. writer' = [writer EXCEPT ![w] = [writer[w] EXCEPT !.m_buffer = c]]
    BY <1>2
  <2>2. [writer[w] EXCEPT !.m_buffer = c] = [m_file |-> File(w), m_buffer |-> c]
    BY <1>3
  <2> QED BY <2>1, <2>2
<1>5. /\ Sound(c) /\ c.m_data = Buf(w).m_data /\ c.m_capacity = Buf(w).m_capacity
      /\ Len(c.text) <= Len(Text(w))
  BY <1>3, ClearedIsSound DEF Text
<1> QED BY <1>1, <1>3, <1>4, <1>5, BufferKeepsRegion

LEMMA SubstituteStep ==
  ASSUME RegionInv, NEW w \in Writers, NEW h \in Handles \cup {NoFile}, Substitute(w, h)
  PROVE  RegionInv'
<1> DEFINE c == Cleared(Buf(w))
<1>1. /\ Exists(w) /\ UNCHANGED <<heap, detached, ruined, next>>
      /\ writer' = [writer EXCEPT ![w] = [m_file |-> h, m_buffer |-> c]]
  BY DEF Substitute
<1>2. Sound(Buf(w)) /\ Len(Text(w)) \in Nat
  BY <1>1, WriterFacts
<1>3. /\ Sound(c) /\ c.m_data = Buf(w).m_data /\ c.m_capacity = Buf(w).m_capacity
      /\ Len(c.text) <= Len(Text(w))
  BY <1>2, ClearedIsSound
<1> HIDE DEF c
<1> QED BY <1>1, <1>3, BufferKeepsRegion

LEMMA ReserveStep ==
  ASSUME RegionInv, NEW w \in Writers, NEW n \in Capacities, ReserveBufferCapacity(w, n)
  PROVE  RegionInv'
<1> DEFINE b == Buf(w)
           c == Reserve(b, n, FreshRegion)
<1>1. /\ Exists(w) /\ n >= Capacity(b) /\ next' = next /\ detached' = detached
      /\ writer' = [writer EXCEPT ![w].m_buffer = c] /\ Account({c}, {})
  BY DEF ReserveBufferCapacity, Keep
<1>2. /\ b \in Buffers /\ Sound(b) /\ Len(b.text) \in Nat /\ Len(b.text) < next /\ next \in Nat
      /\ b.m_data = NoRegion => FreshRegion \in HeapRegions
  BY <1>1, WriterFacts, FreshForBuffer DEF Text
<1>3. n \in Nat /\ n < TopBit
  BY CapacityAssumption, WriterAssumption
<1>4. next' \in Nat /\ next <= next'
  BY <1>1, <1>2
<1> HIDE DEF b
<1>5. CASE n <= b.m_capacity
  <2>1. c = b
    BY <1>5 DEF Reserve
  <2>2. SameKind(b, c, FreshRegion) /\ Sound(c) /\ Len(c.text) < next
    BY <1>2, <2>1 DEF SameKind
  <2> HIDE DEF c
  <2> QED BY <1>1, <1>4, <2>2, BufferGrows DEF b
<1>6. CASE ~ (n <= b.m_capacity)
  <2>1. c = [b EXCEPT !.m_data = IF @ = NoRegion THEN FreshRegion ELSE @, !.m_capacity = n]
    BY <1>6 DEF Reserve, Reallocated
  <2> HIDE DEF c
  <2>2. /\ c.text = b.text /\ c.m_capacity = n /\ c.high = b.high
        /\ c.m_data = (IF b.m_data = NoRegion THEN FreshRegion ELSE b.m_data)
        /\ c \in [m_data : HeapRegions \cup Arrays \cup {NoRegion}, text : Seq(1 .. MaxBytes),
                  m_capacity : Nat, high : Nat]
    BY <2>1, <1>2, <1>3, SoundTypes DEF Buffers
  <2>3. b.m_capacity < TopBit /\ b.m_data \in HeapRegions \cup {NoRegion}
    BY <1>2, <1>3, <1>6, SoundTypes, TopBitFacts DEF Sound
  <2>4. Len(b.text) <= b.m_capacity /\ b.high <= b.m_capacity
    BY <1>2, <2>3 DEF Sound, Capacity, IsResizeable
  <2>5. Capacity(c) = n
    BY <2>2, <1>3 DEF Capacity, IsResizeable
  <2>6. c \in Buffers
    BY <2>2, <1>3, TopBitFacts DEF Buffers
  <2>7. Sound(c)
    BY <1>2, <1>3, <1>6, <2>6, <2>2, <2>3, <2>4, <2>5, SoundTypes DEF Sound
  <2>8. SameKind(b, c, FreshRegion)
    BY <1>3, <2>2, <2>3 DEF SameKind, Grows
  <2>9. Len(c.text) < next'
    BY <1>1, <1>2, <2>2
  <2> QED BY <1>1, <1>4, <2>7, <2>8, <2>9, BufferGrows DEF b
<1> QED BY <1>5, <1>6

-----------------------------------------------------------------------------
(* Construction, moves, destruction.                                       *)

LEMMA ConstructStep ==
  ASSUME RegionInv, NEW w \in Writers, NEW capacity \in Capacities, NEW h \in Handles \cup {NoFile},
         Construct(w, capacity, h)
  PROVE  RegionInv'
<1> DEFINE c == NewBuffer(capacity, FreshRegion)
           v == [m_file |-> h, m_buffer |-> c]
<1>1. /\ writer[w] = Gone /\ writer' = [writer EXCEPT ![w] = v] /\ Account({c}, {})
      /\ detached' = detached /\ next' = next
  BY DEF Construct, Exists
<1>2. OwnedBy(writer[w]) = {}
  BY <1>1 DEF OwnedBy
<1>3. FreshRegion \in HeapRegions \ heap
  BY <1>2, FreshRegionIsFree
<1>4. Sound(c) /\ c.text = <<>> /\ Grows(c) /\ c.m_data \in {NoRegion, FreshRegion}
  BY <1>3, NewIsSound
<1> HIDE DEF c
<1>5. ruined = FALSE /\ next \in Nat \ {0} /\ c \in Buffers
  BY <1>4, SoundTypes DEF RegionInv, RegionTypes
<1>6. v \in WriterValues /\ v # Gone /\ heap' = heap \cup OwnedBy(v) /\ ruined' = FALSE
  BY <1>1, <1>5, AccountOne
<1>7. SoundWriter(v, next')
  BY <1>1, <1>4, <1>5 DEF SoundWriter
<1>8. OwnedBy(v) \cap heap = {}
  BY <1>3, <1>4, <1>6, <1>7, OwnedFacts
<1> HIDE DEF v
<1>9. next' \in Nat /\ next <= next'
  BY <1>1, <1>5
<1> QED BY <1>1, <1>2, <1>6, <1>7, <1>8, <1>9, OneWriterChanges

LEMMA ConstructOnStep ==
  ASSUME RegionInv, NEW w \in Writers, NEW a \in Arrays, NEW h \in Handles \cup {NoFile},
         ConstructOn(w, a, h)
  PROVE  RegionInv'
<1> DEFINE c == FromExistingRegion(a, ArrayLength)
           v == [m_file |-> h, m_buffer |-> c]
<1>1. /\ writer[w] = Gone /\ writer' = [writer EXCEPT ![w] = v]
      /\ UNCHANGED <<heap, detached, ruined, next>>
  BY DEF ConstructOn, Exists
<1>2. Sound(c) /\ c.text = <<>> /\ ~Grows(c)
  BY BorrowedIsSound
<1> HIDE DEF c
<1>3. ruined = FALSE /\ next \in Nat \ {0} /\ c \in Buffers
  BY <1>2, SoundTypes DEF RegionInv, RegionTypes
<1>4. v \in WriterValues /\ v # Gone
  BY <1>3, NoWriterAssumption DEF WriterValues
<1>5. SoundWriter(v, next')
  BY <1>1, <1>2, <1>3 DEF SoundWriter
<1>6. OwnedBy(v) = {} /\ OwnedBy(writer[w]) = {}
  BY <1>1, <1>2, <1>4 DEF OwnedBy, IsResizeable, Grows
<1> HIDE DEF v
<1>7. next' \in Nat /\ next <= next'
  BY <1>1, <1>3
<1> QED BY <1>1, <1>3, <1>4, <1>5, <1>6, <1>7, OneWriterChanges

LEMMA DestroyStep ==
  ASSUME RegionInv, NEW w \in Writers, Destroy(w)
  PROVE  RegionInv'
<1> DEFINE freed == IF IsResizeable(Buf(w)) THEN FreedBy(Buf(w)) ELSE {}
<1>1. /\ Exists(w) /\ writer' = [writer EXCEPT ![w] = Gone]
      /\ Account({}, freed) /\ detached' = detached /\ next' = next
  BY DEF Destroy
<1>2. freed = OwnedBy(writer[w]) /\ OwnedBy(writer[w]) \subseteq heap
  BY <1>1, WriterFacts DEF OwnedBy, FreedBy, Buf, Exists
<1> HIDE DEF freed
<1>3. ruined = FALSE /\ next \in Nat
  BY DEF RegionInv, RegionTypes
<1>4. heap' = heap \ OwnedBy(writer[w]) /\ ruined' = FALSE
  BY <1>1, <1>2, <1>3 DEF Account
<1>5. OwnedBy(Gone) = {} /\ SoundWriter(Gone, next')
  BY DEF OwnedBy, SoundWriter
<1>6. next' \in Nat /\ next <= next'
  BY <1>1, <1>3
<1> QED BY <1>1, <1>4, <1>5, <1>6, OneWriterChanges

\* A writer takes over what another has, and what it had is freed.
LEMMA TakingOverKeepsRegions ==
  ASSUME RegionInv, NEW w \in Writers, NEW x \in Writers, w # x, Exists(x),
         writer' = [writer EXCEPT ![w] = writer[x], ![x] = MovedFrom],
         heap' = heap \ OwnedBy(writer[w]), ruined' = FALSE, UNCHANGED <<detached, next>>
  PROVE  RegionInv'
<1>1. /\ writer \in [Writers -> WriterValues \cup {Gone}] /\ next \in Nat \ {0}
      /\ detached \in SUBSET HeapRegions
  BY DEF RegionInv, RegionTypes
<1>2. Sound(EmptyBuffer) /\ EmptyBuffer.text = <<>> /\ EmptyBuffer.m_data = NoRegion
  BY EmptyIsSound
<1>3. EmptyBuffer \in Buffers /\ MovedFrom.m_buffer = EmptyBuffer
  BY <1>2, SoundTypes DEF MovedFrom
<1>4. MovedFrom \in WriterValues
  BY <1>3 DEF MovedFrom, WriterValues
<1>5. SoundWriter(MovedFrom, next)
  BY <1>1, <1>2, <1>3 DEF SoundWriter
<1>6. OwnedBy(MovedFrom) = {}
  BY <1>2, <1>3 DEF OwnedBy
<1>7. \A y \in Writers : writer'[y] = IF y = x THEN MovedFrom ELSE IF y = w THEN writer[x] ELSE writer[y]
  BY <1>1
<1>8. RegionTypes'
  BY <1>1, <1>4 DEF RegionTypes
<1>9. \A y \in Writers : SoundWriter(writer[y], next)'
  BY <1>5, <1>7 DEF RegionInv
<1>10. /\ OwnedBy(writer'[x]) = {}
       /\ OwnedBy(writer'[w]) = OwnedBy(writer[x])
       /\ \A y \in Writers \ {w, x} : OwnedBy(writer'[y]) = OwnedBy(writer[y])
  BY <1>6, <1>7
<1>11. \A r : r \in Held <=> \E y \in Writers : r \in OwnedBy(writer[y])
  BY HeldMembers
<1>12. \A r : r \in Held' <=> \E y \in Writers : r \in OwnedBy(writer'[y])
  BY DEF Held
<1>13. /\ heap = detached \cup Held
       /\ \A y \in Writers : OwnedBy(writer[y]) \cap detached = {}
       /\ \A y, z \in Writers : y # z => OwnedBy(writer[y]) \cap OwnedBy(writer[z]) = {}
  BY DEF RegionInv, Ownership
<1>14. Ownership'
  <2>1. heap' = detached' \cup Held'
    <3>1. \A r \in Held' : r \in Held /\ r \notin OwnedBy(writer[w])
      BY <1>10, <1>11, <1>12, <1>13
    <3>2. \A r \in Held : r \in OwnedBy(writer[w]) \/ r \in Held'
      BY <1>10, <1>11, <1>12
    <3>3. OwnedBy(writer[w]) \cap detached = {}
      BY <1>13
    <3> QED BY <1>13, <3>1, <3>2, <3>3
  <2>2. \A y \in Writers : OwnedBy(writer'[y]) \cap detached' = {}
    BY <1>10, <1>13
  <2>3. \A y, z \in Writers : y # z => OwnedBy(writer'[y]) \cap OwnedBy(writer'[z]) = {}
    BY <1>10, <1>13, ZenonT(60)
  <2> QED BY <2>1, <2>2, <2>3 DEF RegionInv, Ownership
<1> QED BY <1>8, <1>9, <1>14 DEF RegionInv

LEMMA MoveStep ==
  ASSUME RegionInv, NEW w \in Writers, NEW x \in Writers, Move(w, x)
  PROVE  RegionInv'
<1>1. writer[w] = Gone /\ Exists(x) /\ w # x
  BY DEF Move, Exists
<1>2. OwnedBy(writer[w]) = {}
  BY <1>1 DEF OwnedBy
<1>3. /\ writer' = [writer EXCEPT ![w] = writer[x], ![x] = MovedFrom]
      /\ UNCHANGED <<heap, detached, ruined, next>>
  BY DEF Move
<1>4. ruined = FALSE
  BY DEF RegionInv, RegionTypes
<1>5. heap' = heap \ OwnedBy(writer[w]) /\ ruined' = FALSE
  BY <1>2, <1>3, <1>4
<1> QED BY <1>1, <1>3, <1>5, TakingOverKeepsRegions

LEMMA AssignStep ==
  ASSUME RegionInv, NEW w \in Writers, NEW x \in Writers, Assign(w, x)
  PROVE  RegionInv'
<1>1. /\ w # x /\ Exists(w) /\ Exists(x) /\ IsResizeable(Buf(w))
      /\ writer' = [writer EXCEPT ![w] = writer[x], ![x] = MovedFrom]
      /\ Account({}, FreedBy(Buf(w))) /\ UNCHANGED <<detached, next>>
  BY DEF Assign
<1>2. FreedBy(Buf(w)) = OwnedBy(writer[w]) /\ OwnedBy(writer[w]) \subseteq heap
  BY <1>1, WriterFacts DEF OwnedBy, FreedBy, Buf, Exists
<1>3. ruined = FALSE
  BY DEF RegionInv, RegionTypes
<1>4. heap' = heap \ OwnedBy(writer[w]) /\ ruined' = FALSE
  BY <1>1, <1>2, <1>3 DEF Account
<1> QED BY <1>1, <1>4, TakingOverKeepsRegions

LEMMA DetachStep ==
  ASSUME RegionInv, NEW w \in Writers, Detach(w)
  PROVE  RegionInv'
<1> DEFINE O == OwnedBy(writer[w])
           v == [m_file |-> File(w), m_buffer |-> EmptyBuffer]
<1>1. /\ Exists(w) /\ IsResizeable(Buf(w)) /\ Cardinality(detached) < MaxDetached
      /\ detached' = detached \cup FreedBy(Buf(w))
      /\ writer' = [writer EXCEPT ![w].m_buffer = EmptyBuffer]
      /\ UNCHANGED <<heap, ruined, next>>
  BY DEF Detach
<1>2. /\ writer \in [Writers -> WriterValues \cup {Gone}] /\ next \in Nat \ {0}
      /\ detached \in SUBSET HeapRegions /\ ruined = FALSE
  BY DEF RegionInv, RegionTypes
<1>3. /\ writer[w] = [m_file |-> File(w), m_buffer |-> Buf(w)] /\ File(w) \in Handles \cup {NoFile}
      /\ O \subseteq heap
  BY <1>1, WriterFacts
<1>4. detached' = detached \cup O
  BY <1>1 DEF OwnedBy, FreedBy, Buf, Exists
<1>5. O \subseteq HeapRegions /\ O = {Buf(w).m_data} \ {NoRegion}
  BY <1>1, OwnedFacts, WriterFacts DEF Grows, IsResizeable, RegionInv
<1>6. writer' = [writer EXCEPT ![w] = v]
  <2>1. writer' = [writer EXCEPT ![w] = [writer[w] EXCEPT !.m_buffer = EmptyBuffer]]
    BY <1>1
  <2>2. [writer[w] EXCEPT !.m_buffer = EmptyBuffer] = v
    BY <1>3
  <2> QED BY <2>1, <2>2
<1>7. /\ Sound(EmptyBuffer) /\ EmptyBuffer.text = <<>> /\ EmptyBuffer.m_data = NoRegion
      /\ EmptyBuffer \in Buffers
  BY EmptyIsSound, SoundTypes
<1>8. v \in WriterValues /\ SoundWriter(v, next) /\ OwnedBy(v) = {}
  BY <1>2, <1>3, <1>7 DEF WriterValues, SoundWriter, OwnedBy
<1> HIDE DEF v, O
<1>9. RegionTypes'
  BY <1>1, <1>2, <1>4, <1>5, <1>6, <1>8 DEF RegionTypes
<1>10. \A y \in Writers : writer'[y] = IF y = w THEN v ELSE writer[y]
  BY <1>2, <1>6
<1>11. \A y \in Writers : SoundWriter(writer[y], next)'
  BY <1>1, <1>8, <1>10 DEF RegionInv
<1>12. Cardinality(detached') <= MaxDetached
  <2>1. IsFiniteSet(detached) /\ Cardinality(detached) \in Nat /\ MaxDetached \in Nat
    BY <1>2, RegionAssumption, FS_Subset, FS_CardinalityType
  <2>2. CASE O = {}
    <3>1. detached' = detached
      BY <2>2, <1>4
    <3> QED BY <2>1, <3>1, <1>1
  <2>3. CASE O # {}
    <3>1. detached' = detached \cup {Buf(w).m_data}
      BY <2>3, <1>4, <1>5
    <3>2. Cardinality(detached \cup {Buf(w).m_data}) <= Cardinality(detached) + 1
      BY <2>1, FS_AddElement
    <3>3. Cardinality(detached \cup {Buf(w).m_data}) \in Nat
      BY <2>1, FS_AddElement, FS_CardinalityType
    <3> QED BY <2>1, <3>1, <3>2, <3>3, <1>1
  <2> QED BY <2>2, <2>3
<1>13. \A y \in Writers : OwnedBy(writer'[y]) = IF y = w THEN {} ELSE OwnedBy(writer[y])
  BY <1>8, <1>10
<1>14. \A r : r \in Held <=> \E y \in Writers : r \in OwnedBy(writer[y])
  BY HeldMembers
<1>15. \A r : r \in Held' <=> \E y \in Writers : r \in OwnedBy(writer'[y])
  BY DEF Held
<1>16. /\ heap = detached \cup Held
       /\ \A y \in Writers : OwnedBy(writer[y]) \cap detached = {}
       /\ \A y, z \in Writers : y # z => OwnedBy(writer[y]) \cap OwnedBy(writer[z]) = {}
  BY DEF RegionInv, Ownership
<1>17. Ownership'
  <2>1. heap' = detached' \cup Held'
    BY <1>1, <1>4, <1>13, <1>14, <1>15, <1>16 DEF O
  <2>2. \A y \in Writers : OwnedBy(writer'[y]) \cap detached' = {}
    BY <1>4, <1>13, <1>16 DEF O
  <2>3. \A y, z \in Writers : y # z => OwnedBy(writer'[y]) \cap OwnedBy(writer'[z]) = {}
    BY <1>13, <1>16
  <2> QED BY <1>12, <2>1, <2>2, <2>3 DEF Ownership
<1> QED BY <1>9, <1>11, <1>17 DEF RegionInv

LEMMA ReleaseStep ==
  ASSUME RegionInv, NEW r \in HeapRegions, Release(r)
  PROVE  RegionInv'
<1>1. /\ r \in detached /\ detached' = detached \ {r} /\ Account({}, {r})
      /\ writer' = writer /\ next' = next
  BY DEF Release
<1>2. /\ heap = detached \cup Held /\ ruined = FALSE /\ detached \in SUBSET HeapRegions
      /\ Cardinality(detached) <= MaxDetached
      /\ \A w \in Writers : OwnedBy(writer[w]) \cap detached = {}
  BY DEF RegionInv, RegionTypes, Ownership
<1>3. heap' = heap \ {r} /\ ruined' = FALSE
  BY <1>1, <1>2 DEF Account
<1>4. r \notin Held
  BY <1>1, <1>2, HeldMembers
<1>5. Held' = Held
  BY <1>1 DEF Held
<1>6. Cardinality(detached') <= MaxDetached
  <2>1. IsFiniteSet(detached) /\ Cardinality(detached) \in Nat /\ MaxDetached \in Nat
    BY <1>2, RegionAssumption, FS_Subset, FS_CardinalityType
  <2>2. Cardinality(detached \ {r}) = Cardinality(detached) - 1
    BY <1>1, <2>1, FS_RemoveElement
  <2> QED BY <1>1, <1>2, <2>1, <2>2
<1>7. heap' = detached' \cup Held'
  BY <1>1, <1>2, <1>3, <1>4, <1>5
<1> QED BY <1>1, <1>2, <1>3, <1>6, <1>7 DEF RegionInv, RegionTypes, Ownership

-----------------------------------------------------------------------------
(* The whole system.                                                       *)

LEMMA RegionInit == Init => RegionInv
<1> SUFFICES ASSUME Init PROVE RegionInv
  OBVIOUS
<1>1. /\ writer = [w \in Writers |-> Gone] /\ heap = {} /\ detached = {}
      /\ ruined = FALSE /\ next = 1
  BY DEF Init
<1>2. \A w \in Writers : OwnedBy(writer[w]) = {} /\ SoundWriter(writer[w], next)
  BY <1>1 DEF OwnedBy, SoundWriter
<1>3. Held = {}
  BY <1>2, HeldMembers
<1>4. Cardinality(detached) = 0 /\ MaxDetached \in Nat
  BY <1>1, FS_EmptySet, RegionAssumption
<1> QED BY <1>1, <1>2, <1>3, <1>4 DEF RegionInv, RegionTypes, Ownership

\* The steps that leave writers and regions alone.
LEMMA OtherStep ==
  ASSUME RegionInv, UNCHANGED <<writer, heap, detached, ruined>>, next' \in Nat, next <= next'
  PROVE  RegionInv'
<1>1. next \in Nat \ {0} /\ Held' = Held
  BY DEF RegionInv, RegionTypes, Held
<1>2. ASSUME NEW w \in Writers PROVE SoundWriter(writer[w], next')
  <2>1. SoundWriter(writer[w], next)
    BY DEF RegionInv
  <2>2. writer[w] # Gone => Len(writer[w].m_buffer.text) \in Nat
    BY <2>1, SoundTypes DEF SoundWriter
  <2> QED BY <1>1, <2>1, <2>2 DEF SoundWriter
<1> QED BY <1>1, <1>2 DEF RegionInv, RegionTypes, Ownership

LEMMA RegionNext == RegionInv /\ [Next]_vars => RegionInv'
<1> SUFFICES ASSUME RegionInv, [Next]_vars PROVE RegionInv'
  OBVIOUS
<1>1. next \in Nat
  BY DEF RegionInv, RegionTypes
<1>2. CASE HandleStep /\ UNCHANGED writerVars
  BY <1>1, <1>2, OtherStep DEF writerVars
<1>3. CASE DirectWrite /\ UNCHANGED <<writer, heap, detached, ruined>>
  <2>1. PICK n \in Sizes : next' = next + n
    BY <1>3 DEF DirectWrite
  <2>2. n \in Nat
    BY WriterAssumption
  <2> QED BY <1>1, <1>3, <2>1, <2>2, OtherStep
<1>4. CASE WriterStep
  <2>1. ASSUME NEW w \in Writers, NEW n \in Sizes,
               Write(w, n) \/ WriteCharRepeat(w, n) \/ WriteString(w, n)
        PROVE  RegionInv'
    BY <2>1, WriteStep, WriteCharRepeatStep, WriteStringStep
  <2>2. ASSUME NEW w \in Writers, EndString(w)
        PROVE  RegionInv'
    BY <2>2, EndStringStep
  <2>3. ASSUME NEW w \in Writers, Flush(w) \/ Clear(w) \/ Detach(w) \/ Destroy(w)
        PROVE  RegionInv'
    BY <2>3, FlushStep, DetachStep, DestroyStep
  <2>4. ASSUME NEW w \in Writers, NEW h \in Handles \cup {NoFile}, Substitute(w, h)
        PROVE  RegionInv'
    BY <2>4, SubstituteStep
  <2>5. ASSUME NEW w \in Writers, NEW h \in Handles \cup {NoFile},
               \/ \E c \in Capacities : Construct(w, c, h)
               \/ \E a \in Arrays : ConstructOn(w, a, h)
        PROVE  RegionInv'
    BY <2>5, ConstructStep, ConstructOnStep
  <2>6. ASSUME NEW w \in Writers, NEW x \in Writers, Move(w, x) \/ Assign(w, x)
        PROVE  RegionInv'
    BY <2>6, MoveStep, AssignStep
  <2>7. ASSUME NEW w \in Writers, NEW c \in Capacities, ReserveBufferCapacity(w, c)
        PROVE  RegionInv'
    BY <2>7, ReserveStep
  <2>8. ASSUME NEW r \in HeapRegions, Release(r)
        PROVE  RegionInv'
    BY <2>8, ReleaseStep
  <2> QED BY <1>4, <2>1, <2>2, <2>3, <2>4, <2>5, <2>6, <2>7, <2>8 DEF WriterStep
<1>5. CASE UNCHANGED vars
  BY <1>1, <1>5, OtherStep DEF vars
<1> QED BY <1>2, <1>3, <1>4, <1>5 DEF Next

\* Whatever is constructed, moved, assigned, grown, detached and destroyed, in
\* any order and by any number of writers: a region that malloc has returned is
\* freed once, and has one owner until then (ix_Buffer, ix_Writer).
THEOREM RegionTheorem == Spec => []RegionsHaveOneOwner
<1>1. RegionInv => RegionsHaveOneOwner
  <2> SUFFICES ASSUME RegionInv PROVE RegionsHaveOneOwner
    OBVIOUS
  <2> DEFINE owning == {w \in Writers : Exists(w) /\ IsResizeable(Buf(w)) /\ Buf(w).m_data # NoRegion}
  <2>1. \A w \in Writers :
          OwnedBy(writer[w]) = IF w \in owning THEN {Buf(w).m_data} ELSE {}
    BY DEF OwnedBy, Exists, Buf
  <2> HIDE DEF owning
  <2>2. owning \subseteq Writers
    BY DEF owning
  <2>3. /\ heap = detached \cup Held /\ ruined = FALSE
        /\ \A w \in Writers : OwnedBy(writer[w]) \cap detached = {}
        /\ \A w, x \in Writers : w # x => OwnedBy(writer[w]) \cap OwnedBy(writer[x]) = {}
    BY DEF RegionInv, RegionTypes, Ownership
  <2>4. heap = detached \cup {Buf(w).m_data : w \in owning}
    <3>1. \A r : r \in Held <=> \E w \in owning : r = Buf(w).m_data
      BY <2>1, <2>2, HeldMembers
    <3> QED BY <2>3, <3>1
  <2>5. \A w \in owning : /\ Buf(w).m_data \notin detached
                          /\ \A x \in owning \ {w} : Buf(x).m_data # Buf(w).m_data
    BY <2>1, <2>2, <2>3
  <2> QED BY <2>3, <2>4, <2>5 DEF RegionsHaveOneOwner, owning
<1> QED BY <1>1, RegionInit, RegionNext, PTL DEF Spec

\* For every size of text, array and address space: no way to write leaves the
\* region of its buffer, not with the NUL of vsnprintf either, and not when a
\* borrowed region's capacity is its length turned upside down.
THEOREM StaysInRegionTheorem == Spec => []StaysInRegion
<1>1. RegionInv => StaysInRegion
  BY DEF RegionInv, SoundWriter, Sound, StaysInRegion, Exists, Text, Buf
<1> QED BY <1>1, RegionInit, RegionNext, PTL DEF Spec

-----------------------------------------------------------------------------
(* Descriptors.                                                            *)

\* The strengthening that HandlesOwnDescriptors needs is only what the two
\* variables are: functions of which every entry is a descriptor or a marker.
DescriptorTypes ==
  /\ fds \in [Fds -> Paths \cup {Closed}]
  /\ handle \in [Handles -> Fds \cup {Invalid, Gone}]

DescriptorInv == DescriptorTypes /\ HandlesOwnDescriptors

\* The number that the system gives to a file is not in use.
LEMMA LowestFreeFdIsFree ==
  ASSUME OpenFds # Fds
  PROVE  LowestFreeFd \in Fds /\ fds[LowestFreeFd] = Closed
<1>1. Fds \ OpenFds \subseteq Nat /\ Fds \ OpenFds # {}
  BY FilesAssumption DEF OpenFds, Fds
<1>2. \E fd \in Fds \ OpenFds : \A g \in Fds \ OpenFds : fd <= g
  BY <1>1, LeastNatural
<1>3. LowestFreeFd \in Fds \ OpenFds
  BY <1>2, Zenon DEF LowestFreeFd
<1> QED BY <1>3 DEF OpenFds

LEMMA DescriptorInit == Init => DescriptorInv
BY FilesAssumption, GoneAssumption
   DEF Init, FilesInit, DescriptorInv, DescriptorTypes, HandlesOwnDescriptors, OpenFds, Valid, Fds, Invalid

\* Of each function on handles: what it does to the two variables.
LEMMA FreshDescriptor ==
  ASSUME DescriptorInv, NEW h \in Handles, ~Alive(h), NEW p \in Paths, OpenFds # Fds,
         fds' = [fds EXCEPT ![LowestFreeFd] = p],
         handle' = [handle EXCEPT ![h] = LowestFreeFd]
  PROVE  DescriptorInv'
<1>1. LowestFreeFd \in Fds /\ fds[LowestFreeFd] = Closed
  BY LowestFreeFdIsFree
<1>2. p # Closed /\ Gone \notin Fds
  BY GoneAssumption
<1>3. DescriptorTypes'
  BY <1>1 DEF DescriptorInv, DescriptorTypes
<1>4. \A g \in Handles : Valid(g) => handle[g] # LowestFreeFd
  BY <1>1 DEF DescriptorInv, HandlesOwnDescriptors
<1>5. HandlesOwnDescriptors'
  BY <1>1, <1>2, <1>4 DEF DescriptorInv, DescriptorTypes, HandlesOwnDescriptors, OpenFds, Valid, Alive
<1> QED BY <1>3, <1>5 DEF DescriptorInv

LEMMA HandedOn ==
  ASSUME DescriptorInv, NEW h \in Handles, NEW g \in Handles, Alive(g),
         fds' = ClosedIn(handle[h]),
         handle' = [handle EXCEPT ![h] = handle[g], ![g] = Invalid]
  PROVE  DescriptorInv'
<1>1. Invalid \notin Fds /\ Gone \notin Fds /\ Gone # Invalid
  BY GoneAssumption DEF Fds, Invalid
<1>2. DescriptorTypes'
  BY DEF DescriptorInv, DescriptorTypes, ClosedIn
<1>3. HandlesOwnDescriptors'
  BY <1>1 DEF DescriptorInv, DescriptorTypes, HandlesOwnDescriptors, ClosedIn, OpenFds, Valid
<1> QED BY <1>2, <1>3 DEF DescriptorInv

LEMMA GivenBack ==
  ASSUME DescriptorInv, NEW h \in Handles, NEW marker \in {Invalid, Gone},
         fds' = ClosedIn(handle[h]),
         handle' = [handle EXCEPT ![h] = marker]
  PROVE  DescriptorInv'
<1>1. marker \notin Fds
  BY GoneAssumption DEF Fds, Invalid
<1>2. DescriptorTypes'
  BY DEF DescriptorInv, DescriptorTypes, ClosedIn
<1>3. HandlesOwnDescriptors'
  BY <1>1 DEF DescriptorInv, DescriptorTypes, HandlesOwnDescriptors, ClosedIn, OpenFds, Valid
<1> QED BY <1>2, <1>3 DEF DescriptorInv

LEMMA DescriptorsUnchanged ==
  ASSUME DescriptorInv, UNCHANGED <<fds, handle>>
  PROVE  DescriptorInv'
BY DEF DescriptorInv, DescriptorTypes, HandlesOwnDescriptors, OpenFds, Valid

LEMMA HandleStepKeepsDescriptors ==
  ASSUME DescriptorInv, HandleStep
  PROVE  DescriptorInv'
<1>1. ASSUME NEW h \in Handles, NEW p \in Paths, Open(h, p) PROVE DescriptorInv'
  BY <1>1, FreshDescriptor DEF Open
<1>2. ASSUME NEW h \in Handles, DefaultHandle(h) PROVE DescriptorInv'
  <2>1. DescriptorTypes'
    BY <1>2 DEF DescriptorInv, DescriptorTypes, DefaultHandle
  <2>2. Invalid \notin Fds
    BY DEF Fds, Invalid
  <2>3. HandlesOwnDescriptors'
    BY <1>2, <2>2, GoneAssumption
       DEF DescriptorInv, DescriptorTypes, HandlesOwnDescriptors, DefaultHandle, OpenFds, Valid, Alive
  <2> QED BY <2>1, <2>3 DEF DescriptorInv
<1>3. ASSUME NEW h \in Handles, NEW g \in Handles, MoveHandle(h, g) PROVE DescriptorInv'
  <2>1. fds = ClosedIn(handle[h])
    BY <1>3, GoneAssumption DEF MoveHandle, Alive, ClosedIn, DescriptorInv, DescriptorTypes
  <2> QED BY <1>3, <2>1, HandedOn DEF MoveHandle
<1>4. ASSUME NEW h \in Handles, NEW g \in Handles, AssignHandle(h, g) \/ SubstituteHandle(h, g)
      PROVE  DescriptorInv'
  BY <1>4, HandedOn DEF AssignHandle, SubstituteHandle
<1>5. ASSUME NEW h \in Handles, NEW g \in Handles, CopyHandle(h, g) PROVE DescriptorInv'
  <2>1. PathOf(g) \in Paths
    BY <1>5 DEF CopyHandle, Valid, PathOf, DescriptorInv, DescriptorTypes, HandlesOwnDescriptors
  <2> QED BY <1>5, <2>1, FreshDescriptor DEF CopyHandle
<1>6. ASSUME NEW h \in Handles, CloseHandle(h) \/ DestroyHandle(h) PROVE DescriptorInv'
  BY <1>6, GivenBack DEF CloseHandle, DestroyHandle
<1> QED BY <1>1, <1>2, <1>3, <1>4, <1>5, <1>6 DEF HandleStep

\* No function of a writer opens or closes anything.
LEMMA WriterStepKeepsDescriptors ==
  ASSUME WriterStep \/ DirectWrite
  PROVE  UNCHANGED <<fds, handle>>
<1>1. ASSUME NEW w \in Writers, NEW n \in Sizes, Write(w, n) \/ WriteCharRepeat(w, n) \/ WriteString(w, n)
      PROVE  UNCHANGED <<fds, handle>>
  BY <1>1 DEF Write, WriteCharRepeat, WriteString, Perform, Keep, fileVars
<1>2. ASSUME NEW w \in Writers, Flushed(w) PROVE UNCHANGED <<fds, handle>>
  BY <1>2 DEF Flushed, fileVars
<1>3. ASSUME NEW w \in Writers, EndString(w) \/ Flush(w) \/ Clear(w) \/ Detach(w) \/ Destroy(w)
      PROVE  UNCHANGED <<fds, handle>>
  BY <1>2, <1>3 DEF EndString, Keep, Flush, Clear, Detach, Destroy, fileVars
<1>4. ASSUME NEW w \in Writers, NEW h \in Handles \cup {NoFile}, Substitute(w, h)
      PROVE  UNCHANGED <<fds, handle>>
  BY <1>2, <1>4 DEF Substitute
<1>5. ASSUME NEW w \in Writers, NEW h, NEW c, Construct(w, c, h) \/ ConstructOn(w, c, h)
      PROVE  UNCHANGED <<fds, handle>>
  BY <1>5 DEF Construct, ConstructOn, fileVars
<1>6. ASSUME NEW w \in Writers, NEW x \in Writers, Move(w, x) \/ Assign(w, x)
      PROVE  UNCHANGED <<fds, handle>>
  BY <1>2, <1>6 DEF Move, Assign, fileVars
<1>7. ASSUME NEW w \in Writers, NEW c, ReserveBufferCapacity(w, c) PROVE UNCHANGED <<fds, handle>>
  BY <1>7 DEF ReserveBufferCapacity, Keep, fileVars
<1>8. ASSUME NEW r, Release(r) PROVE UNCHANGED <<fds, handle>>
  BY <1>8 DEF Release, fileVars
<1>9. ASSUME DirectWrite PROVE UNCHANGED <<fds, handle>>
  BY <1>9 DEF DirectWrite, WriteHandle
<1> QED BY <1>1, <1>3, <1>4, <1>5, <1>6, <1>7, <1>8, <1>9 DEF WriterStep

LEMMA DescriptorNext == DescriptorInv /\ [Next]_vars => DescriptorInv'
<1> SUFFICES ASSUME DescriptorInv, [Next]_vars PROVE DescriptorInv'
  OBVIOUS
<1>1. CASE HandleStep
  BY <1>1, HandleStepKeepsDescriptors
<1>2. CASE WriterStep \/ DirectWrite
  BY <1>2, WriterStepKeepsDescriptors, DescriptorsUnchanged
<1>3. CASE UNCHANGED vars
  BY <1>3, DescriptorsUnchanged DEF vars
<1> QED BY <1>1, <1>2, <1>3 DEF Next

\* Every open descriptor belongs to exactly one handle and every valid handle
\* has an open one, whatever is moved, assigned, copied, closed or destroyed
\* (ix_FileHandle), for any number of handles and descriptors.
THEOREM DescriptorTheorem == Spec => []HandlesOwnDescriptors
<1>1. DescriptorInv => HandlesOwnDescriptors
  BY DEF DescriptorInv
<1> QED BY <1>1, DescriptorInit, DescriptorNext, PTL DEF Spec

-----------------------------------------------------------------------------
(* Pieces put together, and bytes taken away.                              *)

\* A sequence of sequences over S.
Pieces(S) == Seq(Seq(S))

LEMMA JoinedAccumulates ==
  ASSUME NEW pieces
  PROVE  Len(pieces) \in Nat => \E f : Accumulates(f, Len(pieces), pieces) /\ Joined(pieces) = f[Len(pieces)]
<1> SUFFICES ASSUME Len(pieces) \in Nat
             PROVE  \E f : Accumulates(f, Len(pieces), pieces) /\ Joined(pieces) = f[Len(pieces)]
  OBVIOUS
<1> DEFINE Solves(f) == f = [n \in 0 .. Len(pieces) |-> IF n = 0 THEN <<>> ELSE f[n - 1] \o pieces[n]]
           F == CHOOSE f : Solves(f)
<1>1. \E f : Solves(f)
  BY AccumulationExists, Zenon DEF Accumulates
<1>2. Joined(pieces) = F[Len(pieces)]
  BY Zenon DEF Joined
<1> HIDE DEF Solves
<1>3. Solves(F)
  BY <1>1, Zenon
<1>4. Accumulates(F, Len(pieces), pieces)
  BY <1>3, Zenon DEF Accumulates, Solves
<1> QED BY <1>2, <1>4, Zenon

LEMMA JoinedOfNone == Joined(<<>>) = <<>>
<1>1. Len(<<>>) = 0 /\ 0 \in Nat
  OBVIOUS
<1>2. PICK f : Accumulates(f, 0, <<>>) /\ Joined(<<>>) = f[0]
  BY <1>1, JoinedAccumulates
<1>3. f[0] = <<>>
  <2>1. 0 \in 0 .. 0
    OBVIOUS
  <2> QED BY <1>2, <2>1, Zenon DEF Accumulates
<1> QED BY <1>2, <1>3

LEMMA JoinedType ==
  ASSUME NEW S, NEW pieces \in Pieces(S)
  PROVE  Joined(pieces) \in Seq(S)
<1>1. Len(pieces) \in Nat /\ \A n \in 1 .. Len(pieces) : pieces[n] \in Seq(S)
  BY LenProperties DEF Pieces
<1>2. PICK f : Accumulates(f, Len(pieces), pieces) /\ Joined(pieces) = f[Len(pieces)]
  BY <1>1, JoinedAccumulates
<1>3. \A n \in 0 .. Len(pieces) : f[n] \in Seq(S)
  BY <1>1, <1>2, AccumulationSteps, Zenon
<1>4. Len(pieces) \in 0 .. Len(pieces)
  BY <1>1
<1> QED BY <1>2, <1>3, <1>4, Zenon

LEMMA JoinedOfTwo ==
  ASSUME NEW S, NEW p \in Pieces(S), NEW q \in Pieces(S)
  PROVE  p \o q \in Pieces(S) /\ Joined(p \o q) = Joined(p) \o Joined(q)
<1> DEFINE u == p \o q
           N == Len(p)
           M == Len(q)
<1>1. /\ u \in Pieces(S) /\ N \in Nat /\ M \in Nat /\ Len(u) = N + M
      /\ \A k \in 1 .. N + M : u[k] = IF k <= N THEN p[k] ELSE q[k - N]
  BY ConcatProperties, LenProperties DEF Pieces
<1>2. PICK f : Accumulates(f, N + M, u) /\ Joined(u) = f[N + M]
  <2>1. Len(u) \in Nat
    BY <1>1
  <2>2. \E f : Accumulates(f, Len(u), u) /\ Joined(u) = f[Len(u)]
    BY <2>1, JoinedAccumulates, Zenon
  <2> QED BY <1>1, <2>2, Zenon
<1>3. PICK g : Accumulates(g, N, p) /\ Joined(p) = g[N]
  BY <1>1, JoinedAccumulates, Zenon
<1>4. PICK h : Accumulates(h, M, q) /\ Joined(q) = h[M]
  BY <1>1, JoinedAccumulates, Zenon
<1>5. Halves(S, N, M, u, p, q)
  <2>1. \A n \in 1 .. N + M : u[n] \in Seq(S)
    BY <1>1, LenProperties DEF Pieces
  <2>2. \A n \in 1 .. N : p[n] = u[n]
    BY <1>1
  <2>3. \A n \in 1 .. M : q[n] = u[N + n]
    <3> TAKE n \in 1 .. M
    <3>1. N + n \in 1 .. N + M /\ ~(N + n <= N) /\ (N + n) - N = n
      BY <1>1
    <3> QED BY <1>1, <3>1
  <2> QED BY <1>1, <2>1, <2>2, <2>3, Zenon DEF Halves
<1>6. Joins(f[N + M], g[N], h[M])
  BY <1>2, <1>3, <1>4, <1>5, AccumulationSplits
<1> QED BY <1>1, <1>2, <1>3, <1>4, <1>6, Zenon DEF Joins

LEMMA JoinedOfOne ==
  ASSUME NEW S, NEW s \in Seq(S)
  PROVE  <<s>> \in Pieces(S) /\ Joined(<<s>>) = s
<1> DEFINE p == <<s>>
<1>1. p \in Pieces(S) /\ Len(p) = 1 /\ p[1] = s /\ 1 \in Nat
  BY DEF Pieces
<1>2. PICK f : Accumulates(f, 1, p) /\ Joined(p) = f[1]
  BY <1>1, JoinedAccumulates
<1>3. \A n \in 1 .. 1 : p[n] \in Seq(S)
  BY <1>1
<1> HIDE DEF p
<1>4. /\ f[0] = <<>>
      /\ \A n \in 1 .. 1 : f[n] = f[n - 1] \o p[n]
      /\ \A n \in 0 .. 1 : f[n] \in Seq(S)
  BY <1>1, <1>2, <1>3, AccumulationSteps, Zenon
<1>5. 1 \in 1 .. 1 /\ 1 - 1 = 0
  OBVIOUS
<1>6. f[1] = <<>> \o s
  BY <1>1, <1>4, <1>5, Zenon
<1>7. <<>> \o s = s
  BY ConcatEmptySeq, Zenon
<1> QED BY <1>1, <1>2, <1>6, <1>7, Zenon DEF p

\* What is cut from a sequence, place by place.
LEMMA CutFacts ==
  ASSUME NEW S, NEW s \in Seq(S), NEW n \in 0 .. Len(s)
  PROVE  /\ SubSeq(s, 1, n) \in Seq(S) /\ SubSeq(s, n + 1, Len(s)) \in Seq(S)
         /\ Len(SubSeq(s, 1, n)) = n /\ Len(SubSeq(s, n + 1, Len(s))) = Len(s) - n
         /\ \A i \in 1 .. n : SubSeq(s, 1, n)[i] = s[i]
         /\ \A i \in 1 .. Len(s) - n : SubSeq(s, n + 1, Len(s))[i] = s[n + i]
         /\ SubSeq(s, 1, n) \o SubSeq(s, n + 1, Len(s)) = s
<1> DEFINE t == SubSeq(s, 1, n)
           u == SubSeq(s, n + 1, Len(s))
<1>1. Len(s) \in Nat /\ n \in Nat /\ \A i \in 1 .. Len(s) : s[i] \in S
  BY LenProperties
<1>2. /\ t \in Seq(S)
      /\ Len(t) = IF 1 <= n THEN n - 1 + 1 ELSE 0
      /\ \A i \in 1 .. n - 1 + 1 : t[i] = s[1 + i - 1]
  <2>1. n \in Int /\ 1 \in Int /\ \A i \in 1 .. n : s[i] \in S
    BY <1>1
  <2> QED BY <2>1, SubSeqProperties
<1>3. /\ u \in Seq(S)
      /\ Len(u) = IF n + 1 <= Len(s) THEN Len(s) - (n + 1) + 1 ELSE 0
      /\ \A i \in 1 .. Len(s) - (n + 1) + 1 : u[i] = s[n + 1 + i - 1]
  <2>1. n + 1 \in Int /\ Len(s) \in Int /\ \A i \in n + 1 .. Len(s) : s[i] \in S
    BY <1>1
  <2> QED BY <2>1, SubSeqProperties
<1> HIDE DEF t, u
<1>4. Len(t) = n /\ \A i \in 1 .. n : t[i] = s[i]
  BY <1>1, <1>2
<1>5. Len(u) = Len(s) - n /\ \A i \in 1 .. Len(s) - n : u[i] = s[n + i]
  <2>1. Len(s) - (n + 1) + 1 = Len(s) - n
    BY <1>1
  <2>2. Len(u) = Len(s) - n
    BY <1>1, <1>3
  <2>3. ASSUME NEW i \in 1 .. Len(s) - n PROVE u[i] = s[n + i]
    <3>1. i \in 1 .. Len(s) - (n + 1) + 1 /\ n + 1 + i - 1 = n + i
      BY <1>1
    <3>2. u[i] = s[n + 1 + i - 1]
      BY <1>3, <3>1
    <3> QED BY <3>1, <3>2
  <2> QED BY <2>2, <2>3
<1>6. t \o u = s
  <2>1. /\ t \o u \in Seq(S) /\ Len(t \o u) = Len(t) + Len(u)
        /\ \A i \in 1 .. Len(t) + Len(u) : (t \o u)[i] = IF i <= Len(t) THEN t[i] ELSE u[i - Len(t)]
    BY <1>2, <1>3, ConcatProperties
  <2>2. Len(t) + Len(u) = Len(s)
    BY <1>1, <1>4, <1>5
  <2>3. \A i \in 1 .. Len(s) : (t \o u)[i] = s[i]
    <3> TAKE i \in 1 .. Len(s)
    <3>1. CASE i <= n
      BY <3>1, <1>1, <1>4, <2>1, <2>2
    <3>2. CASE ~(i <= n)
      <4>1. i - n \in 1 .. Len(s) - n /\ n + (i - n) = i
        BY <3>2, <1>1
      <4>2. u[i - n] = s[i]
        BY <4>1, <1>5
      <4> QED BY <3>2, <4>2, <1>4, <2>1, <2>2
    <3> QED BY <3>1, <3>2
  <2> QED BY <2>1, <2>2, <2>3, SeqEqual
<1> QED BY <1>2, <1>3, <1>4, <1>5, <1>6 DEF t, u

\* A property of sequences that the end of a sequence can be taken from: it
\* holds of all of them.  (Bad are those of which it does not.)
LEMMA ShortestSequence ==
  ASSUME NEW S, NEW Bad \in SUBSET Seq(S), Bad # {}
  PROVE  \E s \in Bad :
           \/ s = <<>>
           \/ \E t \in Seq(S), x \in S : t \notin Bad /\ s = t \o <<x>>
<1> DEFINE Lengths == {Len(s) : s \in Bad}
<1>1. Lengths \in SUBSET Nat /\ Lengths # {}
  BY LenProperties
<1>2. PICK n \in Lengths : \A m \in Lengths : n <= m
  BY <1>1, LeastNatural
<1>3. PICK s \in Bad : Len(s) = n
  BY <1>2
<1>4. s \in Seq(S) /\ Len(s) \in Nat /\ \A i \in 1 .. Len(s) : s[i] \in S
  BY <1>3, LenProperties
<1>5. CASE Len(s) = 0
  BY <1>3, <1>4, <1>5, EmptySeq
<1>6. CASE Len(s) # 0
  <2> DEFINE m == Len(s) - 1
             t == SubSeq(s, 1, m)
             x == s[Len(s)]
  <2>1. m \in 0 .. Len(s) /\ m \in Nat /\ x \in S /\ ~(n <= m)
    BY <1>3, <1>4, <1>6
  <2>2. t \in Seq(S) /\ Len(t) = m /\ \A i \in 1 .. m : t[i] = s[i]
    BY <1>4, <2>1, CutFacts
  <2>3. t \notin Bad
    BY <1>2, <2>1, <2>2
  <2>4. <<x>> \in Seq(S) /\ Len(<<x>>) = 1 /\ <<x>>[1] = x
    BY <2>1
  <2> HIDE DEF t, x
  <2>5. s = t \o <<x>>
    <3>1. /\ t \o <<x>> \in Seq(S) /\ Len(t \o <<x>>) = m + 1
          /\ \A i \in 1 .. m + 1 : (t \o <<x>>)[i] = IF i <= m THEN t[i] ELSE <<x>>[i - m]
      BY <2>2, <2>4, ConcatProperties
    <3>2. m + 1 = Len(s)
      BY <1>4
    <3>3. \A i \in 1 .. Len(s) : s[i] = (t \o <<x>>)[i]
      <4> TAKE i \in 1 .. Len(s)
      <4>1. CASE i <= m
        BY <4>1, <3>1, <3>2, <2>2, <1>4
      <4>2. CASE ~(i <= m)
        <5>1. i = Len(s) /\ i - m = 1
          BY <4>2, <1>4
        <5> QED BY <5>1, <4>2, <3>1, <3>2, <2>4 DEF x
      <4> QED BY <4>1, <4>2
    <3> QED BY <1>4, <3>1, <3>2, <3>3, SeqEqual
  <2> QED BY <1>3, <2>1, <2>2, <2>3, <2>5
<1> QED BY <1>5, <1>6

Distinct(s) == \A i, j \in 1 .. Len(s) : s[i] = s[j] => i = j

LEMMA BytesOfTwo ==
  ASSUME NEW S, NEW s \in Seq(S), NEW t \in Seq(S)
  PROVE  /\ Bytes(s) \subseteq S
         /\ Bytes(s \o t) = Bytes(s) \cup Bytes(t)
         /\ Distinct(s \o t) <=> Distinct(s) /\ Distinct(t) /\ Bytes(s) \cap Bytes(t) = {}
<1> DEFINE N == Len(s)
           M == Len(t)
           u == s \o t
<1>1. /\ u \in Seq(S) /\ N \in Nat /\ M \in Nat /\ Len(u) = N + M
      /\ \A k \in 1 .. N + M : u[k] = IF k <= N THEN s[k] ELSE t[k - N]
  BY ConcatProperties, LenProperties
<1>2. DOMAIN s = 1 .. N /\ DOMAIN t = 1 .. M /\ DOMAIN u = 1 .. N + M
  BY <1>1, LenProperties
<1>3. \A k \in 1 .. N : k \in 1 .. N + M /\ u[k] = s[k]
  BY <1>1
<1>4. \A k \in 1 .. M : N + k \in 1 .. N + M /\ u[N + k] = t[k]
  <2> TAKE k \in 1 .. M
  <2>1. N + k \in 1 .. N + M /\ ~(N + k <= N) /\ (N + k) - N = k
    BY <1>1
  <2> QED BY <1>1, <2>1
<1>5. \A k \in 1 .. N + M : k \in 1 .. N \/ \E j \in 1 .. M : k = N + j
  <2> TAKE k \in 1 .. N + M
  <2>1. CASE k <= N
    BY <2>1, <1>1
  <2>2. CASE ~(k <= N)
    <3>1. k - N \in 1 .. M /\ k = N + (k - N)
      BY <2>2, <1>1
    <3> QED BY <3>1
  <2> QED BY <2>1, <2>2
<1> HIDE DEF N, M, u
<1>6. Bytes(u) = Bytes(s) \cup Bytes(t)
  BY <1>2, <1>3, <1>4, <1>5 DEF Bytes
<1>7. Distinct(u) => Distinct(s) /\ Distinct(t) /\ Bytes(s) \cap Bytes(t) = {}
  <2> SUFFICES ASSUME Distinct(u) PROVE Distinct(s) /\ Distinct(t) /\ Bytes(s) \cap Bytes(t) = {}
    OBVIOUS
  <2>1. \A i, j \in 1 .. N + M : u[i] = u[j] => i = j
    BY <1>1 DEF Distinct
  <2>2. Distinct(s)
    BY <2>1, <1>3 DEF Distinct, N
  <2>3. Distinct(t)
    <3>1. \A i, j \in 1 .. M : N + i = N + j => i = j
      BY <1>1
    <3> QED BY <2>1, <3>1, <1>4 DEF Distinct, M
  <2>4. ASSUME NEW b \in Bytes(s) \cap Bytes(t) PROVE FALSE
    <3>1. PICK i \in 1 .. N, j \in 1 .. M : b = s[i] /\ b = t[j]
      BY <1>2 DEF Bytes
    <3>2. i = N + j
      BY <3>1, <2>1, <1>3, <1>4
    <3> QED BY <3>2, <1>1
  <2> QED BY <2>2, <2>3, <2>4
<1>8. Distinct(s) /\ Distinct(t) /\ Bytes(s) \cap Bytes(t) = {} => Distinct(u)
  <2> SUFFICES ASSUME Distinct(s), Distinct(t), Bytes(s) \cap Bytes(t) = {},
                      NEW i \in 1 .. N + M, NEW j \in 1 .. N + M, u[i] = u[j]
               PROVE  i = j
    BY <1>1 DEF Distinct
  <2>1. \A x, y \in 1 .. N : s[x] = s[y] => x = y
    BY DEF Distinct, N
  <2>2. \A x, y \in 1 .. M : t[x] = t[y] => x = y
    BY DEF Distinct, M
  <2>3. \A x \in 1 .. N, y \in 1 .. M : s[x] # t[y]
    BY <1>2 DEF Bytes
  <2> QED BY <1>3, <1>4, <1>5, <2>1, <2>2, <2>3
<1>9. Bytes(s) \subseteq S
  BY <1>2, LenProperties DEF Bytes, N
<1> QED BY <1>6, <1>7, <1>8, <1>9 DEF u

LEMMA BytesOfFew ==
  /\ Bytes(<<>>) = {} /\ Distinct(<<>>)
  /\ \A x : Bytes(<<x>>) = {x} /\ Distinct(<<x>>)
<1>1. Len(<<>>) = 0 /\ DOMAIN <<>> = {}
  OBVIOUS
<1>2. ASSUME NEW x PROVE Len(<<x>>) = 1 /\ <<x>>[1] = x /\ DOMAIN <<x>> = 1 .. 1
  OBVIOUS
<1>3. 1 .. 1 = {1} /\ 1 .. 0 = {}
  OBVIOUS
<1>4. ASSUME NEW x PROVE Bytes(<<x>>) = {x} /\ Distinct(<<x>>)
  <2> DEFINE s == <<x>>
  <2>1. Len(s) = 1 /\ s[1] = x /\ DOMAIN s = {1}
    BY <1>2, <1>3
  <2> HIDE DEF s
  <2>2. Bytes(s) = {x}
    BY <2>1 DEF Bytes
  <2>3. Distinct(s)
    BY <2>1, <1>3 DEF Distinct
  <2> QED BY <2>2, <2>3 DEF s
<1> QED BY <1>1, <1>3, <1>4 DEF Bytes, Distinct

-----------------------------------------------------------------------------
(* What is left of a sequence.                                             *)

KeptPieces(s, lost) == [i \in DOMAIN s |-> IF s[i] \in lost THEN <<>> ELSE <<s[i]>>]

LEMMA KeptPiecesFacts ==
  ASSUME NEW S, NEW s \in Seq(S), NEW lost
  PROVE  /\ KeptPieces(s, lost) \in Pieces(S)
         /\ Len(KeptPieces(s, lost)) = Len(s)
         /\ \A i \in 1 .. Len(s) : KeptPieces(s, lost)[i] = IF s[i] \in lost THEN <<>> ELSE <<s[i]>>
<1> DEFINE p == KeptPieces(s, lost)
<1>1. Len(s) \in Nat /\ DOMAIN s = 1 .. Len(s) /\ \A i \in 1 .. Len(s) : s[i] \in S
  BY LenProperties
<1>2. \A i \in 1 .. Len(s) : (IF s[i] \in lost THEN <<>> ELSE <<s[i]>>) \in Seq(S)
  BY <1>1
<1>3. p = [i \in 1 .. Len(s) |-> IF s[i] \in lost THEN <<>> ELSE <<s[i]>>]
  BY <1>1, Zenon DEF KeptPieces
<1>4. p \in [1 .. Len(s) -> Seq(S)]
  BY <1>2, <1>3
<1>5. p \in Seq(Seq(S)) /\ Len(p) = Len(s)
  BY <1>1, <1>4, FunctionIsSequence, Zenon
<1>6. \A i \in 1 .. Len(s) : p[i] = IF s[i] \in lost THEN <<>> ELSE <<s[i]>>
  BY <1>3, Zenon
<1> QED BY <1>5, <1>6, Zenon DEF Pieces

LEMMA RemainingOfTwo ==
  ASSUME NEW S, NEW s \in Seq(S), NEW t \in Seq(S), NEW lost
  PROVE  /\ Joins(Remaining(s \o t, lost), Remaining(s, lost), Remaining(t, lost))
         /\ Remaining(s, lost) \in Seq(S)
<1> DEFINE N == Len(s)
           M == Len(t)
           u == s \o t
           p == KeptPieces(s, lost)
           q == KeptPieces(t, lost)
           r == KeptPieces(u, lost)
<1>1. /\ u \in Seq(S) /\ N \in Nat /\ M \in Nat /\ Len(u) = N + M
      /\ \A k \in 1 .. N + M : u[k] = IF k <= N THEN s[k] ELSE t[k - N]
  BY ConcatProperties, LenProperties
<1>2. /\ p \in Pieces(S) /\ Len(p) = N
      /\ \A i \in 1 .. N : p[i] = IF s[i] \in lost THEN <<>> ELSE <<s[i]>>
  BY KeptPiecesFacts
<1>3. /\ q \in Pieces(S) /\ Len(q) = M
      /\ \A i \in 1 .. M : q[i] = IF t[i] \in lost THEN <<>> ELSE <<t[i]>>
  BY KeptPiecesFacts
<1>4. /\ r \in Pieces(S) /\ Len(r) = N + M
      /\ \A i \in 1 .. N + M : r[i] = IF u[i] \in lost THEN <<>> ELSE <<u[i]>>
  <2>1. PICK v \in Seq(S) : v = u /\ Len(v) = N + M
    BY <1>1
  <2>2. /\ KeptPieces(v, lost) \in Pieces(S) /\ Len(KeptPieces(v, lost)) = Len(v)
        /\ \A i \in 1 .. Len(v) : KeptPieces(v, lost)[i] = IF v[i] \in lost THEN <<>> ELSE <<v[i]>>
    BY KeptPiecesFacts
  <2> QED BY <2>1, <2>2, Zenon
<1> HIDE DEF p, q, r, u, N, M
<1>5. r = p \o q
  <2>1. /\ p \o q \in Pieces(S) /\ Len(p \o q) = N + M
        /\ \A i \in 1 .. N + M : (p \o q)[i] = IF i <= N THEN p[i] ELSE q[i - N]
    BY <1>2, <1>3, ConcatProperties, ZenonT(60) DEF Pieces
  <2>2. ASSUME NEW i \in 1 .. N + M PROVE r[i] = (p \o q)[i]
    <3>1. CASE i <= N
      <4>1. i \in 1 .. N /\ u[i] = s[i]
        BY <1>1, <3>1
      <4>2. r[i] = p[i]
        BY <4>1, <1>2, <1>4, Zenon
      <4> QED BY <4>2, <2>1, <3>1
    <3>2. CASE ~(i <= N)
      <4>1. i - N \in 1 .. M /\ u[i] = t[i - N]
        BY <1>1, <3>2
      <4>2. r[i] = q[i - N]
        BY <4>1, <1>3, <1>4, Zenon
      <4> QED BY <4>2, <2>1, <3>2
    <3> QED BY <3>1, <3>2
  <2>3. r \in Seq(Seq(S)) /\ p \o q \in Seq(Seq(S)) /\ Len(r) = Len(p \o q)
    BY <1>4, <2>1 DEF Pieces
  <2>4. \A i \in 1 .. Len(r) : r[i] = (p \o q)[i]
    BY <1>4, <2>2
  <2> QED BY <2>3, <2>4, SeqEqual
<1>6. Joined(p \o q) = Joined(p) \o Joined(q) /\ Joined(p) \in Seq(S)
  BY <1>2, <1>3, JoinedOfTwo, JoinedType
<1> QED BY <1>5, <1>6, Zenon DEF p, q, r, u, Remaining, KeptPieces, Joins

LEMMA RemainingOfFew ==
  ASSUME NEW lost
  PROVE  /\ Remaining(<<>>, lost) = <<>>
         /\ \A x : Remaining(<<x>>, lost) = IF x \in lost THEN <<>> ELSE <<x>>
<1>1. Remaining(<<>>, lost) = <<>>
  <2>1. DOMAIN <<>> = {}
    OBVIOUS
  <2>2. [i \in DOMAIN <<>> |-> IF <<>>[i] \in lost THEN <<>> ELSE << <<>>[i]>>] = <<>>
    BY <2>1
  <2> QED BY <2>2, JoinedOfNone DEF Remaining
<1>2. ASSUME NEW x PROVE Remaining(<<x>>, lost) = IF x \in lost THEN <<>> ELSE <<x>>
  <2> DEFINE s == <<x>>
             y == IF x \in lost THEN <<>> ELSE <<x>>
             p == KeptPieces(s, lost)
  <2>1. s \in Seq({x}) /\ Len(s) = 1 /\ s[1] = x /\ <<>> \in Seq({x}) /\ 1 \in 1 .. 1
    OBVIOUS
  <2> HIDE DEF s
  <2>2. p \in Pieces({x}) /\ Len(p) = 1 /\ p[1] = y
    <3>1. /\ p \in Pieces({x}) /\ Len(p) = Len(s)
          /\ \A i \in 1 .. Len(s) : p[i] = IF s[i] \in lost THEN <<>> ELSE <<s[i]>>
      BY <2>1, KeptPiecesFacts
    <3> QED BY <2>1, <3>1, Zenon
  <2>5. y \in Seq({x})
    BY <2>1 DEF s
  <2> HIDE DEF p, y
  <2>3. <<y>> \in Pieces({x}) /\ Joined(<<y>>) = y
    BY <2>5, JoinedOfOne
  <2>4. p = <<y>>
    <3>1. <<y>> \in Seq(Seq({x})) /\ Len(<<y>>) = 1 /\ <<y>>[1] = y
      BY <2>5
    <3>2. \A i \in 1 .. 1 : p[i] = <<y>>[i]
      BY <2>2, <3>1
    <3> QED BY <2>2, <3>1, <3>2, SeqEqual DEF Pieces
  <2> QED BY <2>3, <2>4, Zenon DEF p, y, s, Remaining, KeptPieces
<1> QED BY <1>1, <1>2

\* Nothing is lost, everything is, or some; and what is lost elsewhere does not
\* matter.
LEMMA RemainingFacts ==
  ASSUME NEW S, NEW s \in Seq(S), NEW lost
  PROVE  /\ Bytes(s) \cap lost = {} => Remaining(s, lost) = s
         /\ Bytes(s) \subseteq lost => Remaining(s, lost) = <<>>
         /\ Bytes(Remaining(s, lost)) \subseteq Bytes(s)
         /\ Distinct(s) => Distinct(Remaining(s, lost))
<1> DEFINE Good(u) == /\ Bytes(u) \cap lost = {} => Remaining(u, lost) = u
                      /\ Bytes(u) \subseteq lost => Remaining(u, lost) = <<>>
                      /\ Bytes(Remaining(u, lost)) \subseteq Bytes(u)
                      /\ Distinct(u) => Distinct(Remaining(u, lost))
           Bad == {u \in Seq(S) : ~Good(u)}
<1>1. Good(<<>>)
  BY RemainingOfFew, BytesOfFew
<1>2. ASSUME NEW t \in Seq(S), NEW x \in S, Good(t) PROVE Good(t \o <<x>>)
  <2> DEFINE v == t \o <<x>>
             r == Remaining(t, lost)
  <2> HIDE DEF Good
  <2> DEFINE y == IF x \in lost THEN <<>> ELSE <<x>>
  <2>1. <<x>> \in Seq(S) /\ y \in Seq(S)
    OBVIOUS
  <2>2. Remaining(v, lost) = r \o y /\ r \in Seq(S)
    <3>1. PICK z \in Seq(S) : z = <<x>>
      BY <2>1
    <3>2. Joins(Remaining(t \o z, lost), Remaining(t, lost), Remaining(z, lost))
      BY RemainingOfTwo, Zenon
    <3>4. Remaining(t, lost) \in Seq(S)
      BY RemainingOfTwo
    <3>3. Remaining(z, lost) = y
      BY <3>1, RemainingOfFew
    <3> QED BY <3>1, <3>2, <3>3, <3>4, Zenon DEF Joins
  <2>3. /\ Bytes(v) = Bytes(t) \cup {x}
        /\ Distinct(v) <=> Distinct(t) /\ x \notin Bytes(t)
    <3>1. Bytes(<<x>>) = {x} /\ Distinct(<<x>>)
      BY BytesOfFew
    <3>2. /\ Bytes(v) = Bytes(t) \cup Bytes(<<x>>)
          /\ Distinct(v) <=> Distinct(t) /\ Distinct(<<x>>) /\ Bytes(t) \cap Bytes(<<x>>) = {}
      BY <2>1, BytesOfTwo
    <3> HIDE DEF v
    <3> QED BY <3>1, <3>2
  <2>4. /\ Bytes(r \o y) = Bytes(r) \cup Bytes(y)
        /\ Distinct(r \o y) <=> Distinct(r) /\ Distinct(y) /\ Bytes(r) \cap Bytes(y) = {}
    BY <2>1, <2>2, BytesOfTwo, ZenonT(60)
  <2>5. Bytes(y) \subseteq {x} /\ Distinct(y)
    BY BytesOfFew
  <2>6. /\ Bytes(t) \cap lost = {} => r = t
        /\ Bytes(t) \subseteq lost => r = <<>>
        /\ Bytes(r) \subseteq Bytes(t)
        /\ Distinct(t) => Distinct(r)
    BY <1>2 DEF Good
  <2> HIDE DEF r
  <2>7. x \notin lost => y = <<x>>
    OBVIOUS
  <2>8. x \in lost => y = <<>>
    OBVIOUS
  <2>9. <<>> \o <<>> = <<>>
    OBVIOUS
  <2> HIDE DEF v, y
  <2>10. Bytes(v) \cap lost = {} => Remaining(v, lost) = v
    BY <2>2, <2>3, <2>6, <2>7 DEF v
  <2>11. Bytes(v) \subseteq lost => Remaining(v, lost) = <<>>
    BY <2>2, <2>3, <2>6, <2>8, <2>9
  <2>12. Bytes(Remaining(v, lost)) \subseteq Bytes(v)
    BY <2>2, <2>3, <2>4, <2>5, <2>6
  <2>13. Distinct(v) => Distinct(Remaining(v, lost))
    BY <2>2, <2>3, <2>4, <2>5, <2>6
  <2> QED BY <2>10, <2>11, <2>12, <2>13 DEF Good, v
<1> HIDE DEF Good
<1>3. Bad = {}
  <2> SUFFICES ASSUME Bad # {} PROVE FALSE
    OBVIOUS
  <2>1. Bad \in SUBSET Seq(S)
    OBVIOUS
  <2>2. PICK u \in Bad :
           \/ u = <<>>
           \/ \E t \in Seq(S), x \in S : t \notin Bad /\ u = t \o <<x>>
    BY <2>1, ShortestSequence, Zenon
  <2> QED BY <1>1, <1>2, <2>2
<1>4. Good(s)
  BY <1>3
<1> QED BY <1>4 DEF Good

LEMMA RemainingAgrees ==
  ASSUME NEW S, NEW s \in Seq(S), NEW lost, NEW gone, \A b \in Bytes(s) : b \in lost <=> b \in gone
  PROVE  Remaining(s, lost) = Remaining(s, gone)
<1>1. \A i \in DOMAIN s : s[i] \in lost <=> s[i] \in gone
  BY DEF Bytes
<1>2. [i \in DOMAIN s |-> IF s[i] \in lost THEN <<>> ELSE <<s[i]>>]
        = [i \in DOMAIN s |-> IF s[i] \in gone THEN <<>> ELSE <<s[i]>>]
  BY <1>1, Zenon
<1> QED BY <1>2 DEF Remaining

-----------------------------------------------------------------------------
(* Pieces of which only the beginnings get through.                        *)

\* What is left of s without the bytes that t has not is t.
ComesThrough(s, t) ==
  /\ Bytes(t) \subseteq Bytes(s)
  /\ Remaining(s, Bytes(s) \ Bytes(t)) = t

LEMMA OneMorePiece ==
  ASSUME NEW S, NEW a \in Seq(S), NEW b \in Seq(S), NEW p \in Seq(S), Distinct(a \o p),
         ComesThrough(a, b), NEW m \in 0 .. Len(p)
  PROVE  ComesThrough(a \o p, b \o SubSeq(p, 1, m))
<1>0. Bytes(b) \subseteq Bytes(a) /\ Remaining(a, Bytes(a) \ Bytes(b)) = b
  BY DEF ComesThrough
<1>1. PICK c \in Seq(S), d \in Seq(S) : c = SubSeq(p, 1, m) /\ p = c \o d
  <2>1. /\ SubSeq(p, 1, m) \in Seq(S) /\ SubSeq(p, m + 1, Len(p)) \in Seq(S)
        /\ SubSeq(p, 1, m) \o SubSeq(p, m + 1, Len(p)) = p
    BY CutFacts
  <2> QED BY <2>1, Zenon
<1> DEFINE D == Bytes(a \o p) \ Bytes(b \o c)
<1>2. /\ Bytes(a \o p) = Bytes(a) \cup Bytes(p)
      /\ Distinct(p) /\ Bytes(a) \cap Bytes(p) = {}
  BY BytesOfTwo
<1>3. Bytes(b \o c) = Bytes(b) \cup Bytes(c)
  BY BytesOfTwo
<1>4. Bytes(p) = Bytes(c) \cup Bytes(d) /\ Bytes(c) \cap Bytes(d) = {}
  <2>1. /\ Bytes(c \o d) = Bytes(c) \cup Bytes(d)
        /\ Distinct(c \o d) <=> Distinct(c) /\ Distinct(d) /\ Bytes(c) \cap Bytes(d) = {}
    BY BytesOfTwo
  <2> QED BY <1>1, <1>2, <2>1, Zenon
<1>5. D = (Bytes(a) \cup Bytes(p)) \ (Bytes(b) \cup Bytes(c))
  BY <1>2, <1>3
<1> HIDE DEF D
<1>6. Remaining(a, D) = b
  <2>1. \A x \in Bytes(a) : x \in D <=> x \in Bytes(a) \ Bytes(b)
    BY <1>0, <1>2, <1>4, <1>5
  <2>2. Remaining(a, D) = Remaining(a, Bytes(a) \ Bytes(b))
    BY <2>1, RemainingAgrees, Zenon
  <2> QED BY <1>0, <2>2
<1>7. Remaining(c, D) = c
  <2>1. Bytes(c) \cap D = {}
    BY <1>5
  <2> QED BY <2>1, RemainingFacts
<1>8. Remaining(d, D) = <<>>
  <2>1. Bytes(d) \subseteq D
    BY <1>0, <1>2, <1>4, <1>5
  <2> QED BY <2>1, RemainingFacts
<1>9. Remaining(p, D) = c
  <2>1. Joins(Remaining(c \o d, D), Remaining(c, D), Remaining(d, D))
    BY RemainingOfTwo, Zenon
  <2>2. c \o <<>> = c
    BY ConcatEmptySeq, Zenon
  <2> QED BY <1>1, <1>7, <1>8, <2>1, <2>2, Zenon DEF Joins
<1>10. Remaining(a \o p, D) = b \o c
  <2>1. Joins(Remaining(a \o p, D), Remaining(a, D), Remaining(p, D))
    BY RemainingOfTwo, Zenon
  <2> QED BY <1>6, <1>9, <2>1, Zenon DEF Joins
<1>11. Bytes(b \o c) \subseteq Bytes(a \o p)
  BY <1>0, <1>2, <1>3, <1>4
<1> QED BY <1>1, <1>10, <1>11, Zenon DEF D, ComesThrough

\* What calls of write let through, when they can fail after any part of a
\* piece, is what is left of the pieces without what they dropped.
LEMMA WhatGetsThrough ==
  ASSUME NEW S, NEW pieces \in Pieces(S), Distinct(Joined(pieces)),
         NEW k, \A i \in DOMAIN pieces : k[i] \in 0 .. Len(pieces[i])
  PROVE  LET through == Joined([i \in DOMAIN pieces |-> SubSeq(pieces[i], 1, k[i])])
         IN /\ through \in Seq(S)
            /\ ComesThrough(Joined(pieces), through)
<1> DEFINE N == Len(pieces)
           cut == [i \in DOMAIN pieces |-> SubSeq(pieces[i], 1, k[i])]
<1>1. N \in Nat /\ DOMAIN pieces = 1 .. N /\ \A n \in 1 .. N : pieces[n] \in Seq(S)
  BY LenProperties DEF Pieces
<1>2. \A n \in 1 .. N : cut[n] = SubSeq(pieces[n], 1, k[n]) /\ cut[n] \in Seq(S)
  <2> TAKE n \in 1 .. N
  <2>1. cut[n] = SubSeq(pieces[n], 1, k[n])
    BY <1>1, Zenon
  <2>2. k[n] \in 0 .. Len(pieces[n])
    BY <1>1
  <2>3. SubSeq(pieces[n], 1, k[n]) \in Seq(S)
    BY <1>1, <2>2, CutFacts
  <2> QED BY <2>1, <2>3
<1>3. cut \in Pieces(S) /\ Len(cut) = N
  <2>1. cut \in [1 .. N -> Seq(S)]
    BY <1>1, <1>2
  <2> QED BY <1>1, <2>1, FunctionIsSequence, Zenon DEF Pieces
<1> HIDE DEF cut, N
<1>4. PICK f : Accumulates(f, N, pieces) /\ Joined(pieces) = f[N]
  BY <1>1, JoinedAccumulates, Zenon DEF N
<1>5. PICK g : Accumulates(g, N, cut) /\ Joined(cut) = g[N]
  BY <1>1, <1>3, JoinedAccumulates, Zenon
<1>6. /\ f[0] = <<>>
      /\ \A n \in 1 .. N : f[n] = f[n - 1] \o pieces[n]
      /\ \A n \in 0 .. N : f[n] \in Seq(S)
  BY <1>1, <1>4, AccumulationSteps, Zenon
<1>7. /\ g[0] = <<>>
      /\ \A n \in 1 .. N : g[n] = g[n - 1] \o cut[n]
      /\ \A n \in 0 .. N : g[n] \in Seq(S)
  BY <1>1, <1>2, <1>5, AccumulationSteps, Zenon
<1>8. \A n \in 0 .. N : Distinct(f[n])
  <2> TAKE n \in 0 .. N
  <2>1. n \in 0 .. N /\ N \in n .. N
    BY <1>1
  <2>2. Prefix(f[n], f[N])
    BY <1>1, <1>4, <2>1, AccumulationGrows, Zenon
  <2>3. N \in 0 .. N /\ Len(f[n]) \in Nat /\ Len(f[N]) \in Nat
    BY <1>1, <1>6, LenProperties
  <2> QED BY <1>4, <2>2, <2>3 DEF Prefix, Distinct
<1> DEFINE Bad == {n \in 0 .. N : ~ComesThrough(f[n], g[n])}
<1>9. Bad = {}
  <2> SUFFICES ASSUME Bad # {} PROVE FALSE
    OBVIOUS
  <2>1. Bad \in SUBSET Nat
    BY <1>1
  <2>2. PICK n \in Bad : \A m \in Bad : n <= m
    BY <2>1, LeastNatural
  <2>3. CASE n = 0
    BY <1>6, <1>7, <2>3, RemainingOfFew DEF ComesThrough
  <2>4. CASE n # 0
    <3>1. n \in 1 .. N /\ n - 1 \in 0 .. N /\ n \in 0 .. N /\ ~(n <= n - 1)
      BY <1>1, <2>4
    <3>2. ComesThrough(f[n - 1], g[n - 1])
      BY <2>2, <3>1
    <3>3. /\ f[n] = f[n - 1] \o pieces[n] /\ g[n] = g[n - 1] \o SubSeq(pieces[n], 1, k[n])
          /\ f[n - 1] \in Seq(S) /\ g[n - 1] \in Seq(S) /\ pieces[n] \in Seq(S)
          /\ Distinct(f[n - 1] \o pieces[n]) /\ k[n] \in 0 .. Len(pieces[n])
      BY <3>1, <1>1, <1>2, <1>6, <1>7, <1>8
    <3>4. ComesThrough(f[n - 1] \o pieces[n], g[n - 1] \o SubSeq(pieces[n], 1, k[n]))
      BY <3>2, <3>3, OneMorePiece, Zenon
    <3>5. ComesThrough(f[n], g[n])
      BY <3>3, <3>4, Zenon
    <3> QED BY <3>5
  <2> QED BY <2>3, <2>4
<1>10. ComesThrough(f[N], g[N]) /\ g[N] \in Seq(S)
  <2>1. N \in 0 .. N
    BY <1>1
  <2> QED BY <2>1, <1>7, <1>9
<1> QED BY <1>4, <1>5, <1>10, Zenon DEF cut

-----------------------------------------------------------------------------
(* One call of write on a file.                                            *)

LEMMA OutcomesFacts ==
  ASSUME faults \in 0 .. MaxFaults, NEW S, NEW pieces \in Pieces(S), NEW k \in Outcomes(pieces)
  PROVE  /\ \A i \in DOMAIN pieces : k[i] \in 0 .. Len(pieces[i])
         /\ faults + Cardinality({i \in DOMAIN pieces : k[i] < Len(pieces[i])}) \in 0 .. MaxFaults
<1> DEFINE short == {i \in DOMAIN pieces : k[i] < Len(pieces[i])}
<1>1. Len(pieces) \in Nat /\ DOMAIN pieces = 1 .. Len(pieces) /\ \A i \in DOMAIN pieces : Len(pieces[i]) \in Nat
  <2>1. Len(pieces) \in Nat /\ DOMAIN pieces = 1 .. Len(pieces) /\ \A i \in DOMAIN pieces : pieces[i] \in Seq(S)
    BY LenProperties DEF Pieces
  <2> QED BY <2>1, LenProperties
<1>2. IsFiniteSet(short) /\ Cardinality(short) \in Nat
  <2>1. IsFiniteSet(DOMAIN pieces)
    BY <1>1, FS_Interval
  <2> QED BY <2>1, FS_Subset, FS_CardinalityType
<1>3. MaxFaults \in Nat
  BY FilesAssumption
<1>4. CASE pieces = <<>>
  <2>1. DOMAIN pieces = {} /\ short = {}
    BY <1>4
  <2>2. Cardinality(short) = 0
    BY <2>1, FS_EmptySet
  <2> HIDE DEF short
  <2> QED BY <2>1, <2>2, <1>3 DEF short
<1>5. CASE pieces # <<>>
  <2>1. /\ k \in [DOMAIN pieces -> 0 .. LongestOf(pieces)]
        /\ \A i \in DOMAIN pieces : k[i] <= Len(pieces[i])
        /\ faults + Cardinality(short) <= MaxFaults
    BY <1>5 DEF Outcomes
  <2> HIDE DEF short
  <2>2. \A i \in DOMAIN pieces : k[i] \in 0 .. Len(pieces[i])
    BY <1>1, <2>1
  <2>3. faults + Cardinality(short) \in 0 .. MaxFaults
    BY <1>2, <1>3, <2>1
  <2> QED BY <2>2, <2>3 DEF short
<1> QED BY <1>4, <1>5

LEMMA Written ==
  ASSUME disk \in [Paths -> Texts], owed \in [Paths -> Texts], faults \in 0 .. MaxFaults,
         NEW p \in Paths, NEW new \in Texts, NEW rest \in Texts,
         NEW pieces \in Pieces(1 .. MaxBytes), NEW k \in Outcomes(pieces),
         owed[p] \o new = disk[p] \o (Joined(pieces) \o rest), Distinct(owed[p] \o new),
         WritePieces(p, new, pieces, k)
  PROVE  /\ disk' \in [Paths -> Texts] /\ owed' \in [Paths -> Texts] /\ faults' \in 0 .. MaxFaults
         /\ \A q \in Paths : q # p => disk'[q] = disk[q] /\ owed'[q] = owed[q]
         /\ owed'[p] = disk'[p] \o rest
         /\ Distinct(owed'[p]) /\ Bytes(owed'[p]) \subseteq Bytes(owed[p] \o new)
<1> DEFINE S == 1 .. MaxBytes
           d == disk[p]
           J == Joined(pieces)
           W == owed[p] \o new
           T == Joined([i \in DOMAIN pieces |-> SubSeq(pieces[i], 1, k[i])])
           D == Bytes(J) \ Bytes(T)
<1>1. /\ disk' = [disk EXCEPT ![p] = d \o T]
      /\ owed' = [owed EXCEPT ![p] = Remaining(W, D)]
      /\ faults' \in 0 .. MaxFaults
  BY OutcomesFacts, Zenon DEF WritePieces
<1>2. /\ d \in Seq(S) /\ J \in Seq(S) /\ rest \in Seq(S) /\ J \o rest \in Seq(S)
      /\ W = d \o (J \o rest)
  <2>1. J \in Seq(S)
    BY JoinedType
  <2> QED BY <2>1, ConcatProperties DEF Texts
<1>3. /\ Distinct(J) /\ Bytes(d) \cap Bytes(J) = {} /\ Bytes(rest) \cap Bytes(J) = {}
  <2> HIDE DEF d, J
  <2>1. /\ Bytes(J \o rest) = Bytes(J) \cup Bytes(rest)
        /\ Distinct(J \o rest) <=> Distinct(J) /\ Distinct(rest) /\ Bytes(J) \cap Bytes(rest) = {}
    BY <1>2, BytesOfTwo
  <2>2. Distinct(d \o (J \o rest)) <=> Distinct(d) /\ Distinct(J \o rest) /\ Bytes(d) \cap Bytes(J \o rest) = {}
    BY <1>2, BytesOfTwo, ZenonT(60)
  <2> QED BY <1>2, <2>1, <2>2
<1>4. T \in Seq(S) /\ ComesThrough(J, T)
  BY <1>3, OutcomesFacts, WhatGetsThrough, ZenonT(60)
<1> HIDE DEF T, J, d
<1>5. Bytes(T) \subseteq Bytes(J) /\ Remaining(J, D) = T
  BY <1>4 DEF ComesThrough
<1>6. Remaining(d, D) = d /\ Remaining(rest, D) = rest
  <2>1. Bytes(d) \cap D = {} /\ Bytes(rest) \cap D = {}
    BY <1>3
  <2> HIDE DEF D
  <2> QED BY <1>2, <2>1, RemainingFacts
<1> HIDE DEF D
<1>7. Remaining(W, D) = d \o (T \o rest)
  <2>1. Joins(Remaining(J \o rest, D), Remaining(J, D), Remaining(rest, D))
    BY <1>2, RemainingOfTwo, Zenon
  <2>2. Joins(Remaining(d \o (J \o rest), D), Remaining(d, D), Remaining(J \o rest, D))
    BY <1>2, RemainingOfTwo, Zenon
  <2> QED BY <1>2, <1>5, <1>6, <2>1, <2>2, Zenon DEF Joins
<1>8. d \o (T \o rest) = (d \o T) \o rest /\ d \o T \in Seq(S)
  <2>1. d \o T \in Seq(S)
    BY <1>2, <1>4, ConcatProperties
  <2>2. PICK x \in Seq(S), y \in Seq(S), z \in Seq(S) : x = d /\ y = T /\ z = rest
    BY <1>2, <1>4
  <2>3. (x \o y) \o z = x \o (y \o z)
    BY ConcatAssociative
  <2> QED BY <2>1, <2>2, <2>3, Zenon
<1>9. W \in Seq(S)
  BY ConcatProperties DEF Texts
<1> HIDE DEF W, S
<1>10. /\ Remaining(W, D) \in Seq(S)
       /\ Bytes(Remaining(W, D)) \subseteq Bytes(W)
       /\ Distinct(Remaining(W, D))
  <2>1. Distinct(W)
    BY DEF W
  <2> QED BY <1>9, <2>1, RemainingFacts, RemainingOfTwo
<1>11. /\ disk' \in [Paths -> Seq(S)] /\ owed' \in [Paths -> Seq(S)]
       /\ \A q \in Paths : q # p => disk'[q] = disk[q] /\ owed'[q] = owed[q]
       /\ disk'[p] = d \o T /\ owed'[p] = Remaining(W, D)
  <2>1. disk \in [Paths -> Seq(S)] /\ owed \in [Paths -> Seq(S)]
    BY DEF Texts, S
  <2> QED BY <2>1, <1>1, <1>8, <1>10
<1> QED BY <1>1, <1>7, <1>8, <1>10, <1>11, Zenon DEF W, Texts, S

-----------------------------------------------------------------------------
(* The plans.                                                              *)

LEMMA TwoInARow ==
  ASSUME NEW a, NEW b
  PROVE  <<a, b>> = <<a>> \o <<b>>
<1> DEFINE S == {a, b}
           x == <<a>>
           y == <<b>>
           z == <<a, b>>
<1>1. /\ x \in Seq(S) /\ Len(x) = 1 /\ x[1] = a /\ y \in Seq(S) /\ Len(y) = 1 /\ y[1] = b
      /\ z \in Seq(S) /\ Len(z) = 2 /\ z[1] = a /\ z[2] = b
  OBVIOUS
<1> HIDE DEF S, x, y, z
<1>2. /\ x \o y \in Seq(S) /\ Len(x \o y) = 2
      /\ \A i \in 1 .. 2 : (x \o y)[i] = IF i <= 1 THEN x[i] ELSE y[i - 1]
  BY <1>1, ConcatProperties
<1>3. (x \o y)[1] = a /\ (x \o y)[2] = b /\ 1 .. 2 = {1, 2}
  BY <1>1, <1>2
<1>4. \A i \in 1 .. 2 : z[i] = (x \o y)[i]
  BY <1>1, <1>3
<1>5. z = x \o y
  BY <1>1, <1>2, <1>4, SeqEqual
<1> QED BY <1>5 DEF x, y, z

LEMMA PushedText ==
  ASSUME NEW b \in Buffers, NEW s \in Texts, NEW region
  PROVE  /\ Push(b, s, region).text = b.text \o s
         /\ PushCharRepeat(b, s, region).text = b.text \o s
         /\ PushString(b, s, region).text = b.text \o s
<1>1. ASSUME NEW n, NEW k PROVE Stored(EnsureAggressively(b, n, region), s, k).text = b.text \o s
  <2> DEFINE e == EnsureAggressively(b, n, region)
  <2>1. /\ e.text = b.text
        /\ e \in [m_data : {e.m_data}, text : {e.text}, m_capacity : {e.m_capacity}, high : {e.high}]
    BY DEF Buffers, EnsureAggressively, ReserveAggressively, Reallocated
  <2> DEFINE d == e.text \o s
             h == Len(e.text) + Len(s) + k
  <2>2. Stored(e, s, k) = [e EXCEPT !.text = d, !.high = h]
    BY DEF Stored
  <2> HIDE DEF e, d, h
  <2>3. [e EXCEPT !.text = d, !.high = h].text = d
    BY <2>1
  <2> QED BY <2>1, <2>2, <2>3 DEF d, e
<1>2. b.text \o <<>> = b.text
  BY ConcatEmptySeq, Zenon DEF Buffers, Texts
<1>3. Push(b, s, region).text = b.text \o s
  BY <1>1, <1>2 DEF Push
<1> QED BY <1>1, <1>3 DEF PushCharRepeat, PushString

\* Nothing is lost, repeated or out of order between the pieces and the buffer.
InOrder(plan, text) ==
  /\ plan.pieces \in Pieces(1 .. MaxBytes)
  /\ plan.buffer.text \in Texts
  /\ text = Joined(plan.pieces) \o plan.buffer.text

LEMMA PiecesInOrder ==
  ASSUME NEW t \in Texts, NEW s \in Texts, NEW c
  PROVE  /\ c.text = t \o s => InOrder(Plan(<<>>, c), t \o s)
         /\ c.text = s => InOrder(Plan(<<t>>, c), t \o s)
         /\ c.text = <<>> => /\ InOrder(Plan(<<t, s>>, c), t \o s)
                             /\ InOrder(Plan(<<t>> \o [i \in DOMAIN s |-> <<s[i]>>], c), t \o s)
<1> DEFINE S == 1 .. MaxBytes
           P == [i \in DOMAIN s |-> <<s[i]>>]
<1>1. t \o s \in Seq(S) /\ t \in Seq(S) /\ s \in Seq(S) /\ <<>> \in Seq(S)
  BY ConcatProperties DEF Texts
<1>2. ASSUME NEW x \in Seq(S) PROVE <<>> \o x = x /\ x \o <<>> = x
  BY ConcatEmptySeq, Zenon
<1>3. <<>> \in Pieces(S) /\ Joined(<<>>) = <<>>
  BY JoinedOfNone DEF Pieces
<1>4. <<t>> \in Pieces(S) /\ Joined(<<t>>) = t /\ <<s>> \in Pieces(S) /\ Joined(<<s>>) = s
  BY <1>1, JoinedOfOne
<1>5. <<t, s>> \in Pieces(S) /\ Joined(<<t, s>>) = t \o s
  <2>1. <<t, s>> = <<t>> \o <<s>>
    BY TwoInARow
  <2>2. PICK x \in Pieces(S), y \in Pieces(S) : x = <<t>> /\ y = <<s>>
    BY <1>4
  <2>3. x \o y \in Pieces(S) /\ Joined(x \o y) = Joined(x) \o Joined(y)
    BY JoinedOfTwo
  <2> QED BY <1>4, <2>1, <2>2, <2>3, Zenon
<1>6. P \in Pieces(S) /\ Joined(P) = s
  <2>1. P = KeptPieces(s, {})
    BY DEF KeptPieces
  <2>2. KeptPieces(s, {}) \in Pieces(S)
    BY <1>1, KeptPiecesFacts
  <2>3. Joined(KeptPieces(s, {})) = Remaining(s, {})
    BY DEF KeptPieces, Remaining
  <2>4. Remaining(s, {}) = s
    BY <1>1, RemainingFacts
  <2> QED BY <2>1, <2>2, <2>3, <2>4, Zenon
<1> HIDE DEF P
<1>7. <<t>> \o P \in Pieces(S) /\ Joined(<<t>> \o P) = t \o s
  <2>1. PICK x \in Pieces(S), y \in Pieces(S) : x = <<t>> /\ y = P
    BY <1>4, <1>6
  <2>2. x \o y \in Pieces(S) /\ Joined(x \o y) = Joined(x) \o Joined(y)
    BY JoinedOfTwo
  <2> QED BY <1>4, <1>6, <2>1, <2>2, Zenon
<1>8. ASSUME NEW p PROVE Plan(p, c).pieces = p /\ Plan(p, c).buffer = c
  BY DEF Plan
<1>9. c.text = t \o s => InOrder(Plan(<<>>, c), t \o s)
  BY <1>1, <1>2, <1>3, <1>8, Zenon DEF InOrder, Texts
<1>10. c.text = s => InOrder(Plan(<<t>>, c), t \o s)
  BY <1>1, <1>4, <1>8, Zenon DEF InOrder, Texts
<1>11. c.text = <<>> => /\ InOrder(Plan(<<t, s>>, c), t \o s)
                        /\ InOrder(Plan(<<t>> \o P, c), t \o s)
  <2>1. ASSUME NEW p \in Pieces(S), Joined(p) = t \o s, c.text = <<>>
        PROVE  InOrder(Plan(p, c), t \o s)
    <3>1. Plan(p, c).pieces = p /\ Plan(p, c).buffer.text = <<>>
      BY <1>8, <2>1
    <3>2. (t \o s) \o <<>> = t \o s
      BY <1>1, <1>2, Zenon
    <3> QED BY <1>1, <2>1, <3>1, <3>2, Zenon DEF InOrder, Texts
  <2> QED BY <1>5, <1>7, <2>1, Zenon
<1> QED BY <1>9, <1>10, <1>11 DEF P

LEMMA PlansInOrder ==
  ASSUME NEW b, Sound(b), NEW s \in Texts
  PROVE  /\ InOrder(WritePlan(b, s), b.text \o s)
         /\ InOrder(RepeatPlan(b, s), b.text \o s)
         /\ InOrder(StringPlan(b, s), b.text \o s)
<1> DEFINE z == Cleared(b)
<1>1. b \in Buffers /\ b.text \in Texts /\ z \in Buffers /\ z.text = <<>>
  BY ClearedIsSound, SoundTypes
<1>2. <<>> \o s = s
  BY ConcatEmptySeq, Zenon DEF Texts
<1>3. /\ Push(b, s, FreshRegion).text = b.text \o s /\ Push(z, s, FreshRegion).text = s
      /\ PushCharRepeat(b, s, FreshRegion).text = b.text \o s /\ PushCharRepeat(z, s, FreshRegion).text = s
      /\ PushString(b, s, FreshRegion).text = b.text \o s
  BY <1>1, <1>2, PushedText
<1> HIDE DEF z
<1>4. InOrder(WritePlan(b, s), b.text \o s)
  BY <1>1, <1>3, PiecesInOrder, Zenon DEF WritePlan, z
<1>5. InOrder(RepeatPlan(b, s), b.text \o s)
  BY <1>1, <1>3, PiecesInOrder, Zenon DEF RepeatPlan, z
<1>6. InOrder(StringPlan(b, s), b.text \o s)
  BY <1>1, <1>3, <1>4, PiecesInOrder, Zenon DEF StringPlan
<1> QED BY <1>4, <1>5, <1>6

-----------------------------------------------------------------------------
(* The invariant: at most one writer carries text for a file, what it has  *)
(* is what the file still lacks, and no byte is owed twice.                *)

Carries(w, p) == HasText(w) /\ Destination(w) = p

Tallied(p) ==
  /\ \A w \in Writers : Carries(w, p) => owed[p] = disk[p] \o Text(w)
  /\ (\A w \in Writers : ~Carries(w, p)) => owed[p] = disk[p]
  /\ \A w, x \in Writers : Carries(w, p) /\ Carries(x, p) => w = x

FilesSound ==
  /\ disk \in [Paths -> Texts] /\ owed \in [Paths -> Texts]
  /\ faults \in 0 .. MaxFaults /\ next \in 1 .. MaxBytes + 1
  /\ \A p \in Paths : Distinct(owed[p]) /\ \A b \in Bytes(owed[p]) : b < next

Addressed == \A w \in Writers : HasText(w) => Alive(File(w)) /\ Valid(File(w))

TextInv == FilesSound /\ Addressed /\ \A p \in Paths : Tallied(p)

LEMMA TextInit == Init => TextInv
<1> SUFFICES ASSUME Init PROVE TextInv
  OBVIOUS
<1>1. /\ disk = [p \in Paths |-> <<>>] /\ owed = [p \in Paths |-> <<>>] /\ faults = 0 /\ next = 1
      /\ \A w \in Writers : ~HasText(w)
  BY DEF Init, FilesInit, HasText, Exists
<1>2. <<>> \in Texts /\ MaxFaults \in Nat /\ MaxBytes \in Nat
  BY FilesAssumption, WriterAssumption DEF Texts
<1>3. FilesSound
  BY <1>1, <1>2, BytesOfFew DEF FilesSound
<1>4. \A p \in Paths : Tallied(p)
  BY <1>1 DEF Tallied, Carries
<1> QED BY <1>1, <1>3, <1>4 DEF TextInv, Addressed

\* Bytes handed over now have not been owed before.
LEMMA NewBytesAreNew ==
  ASSUME FilesSound, NEW p \in Paths, NEW n \in Nat, next + n - 1 <= MaxBytes
  PROVE  /\ NewBytes(n) \in Texts /\ owed[p] \o NewBytes(n) \in Texts
         /\ Distinct(owed[p] \o NewBytes(n))
         /\ \A b \in Bytes(owed[p] \o NewBytes(n)) : b < next + n
<1> DEFINE s == NewBytes(n)
           o == owed[p]
<1>1. /\ next \in Nat \ {0} /\ o \in Seq(1 .. MaxBytes)
      /\ Distinct(o) /\ \A b \in Bytes(o) : b < next
  <2>1. MaxBytes \in Nat
    BY WriterAssumption
  <2> QED BY <2>1 DEF FilesSound, Texts
<1>2. s \in Seq(1 .. MaxBytes) /\ Len(s) = n
  BY <1>1, NewBytesFacts DEF Texts
<1>3. DOMAIN s = 1 .. n /\ \A i \in 1 .. n : s[i] = next + i - 1
  BY DEF NewBytes
<1> DEFINE S == 1 .. MaxBytes
<1> HIDE DEF s, o
<1>4. Distinct(s) /\ \A b \in Bytes(s) : b \in Nat /\ next <= b /\ b < next + n
  BY <1>1, <1>2, <1>3 DEF Distinct, Bytes
<1>5. /\ Bytes(o) \subseteq S
      /\ Bytes(o \o s) = Bytes(o) \cup Bytes(s)
      /\ Distinct(o \o s) <=> Distinct(o) /\ Distinct(s) /\ Bytes(o) \cap Bytes(s) = {}
  <2>1. o \in Seq(S) /\ s \in Seq(S)
    BY <1>1, <1>2
  <2> HIDE DEF S
  <2> QED BY <2>1, BytesOfTwo
<1>6. \A b \in Bytes(o) : b \in Nat /\ b < next /\ b < next + n
  BY <1>1, <1>5
<1>7. Bytes(o) \cap Bytes(s) = {}
  <2> SUFFICES ASSUME NEW b \in Bytes(o), b \in Bytes(s) PROVE FALSE
    OBVIOUS
  <2>1. b \in Nat /\ b < next /\ next <= b
    BY <1>4, <1>6
  <2> QED BY <2>1, <1>1
<1>8. \A b \in Bytes(o \o s) : b < next + n
  BY <1>4, <1>5, <1>6
<1>9. o \o s \in Seq(1 .. MaxBytes)
  BY <1>1, <1>2, ConcatProperties
<1> QED BY <1>1, <1>2, <1>4, <1>5, <1>7, <1>8, <1>9, Zenon DEF s, o, Texts

\* Writers change places or lose their text, and none gets text that none had.
\* Those that are flushed lose it to their files; the others keep it.
FlushesOnly(flushed) ==
  /\ FilesSound' /\ UNCHANGED <<fds, handle>>
  /\ \A p \in Paths :
       IF \E x \in flushed : Carries(x, p) THEN owed'[p] = disk'[p]
       ELSE disk'[p] = disk[p] /\ owed'[p] = owed[p]

Rearranges(was, flushed) ==
  /\ was \in [Writers -> Writers] /\ flushed \in SUBSET Writers
  /\ \A w \in Writers :
       HasText(w)' => /\ was[w] \notin flushed /\ HasText(was[w])
                      /\ File(w)' = File(was[w]) /\ Text(w)' = Text(was[w])
  /\ \A x \in Writers \ flushed : HasText(x) => \E w \in Writers : HasText(w)' /\ was[w] = x
  /\ \A w, x \in Writers : HasText(w)' /\ HasText(x)' /\ was[w] = was[x] => w = x

LEMMA Rearranged ==
  ASSUME TextInv, NEW flushed, NEW was, FlushesOnly(flushed), Rearranges(was, flushed)
  PROVE  TextInv'
<1> USE DEF FlushesOnly, Rearranges
<1>1. \A w \in Writers : HasText(w)' => Destination(w)' = Destination(was[w])
  BY DEF Destination, PathOf
<1>2. Addressed'
  BY DEF TextInv, Addressed, Alive, Valid
<1>3. \A w \in Writers, p \in Paths : Carries(w, p)' => /\ Carries(was[w], p) /\ was[w] \notin flushed
                                                        /\ was[w] \in Writers /\ Text(w)' = Text(was[w])
  BY <1>1 DEF Carries
<1>4. \A x \in Writers \ flushed, p \in Paths : Carries(x, p) => \E w \in Writers : Carries(w, p)' /\ was[w] = x
  BY <1>1 DEF Carries
<1>5. \A w, x \in Writers, p \in Paths : Carries(w, p)' /\ Carries(x, p)' /\ was[w] = was[x] => w = x
  BY DEF Carries
<1>6. ASSUME NEW p \in Paths PROVE Tallied(p)'
  <2>1. /\ \A w \in Writers : Carries(w, p) => owed[p] = disk[p] \o Text(w)
        /\ (\A w \in Writers : ~Carries(w, p)) => owed[p] = disk[p]
        /\ \A w, x \in Writers : Carries(w, p) /\ Carries(x, p) => w = x
    BY DEF TextInv, Tallied
  <2>2. CASE \E x \in flushed : Carries(x, p)
    <3>1. \A w \in Writers : ~Carries(w, p)'
      BY <1>3, <2>1, <2>2
    <3> QED BY <2>2, <3>1 DEF Tallied
  <2>3. CASE ~\E x \in flushed : Carries(x, p)
    <3>1. disk'[p] = disk[p] /\ owed'[p] = owed[p]
      BY <2>3
    <3>2. \A w \in Writers : Carries(w, p)' => owed'[p] = disk'[p] \o Text(w)'
      BY <1>3, <2>1, <3>1
    <3>3. (\A w \in Writers : ~Carries(w, p)') => owed'[p] = disk'[p]
      BY <1>4, <2>1, <2>3, <3>1
    <3>4. \A w, x \in Writers : Carries(w, p)' /\ Carries(x, p)' => w = x
      BY <1>3, <1>5, <2>1
    <3> QED BY <3>2, <3>3, <3>4 DEF Tallied
  <2> QED BY <2>2, <2>3
<1> QED BY <1>2, <1>6 DEF TextInv

\* What flush does to the files.
Later == next' \in 1 .. MaxBytes + 1 /\ next <= next'

LEMMA StillSound ==
  ASSUME FilesSound, Later, UNCHANGED <<disk, faults, owed>>
  PROVE  FilesSound'
<1>1. next \in Nat /\ next' \in Nat /\ next <= next'
  BY WriterAssumption DEF FilesSound, Later
<1>2. \A p \in Paths : \A b \in Bytes(owed[p]) : b \in Nat
  <2> TAKE p \in Paths
  <2>1. owed[p] \in Seq(1 .. MaxBytes)
    BY DEF FilesSound, Texts
  <2>2. Bytes(owed[p]) \subseteq 1 .. MaxBytes
    BY <2>1, BytesOfTwo
  <2> QED BY <2>2
<1> QED BY <1>1, <1>2 DEF FilesSound, Later

LEMMA FlushedFiles ==
  ASSUME TextInv, RegionInv, DescriptorInv, Later,
         NEW w \in Writers, CanFlush(w), Flushed(w)
  PROVE  FlushesOnly({w})
<1>1. CASE ~HasText(w)
  <2>1. UNCHANGED <<disk, fds, handle, faults, owed>>
    BY <1>1 DEF Flushed, fileVars
  <2>2. FilesSound'
    BY <2>1, StillSound DEF TextInv
  <2>3. \A p \in Paths : ~Carries(w, p)
    BY <1>1 DEF Carries
  <2> QED BY <2>1, <2>2, <2>3 DEF FlushesOnly
<1>2. CASE HasText(w)
  <2> DEFINE p == Destination(w)
             t == Text(w)
  <2>1. UNCHANGED <<fds, handle>>
    BY <1>2 DEF Flushed
  <2>2. PICK k \in Outcomes(<<t>>) : WritePieces(p, <<>>, <<t>>, k)
    BY <1>2 DEF Flushed
  <2>3. p \in Paths /\ Carries(w, p)
    <3>1. File(w) \in Handles /\ Valid(File(w))
      BY <1>2, WriterFacts DEF CanFlush, HasText, ToFile
    <3>2. p \in Paths
      BY <3>1 DEF Destination, PathOf, DescriptorInv, DescriptorTypes, HandlesOwnDescriptors, Valid
    <3> QED BY <1>2, <3>2 DEF Carries
  <2>4. t \in Texts
    BY <1>2, WriterFacts DEF HasText
  <2>5. /\ disk \in [Paths -> Texts] /\ owed \in [Paths -> Texts] /\ faults \in 0 .. MaxFaults
        /\ Distinct(owed[p]) /\ owed[p] = disk[p] \o t
        /\ \A b \in Bytes(owed[p]) : b < next
    BY <2>3 DEF TextInv, FilesSound, Tallied
  <2> HIDE DEF p, t
  <2>6. <<t>> \in Pieces(1 .. MaxBytes) /\ Joined(<<t>>) = t /\ <<>> \in Texts
    BY <2>4, JoinedOfOne DEF Texts
  <2>7. ASSUME NEW x \in Texts PROVE x \o <<>> = x
    BY ConcatEmptySeq, Zenon DEF Texts
  <2>8. owed[p] \in Texts /\ owed[p] \o <<>> = owed[p] /\ t \o <<>> = t
    BY <2>3, <2>4, <2>5, <2>7
  <2>9. owed[p] \o <<>> = disk[p] \o (Joined(<<t>>) \o <<>>) /\ Distinct(owed[p] \o <<>>)
    BY <2>5, <2>6, <2>8
  <2>10. /\ disk' \in [Paths -> Texts] /\ owed' \in [Paths -> Texts] /\ faults' \in 0 .. MaxFaults
         /\ \A q \in Paths : q # p => disk'[q] = disk[q] /\ owed'[q] = owed[q]
         /\ owed'[p] = disk'[p] \o <<>>
         /\ Distinct(owed'[p]) /\ Bytes(owed'[p]) \subseteq Bytes(owed[p])
    BY <2>2, <2>3, <2>5, <2>6, <2>8, <2>9, Written
  <2>11. owed'[p] = disk'[p]
    BY <2>3, <2>7, <2>10
  <2>12. \A q \in Paths : Distinct(owed'[q]) /\ \A b \in Bytes(owed'[q]) : b < next
    BY <2>5, <2>10 DEF TextInv, FilesSound
  <2>13. FilesSound'
    <3>1. ASSUME NEW q \in Paths, NEW b \in Bytes(owed'[q]) PROVE b < next'
      <4>1. owed'[q] \in Seq(1 .. MaxBytes)
        BY <2>10 DEF Texts
      <4>2. Bytes(owed'[q]) \subseteq 1 .. MaxBytes
        BY <4>1, BytesOfTwo
      <4>3. b \in Nat /\ b < next /\ next \in Nat /\ next' \in Nat /\ next <= next'
        BY <2>12, <4>2 DEF TextInv, FilesSound, Later
      <4> QED BY <4>3
    <3> QED BY <2>10, <2>12, <3>1 DEF FilesSound, Later
  <2>14. \A q \in Paths : Carries(w, q) => q = p
    BY <2>3 DEF Carries
  <2> QED BY <2>1, <2>3, <2>10, <2>11, <2>13, <2>14 DEF FlushesOnly
<1> QED BY <1>1, <1>2

\* A writer that is flushed, or has nothing to flush, has no text afterwards.
LEMMA LosesText ==
  ASSUME TextInv, RegionInv, DescriptorInv, Later,
         NEW w \in Writers, CanFlush(w), Flushed(w), ~HasText(w)',
         \A x \in Writers \ {w} : writer'[x] = writer[x]
  PROVE  TextInv'
<1> DEFINE was == [x \in Writers |-> x]
<1>1. \A x \in Writers \ {w} : HasText(x)' <=> HasText(x)
  BY DEF HasText, Exists, ToFile, File, Text, Buf
<1>2. \A x \in Writers \ {w} : File(x)' = File(x) /\ Text(x)' = Text(x)
  BY DEF File, Text, Buf
<1>3. was \in [Writers -> Writers] /\ \A x \in Writers : was[x] = x
  OBVIOUS
<1> HIDE DEF was
<1>4. \A x \in Writers : HasText(x)' => /\ was[x] \notin {w} /\ HasText(was[x])
                                        /\ File(x)' = File(was[x]) /\ Text(x)' = Text(was[x])
  BY <1>1, <1>2, <1>3
<1>5. \A x \in Writers \ {w} : HasText(x) => \E y \in Writers : HasText(y)' /\ was[y] = x
  BY <1>1, <1>3
<1>6. \A x, y \in Writers : HasText(x)' /\ HasText(y)' /\ was[x] = was[y] => x = y
  BY <1>3
<1>7. Rearranges(was, {w})
  BY <1>3, <1>4, <1>5, <1>6 DEF Rearranges
<1> QED BY <1>7, FlushedFiles, Rearranged

\* A writer takes over what another has.
LEMMA TakesOverText ==
  ASSUME TextInv, RegionInv, DescriptorInv, Later,
         NEW w \in Writers, NEW x \in Writers, w # x, CanFlush(w), Flushed(w),
         writer' = [writer EXCEPT ![w] = writer[x], ![x] = MovedFrom]
  PROVE  TextInv'
<1> DEFINE was == [y \in Writers |-> IF y = w THEN x ELSE y]
<1>1. /\ writer'[w] = writer[x] /\ writer'[x] = MovedFrom
      /\ \A y \in Writers \ {w, x} : writer'[y] = writer[y]
  BY DEF RegionInv, RegionTypes
<1>2. ~HasText(x)'
  BY <1>1 DEF HasText, ToFile, File, MovedFrom
<1>3. /\ was \in [Writers -> Writers] /\ was[w] = x
      /\ \A y \in Writers \ {w} : was[y] = y
  OBVIOUS
<1> HIDE DEF was
<1>4. ASSUME NEW y \in Writers \ {x}
      PROVE  (HasText(y)' <=> HasText(was[y])) /\ File(y)' = File(was[y]) /\ Text(y)' = Text(was[y])
  <2>1. writer'[y] = writer[was[y]]
    <3>1. CASE y = w
      BY <3>1, <1>1, <1>3
    <3>2. CASE y # w
      BY <3>2, <1>1, <1>3
    <3> QED BY <3>1, <3>2
  <2> QED BY <2>1 DEF HasText, Exists, ToFile, File, Text, Buf
<1>5. \A y \in Writers : HasText(y)' => /\ was[y] \notin {w} /\ HasText(was[y])
                                        /\ File(y)' = File(was[y]) /\ Text(y)' = Text(was[y])
  BY <1>2, <1>3, <1>4
<1>6. \A y \in Writers \ {w} : HasText(y) => \E z \in Writers : HasText(z)' /\ was[z] = y
  BY <1>3, <1>4
<1>7. \A y, z \in Writers : HasText(y)' /\ HasText(z)' /\ was[y] = was[z] => y = z
  BY <1>2, <1>3
<1>8. Rearranges(was, {w})
  BY <1>3, <1>5, <1>6, <1>7 DEF Rearranges
<1> QED BY <1>8, FlushedFiles, Rearranged

\* Every writer keeps its text.
LEMMA SameTexts ==
  ASSUME TextInv, Later, UNCHANGED fileVars,
         \A x \in Writers : (HasText(x)' <=> HasText(x)) /\ File(x)' = File(x) /\ Text(x)' = Text(x)
  PROVE  TextInv'
<1> DEFINE was == [x \in Writers |-> x]
<1>1. UNCHANGED <<disk, fds, handle, faults, owed>>
  BY DEF fileVars
<1>2. FilesSound'
  BY <1>1, StillSound DEF TextInv
<1>3. was \in [Writers -> Writers] /\ (\A x \in Writers : was[x] = x) /\ {} \in SUBSET Writers
  OBVIOUS
<1> HIDE DEF was
<1>4. \A x \in Writers : HasText(x)' => /\ was[x] \notin {} /\ HasText(was[x])
                                        /\ File(x)' = File(was[x]) /\ Text(x)' = Text(was[x])
  BY <1>3
<1>5. \A x \in Writers \ {} : HasText(x) => \E y \in Writers : HasText(y)' /\ was[y] = x
  BY <1>3
<1>6. \A x, y \in Writers : HasText(x)' /\ HasText(y)' /\ was[x] = was[y] => x = y
  BY <1>3
<1>7. FlushesOnly({}) /\ Rearranges(was, {})
  BY <1>1, <1>2, <1>3, <1>4, <1>5, <1>6 DEF FlushesOnly, Rearranges
<1> QED BY <1>7, Rearranged

-----------------------------------------------------------------------------
(* Bytes handed over, through a writer or straight to the handle.          *)

\* Nobody but w has anything to do with the file p.
OnlyWriter(w, p, text) ==
  /\ \A x \in Writers : Carries(x, p)' => x = w /\ Text(x)' = text
  /\ text # <<>> => w \in Writers /\ Carries(w, p)'
  /\ \A x \in Writers, q \in Paths \ {p} :
       (Carries(x, q)' <=> Carries(x, q)) /\ (Carries(x, q) => Text(x)' = Text(x))

LEMMA HandedOver ==
  ASSUME TextInv, Addressed', NEW p \in Paths, NEW n \in Nat,
         next + n - 1 <= MaxBytes, next' = next + n,
         NEW t \in Texts, owed[p] = disk[p] \o t,
         NEW plan, InOrder(plan, t \o NewBytes(n)),
         NEW k \in Outcomes(plan.pieces), WritePieces(p, NewBytes(n), plan.pieces, k),
         NEW w, OnlyWriter(w, p, plan.buffer.text)
  PROVE  TextInv'
<1> DEFINE s == NewBytes(n)
           pieces == plan.pieces
           rest == plan.buffer.text
           W == owed[p] \o s
<1>1. /\ FilesSound /\ disk \in [Paths -> Texts] /\ owed \in [Paths -> Texts] /\ faults \in 0 .. MaxFaults
      /\ next \in Nat /\ MaxBytes \in Nat
  <2>1. MaxBytes \in Nat
    BY WriterAssumption
  <2> QED BY <2>1 DEF TextInv, FilesSound
<1>2. s \in Texts /\ W \in Texts /\ Distinct(W) /\ \A b \in Bytes(W) : b < next + n
  BY <1>1, NewBytesAreNew
<1>3. pieces \in Pieces(1 .. MaxBytes) /\ rest \in Texts /\ t \o s = Joined(pieces) \o rest
  BY DEF InOrder
<1> HIDE DEF s, pieces, rest
<1>4. W = disk[p] \o (Joined(pieces) \o rest)
  <2>1. PICK x \in Texts, y \in Texts, z \in Texts : x = disk[p] /\ y = t /\ z = s
    BY <1>1, <1>2
  <2> DEFINE S == 1 .. MaxBytes
  <2>4. x \in Seq(S) /\ y \in Seq(S) /\ z \in Seq(S)
    BY DEF Texts
  <2> HIDE DEF S
  <2>2. (x \o y) \o z = x \o (y \o z)
    BY <2>4, ConcatAssociative, SMTT(60)
  <2>3. W = (disk[p] \o t) \o s
    OBVIOUS
  <2> QED BY <1>3, <2>1, <2>2, <2>3, Zenon
<1>5. /\ disk' \in [Paths -> Texts] /\ owed' \in [Paths -> Texts] /\ faults' \in 0 .. MaxFaults
      /\ \A q \in Paths : q # p => disk'[q] = disk[q] /\ owed'[q] = owed[q]
      /\ owed'[p] = disk'[p] \o rest
      /\ Distinct(owed'[p]) /\ Bytes(owed'[p]) \subseteq Bytes(W)
  <2>1. k \in Outcomes(pieces) /\ WritePieces(p, s, pieces, k)
    BY DEF pieces, s
  <2> QED BY <1>1, <1>2, <1>3, <1>4, <2>1, Written, Zenon
<1>6. next' \in 1 .. MaxBytes + 1 /\ next <= next'
  BY <1>1 DEF FilesSound
<1>7. ASSUME NEW q \in Paths PROVE Distinct(owed'[q]) /\ \A b \in Bytes(owed'[q]) : b < next'
  <2>1. CASE q = p
    BY <2>1, <1>2, <1>5
  <2>2. CASE q # p
    <3>1. Distinct(owed[q]) /\ owed[q] \in Seq(1 .. MaxBytes) /\ \A b \in Bytes(owed[q]) : b < next
      BY <1>1 DEF FilesSound, Texts
    <3>2. Bytes(owed[q]) \subseteq 1 .. MaxBytes
      BY <3>1, BytesOfTwo
    <3>3. \A b \in Bytes(owed[q]) : b \in Nat /\ b < next'
      BY <3>1, <3>2, <1>1, <1>6
    <3> QED BY <2>2, <3>1, <3>3, <1>5
  <2> QED BY <2>1, <2>2
<1>8. FilesSound'
  BY <1>5, <1>6, <1>7 DEF FilesSound
<1>9. ASSUME NEW q \in Paths PROVE Tallied(q)'
  <2>1. CASE q = p
    <3>1. PICK d \in Texts : d = disk'[p]
      BY <1>5
    <3>2. Tallied(p)'
      <4>1. disk'[p] = d /\ owed'[p] = d \o rest
        BY <3>1, <1>5
      <4>2. /\ \A x \in Writers : Carries(x, p)' => x = w /\ Text(x)' = rest
            /\ rest # <<>> => w \in Writers /\ Carries(w, p)'
        BY DEF OnlyWriter, rest
      <4>3. d \o <<>> = d
        BY ConcatEmptySeq, Zenon DEF Texts
      <4> HIDE DEF rest
      <4> QED BY <4>1, <4>2, <4>3 DEF Tallied
    <3> QED BY <2>1, <3>2
  <2>2. CASE q # p
    <3>1. \A x \in Writers : (Carries(x, q)' <=> Carries(x, q)) /\ (Carries(x, q) => Text(x)' = Text(x))
      BY <2>2 DEF OnlyWriter
    <3>2. Tallied(q) /\ disk'[q] = disk[q] /\ owed'[q] = owed[q]
      BY <2>2, <1>5 DEF TextInv
    <3> QED BY <3>1, <3>2 DEF Tallied
  <2> QED BY <2>1, <2>2
<1> QED BY <1>8, <1>9 DEF TextInv

LEMMA PerformKeepsText ==
  ASSUME TextInv, RegionInv, DescriptorInv, NEW w \in Writers, Exists(w), ToFile(w), Sole(w),
         NEW n \in Nat, next + n - 1 <= MaxBytes, next' = next + n,
         NEW plan, plan.buffer \in Buffers, InOrder(plan, Text(w) \o NewBytes(n)), Perform(w, NewBytes(n), plan)
  PROVE  TextInv'
<1> DEFINE rest == plan.buffer.text
<1>1. File(w) \in Handles /\ Alive(File(w)) /\ Valid(File(w)) /\ Text(w) \in Texts
  BY WriterFacts DEF ToFile, Sole
<1>2. PICK p \in Paths : p = Destination(w)
  BY <1>1 DEF Destination, PathOf, DescriptorInv, DescriptorTypes, HandlesOwnDescriptors, Valid
<1>3. \A x \in Writers \ {w} : ~Carries(x, p)
  BY <1>2 DEF Sole, Carries
<1>4. owed[p] = disk[p] \o Text(w)
  <2>1. disk[p] \in Texts
    BY <1>2 DEF TextInv, FilesSound
  <2>2. disk[p] \o <<>> = disk[p]
    BY <2>1, ConcatEmptySeq, Zenon DEF Texts
  <2>3. CASE Text(w) = <<>>
    <3>1. \A x \in Writers : ~Carries(x, p)
      BY <1>3, <2>3 DEF Carries, HasText
    <3> QED BY <1>2, <2>2, <2>3, <3>1 DEF TextInv, Tallied
  <2>4. CASE Text(w) # <<>>
    <3>1. Carries(w, p)
      BY <2>4, <1>2 DEF Carries, HasText
    <3> QED BY <1>2, <3>1 DEF TextInv, Tallied
  <2> QED BY <2>3, <2>4
<1>5. PICK k \in Outcomes(plan.pieces) : WritePieces(p, NewBytes(n), plan.pieces, k)
  BY <1>2 DEF Perform
<1>6. /\ UNCHANGED <<fds, handle>>
      /\ \A x \in Writers \ {w} : writer'[x] = writer[x]
      /\ writer'[w] = [m_file |-> File(w), m_buffer |-> plan.buffer] /\ writer'[w] # Gone
  <2>1. /\ writer \in [Writers -> WriterValues \cup {Gone}] /\ UNCHANGED <<fds, handle>>
        /\ writer' = [writer EXCEPT ![w].m_buffer = plan.buffer]
    BY DEF Perform, RegionInv, RegionTypes
  <2>2. writer[w] = [m_file |-> File(w), m_buffer |-> Buf(w)]
    BY WriterFacts
  <2>3. writer'[w] = [m_file |-> File(w), m_buffer |-> plan.buffer]
    BY <2>1, <2>2
  <2>4. writer'[w] # Gone
    BY <1>1, <2>3, NoWriterAssumption DEF WriterValues
  <2> QED BY <2>1, <2>3, <2>4
<1>7. /\ File(w)' = File(w) /\ Text(w)' = rest /\ Destination(w)' = p
      /\ HasText(w)' <=> rest # <<>>
  BY <1>2, <1>6 DEF File, Text, Buf, Destination, PathOf, HasText, Exists, ToFile
<1>8. ASSUME NEW x \in Writers \ {w}
      PROVE  (HasText(x)' <=> HasText(x)) /\ Text(x)' = Text(x) /\ Destination(x)' = Destination(x) /\ File(x)' = File(x)
  BY <1>6 DEF File, Text, Buf, Destination, PathOf, HasText, Exists, ToFile
<1>9. Addressed'
  BY <1>1, <1>6, <1>7, <1>8 DEF TextInv, Addressed, Alive, Valid
<1>10. OnlyWriter(w, p, rest)
  BY <1>2, <1>3, <1>7, <1>8 DEF OnlyWriter, Carries
<1> QED BY <1>1, <1>2, <1>4, <1>5, <1>9, <1>10, HandedOver

\* A writer without a file has no text for one.
LEMMA KeepKeepsText ==
  ASSUME TextInv, RegionInv, DescriptorInv, Later, NEW w \in Writers, Exists(w), ~ToFile(w),
         NEW c, Keep(w, c)
  PROVE  TextInv'
<1>1. /\ writer \in [Writers -> WriterValues \cup {Gone}] /\ UNCHANGED fileVars
      /\ writer' = [writer EXCEPT ![w].m_buffer = c]
  BY DEF Keep, RegionInv, RegionTypes
<1>2. \A x \in Writers \ {w} : writer'[x] = writer[x]
  BY <1>1
<1>3. writer[w] = [m_file |-> File(w), m_buffer |-> Buf(w)]
  BY WriterFacts
<1>4. writer'[w].m_file = File(w)
  BY <1>1, <1>3
<1>5. ~HasText(w) /\ ~HasText(w)'
  BY <1>4 DEF HasText, ToFile, File
<1>6. CanFlush(w) /\ Flushed(w)
  BY <1>1, <1>5 DEF CanFlush, Flushed
<1> QED BY <1>2, <1>5, <1>6, LosesText

LEMMA HandIsLater ==
  ASSUME TextInv, NEW w, NEW n \in Nat, NEW k, Hand(w, n, k)
  PROVE  Later /\ next + n - 1 <= MaxBytes /\ next' = next + n /\ Sole(w) /\ Exists(w)
<1>1. next \in 1 .. MaxBytes + 1 /\ MaxBytes \in Nat
  BY WriterAssumption DEF TextInv, FilesSound
<1>2. next + n - 1 <= MaxBytes /\ next' = next + n /\ Sole(w) /\ Exists(w)
  BY DEF Hand
<1> QED BY <1>1, <1>2 DEF Later

LEMMA WriteKeepsText ==
  ASSUME TextInv, RegionInv, DescriptorInv, NEW w \in Writers, NEW n \in Sizes,
         Write(w, n) \/ WriteCharRepeat(w, n) \/ WriteString(w, n)
  PROVE  TextInv'
<1> DEFINE s == NewBytes(n)
<1>1. n \in Nat /\ n + 0 = n
  BY WriterAssumption
<1>2. PICK k \in 0 .. 1 : Hand(w, n, n + k)
  BY <1>1 DEF Write, WriteCharRepeat, WriteString
<1>3. /\ Later /\ next + n - 1 <= MaxBytes /\ next' = next + n /\ Sole(w) /\ Exists(w)
  BY <1>1, <1>2, HandIsLater
<1>4. /\ s \in Texts /\ Sound(Buf(w))
      /\ Buf(w).m_data = NoRegion => FreshRegion \in HeapRegions
  BY <1>1, <1>2, HandFacts
<1>5. CASE ~ToFile(w)
  <2>1. PICK c : Keep(w, c)
    BY <1>5 DEF Write, WriteCharRepeat, WriteString
  <2> QED BY <1>3, <1>5, <2>1, KeepKeepsText
<1>6. CASE ToFile(w)
  <2>1. PICK plan \in {WritePlan(Buf(w), s), RepeatPlan(Buf(w), s), StringPlan(Buf(w), s)} : Perform(w, s, plan)
    BY <1>6 DEF Write, WriteCharRepeat, WriteString
  <2>2. InOrder(plan, Buf(w).text \o s)
    BY <1>4, PlansInOrder
  <2>3. Leaves(Buf(w), s, plan.buffer)
    BY <1>4, PlansLeave
  <2>4. plan.buffer \in Buffers
    BY <2>3 DEF Leaves, Sound
  <2> HIDE DEF s
  <2>5. InOrder(plan, Text(w) \o s)
    BY <2>2 DEF Text
  <2> QED BY <1>1, <1>3, <1>6, <2>1, <2>4, <2>5, PerformKeepsText DEF s
<1> QED BY <1>5, <1>6

LEMMA OtherWriterStepKeepsText ==
  ASSUME TextInv, RegionInv, DescriptorInv, WriterStep,
         ~\E w \in Writers, n \in Sizes : Write(w, n) \/ WriteCharRepeat(w, n) \/ WriteString(w, n)
  PROVE  TextInv'
<1>1. writer \in [Writers -> WriterValues \cup {Gone}] /\ next \in 1 .. MaxBytes + 1 /\ MaxBytes \in Nat
  BY WriterAssumption DEF RegionInv, RegionTypes, TextInv, FilesSound
<1>2. next' = next => Later
  BY <1>1 DEF Later
<1>3. ASSUME NEW w \in Writers, EndString(w) PROVE TextInv'
  <2>1. Later /\ Exists(w) /\ ~ToFile(w) /\ \E c : Keep(w, c)
    BY <1>3, HandIsLater DEF EndString
  <2> QED BY <2>1, KeepKeepsText
<1>4. ASSUME NEW w \in Writers, NEW v, CanFlush(w), Flushed(w), next' = next,
             writer' = [writer EXCEPT ![w] = v],
             v # Gone => v.m_file = NoFile \/ v.m_buffer.text = <<>>
      PROVE  TextInv'
  <2>1. writer'[w] = v /\ \A x \in Writers \ {w} : writer'[x] = writer[x]
    BY <1>1, <1>4
  <2>2. ~HasText(w)'
    BY <1>4, <2>1 DEF HasText, Exists, ToFile, File, Text, Buf
  <2> QED BY <1>2, <1>4, <2>1, <2>2, LosesText
<1>5. ASSUME NEW w \in Writers, Flush(w) \/ Clear(w) PROVE TextInv'
  <2>1. Exists(w) /\ CanFlush(w) /\ Flushed(w) /\ next' = next
    BY <1>5 DEF Flush, Clear
  <2>2. /\ writer[w] = [m_file |-> File(w), m_buffer |-> Buf(w)] /\ Cleared(Buf(w)).text = <<>>
    BY <2>1, WriterFacts, ClearedIsSound
  <2> DEFINE v(c) == [m_file |-> File(w), m_buffer |-> c]
  <2>3. \/ writer' = [writer EXCEPT ![w] = v(Cleared(Buf(w)))]
        \/ File(w) = NoFile /\ writer' = [writer EXCEPT ![w] = v(Buf(w))]
    BY <1>5, <2>2 DEF Flush, Clear, ToFile
  <2> QED BY <1>4, <2>1, <2>2, <2>3
<1>6. ASSUME NEW w \in Writers, NEW h \in Handles \cup {NoFile}, Substitute(w, h) PROVE TextInv'
  <2>1. Exists(w) /\ CanFlush(w) /\ Flushed(w) /\ next' = next
    BY <1>6 DEF Substitute
  <2>2. Cleared(Buf(w)).text = <<>>
    BY <2>1, WriterFacts, ClearedIsSound
  <2> QED BY <1>4, <1>6, <2>1, <2>2 DEF Substitute
<1>7. ASSUME NEW w \in Writers, Destroy(w) PROVE TextInv'
  BY <1>4, <1>7 DEF Destroy
<1>8. ASSUME NEW w \in Writers, ~HasText(w), UNCHANGED fileVars PROVE CanFlush(w) /\ Flushed(w)
  BY <1>8 DEF CanFlush, Flushed
<1>9. ASSUME NEW w \in Writers, Detach(w) PROVE TextInv'
  <2>1. Exists(w) /\ CanFlush(w) /\ Flushed(w) /\ next' = next
    BY <1>8, <1>9 DEF Detach
  <2>2. writer[w] = [m_file |-> File(w), m_buffer |-> Buf(w)] /\ EmptyBuffer.text = <<>>
    BY <2>1, WriterFacts, EmptyIsSound
  <2>3. writer' = [writer EXCEPT ![w] = [m_file |-> File(w), m_buffer |-> EmptyBuffer]]
    <3>1. writer' = [writer EXCEPT ![w] = [writer[w] EXCEPT !.m_buffer = EmptyBuffer]]
      BY <1>9 DEF Detach
    <3>2. [writer[w] EXCEPT !.m_buffer = EmptyBuffer] = [m_file |-> File(w), m_buffer |-> EmptyBuffer]
      BY <2>2
    <3> QED BY <3>1, <3>2
  <2> QED BY <1>4, <2>1, <2>2, <2>3
<1>10. ASSUME NEW w \in Writers, NEW h \in Handles \cup {NoFile},
              \/ \E c \in Capacities : Construct(w, c, h)
              \/ \E a \in Arrays : ConstructOn(w, a, h)
       PROVE  TextInv'
  <2>1. ~HasText(w) /\ UNCHANGED fileVars /\ next' = next
    BY <1>10 DEF Construct, ConstructOn, HasText
  <2>2. PICK b : b.text = <<>> /\ writer' = [writer EXCEPT ![w] = [m_file |-> h, m_buffer |-> b]]
    BY <1>10 DEF Construct, ConstructOn, NewBuffer, FromExistingRegion
  <2> QED BY <1>4, <1>8, <2>1, <2>2
<1>11. ASSUME NEW w \in Writers, NEW x \in Writers, Move(w, x) PROVE TextInv'
  <2>1. w # x /\ ~HasText(w)
    BY <1>11 DEF Move, HasText
  <2> QED BY <1>2, <1>8, <1>11, <2>1, TakesOverText DEF Move
<1>12. ASSUME NEW w \in Writers, NEW x \in Writers, Assign(w, x) PROVE TextInv'
  BY <1>2, <1>12, TakesOverText DEF Assign
<1>13. ASSUME NEW w \in Writers, NEW n \in Capacities, ReserveBufferCapacity(w, n) PROVE TextInv'
  <2> DEFINE c == Reserve(Buf(w), n, FreshRegion)
  <2>1. /\ Exists(w) /\ UNCHANGED fileVars /\ next' = next
        /\ writer' = [writer EXCEPT ![w].m_buffer = c]
    BY <1>13 DEF ReserveBufferCapacity, Keep
  <2>2. /\ writer[w] = [m_file |-> File(w), m_buffer |-> Buf(w)] /\ Buf(w) \in Buffers
        /\ File(w) \in Handles \cup {NoFile}
        /\ Buf(w).m_data = NoRegion => FreshRegion \in HeapRegions
    BY <2>1, WriterFacts, FreshForBuffer
  <2>3. c.text = Text(w) /\ c \in Buffers
    <3>1. n \in 0 .. SizeMax
      BY CapacityAssumption, WriterAssumption, TopBitFacts
    <3> QED BY <2>2, <3>1 DEF Reserve, Reallocated, Buffers, Text
  <2> HIDE DEF c
  <2>4. writer'[w] = [m_file |-> File(w), m_buffer |-> c] /\ \A x \in Writers \ {w} : writer'[x] = writer[x]
    BY <1>1, <2>1, <2>2
  <2>5. (HasText(w)' <=> HasText(w)) /\ File(w)' = File(w) /\ Text(w)' = Text(w)
    <3>1. File(w)' = File(w) /\ Text(w)' = Text(w)
      BY <2>3, <2>4 DEF File, Text, Buf
    <3>2. writer'[w] # Gone /\ Exists(w)
      BY <2>1, <2>2, <2>3, <2>4, NoWriterAssumption DEF WriterValues
    <3> QED BY <3>1, <3>2 DEF HasText, Exists, ToFile
  <2>6. ASSUME NEW x \in Writers
        PROVE  (HasText(x)' <=> HasText(x)) /\ File(x)' = File(x) /\ Text(x)' = Text(x)
    <3>1. CASE x = w
      BY <3>1, <2>5
    <3>2. CASE x # w
      BY <3>2, <2>4 DEF HasText, Exists, ToFile, File, Text, Buf
    <3> QED BY <3>1, <3>2
  <2> QED BY <1>2, <2>1, <2>6, SameTexts
<1>14. ASSUME NEW r \in HeapRegions, Release(r) PROVE TextInv'
  <2>1. writer' = writer /\ UNCHANGED fileVars /\ next' = next
    BY <1>14 DEF Release
  <2>2. \A x \in Writers : (HasText(x)' <=> HasText(x)) /\ File(x)' = File(x) /\ Text(x)' = Text(x)
    BY <2>1 DEF HasText, Exists, ToFile, File, Text, Buf
  <2> QED BY <1>2, <2>1, <2>2, SameTexts
<1> QED BY <1>3, <1>5, <1>6, <1>7, <1>9, <1>10, <1>11, <1>12, <1>13, <1>14 DEF WriterStep

-----------------------------------------------------------------------------
(* Handles.                                                                *)

\* The handle of every writer with text keeps its descriptor, and that its file.
HandlesKept ==
  \A w \in Writers : HasText(w) => /\ handle'[File(w)] = handle[File(w)]
                                   /\ fds'[handle[File(w)]] = fds[handle[File(w)]]

LEMMA SameCarriers ==
  ASSUME TextInv, UNCHANGED writer, HandlesKept
  PROVE  /\ Addressed'
         /\ \A w \in Writers, p \in Paths : (Carries(w, p)' <=> Carries(w, p)) /\ Text(w)' = Text(w)
<1>1. \A w \in Writers : (HasText(w)' <=> HasText(w)) /\ File(w)' = File(w) /\ Text(w)' = Text(w)
  BY DEF HasText, Exists, ToFile, File, Text, Buf
<1>2. \A w \in Writers : HasText(w) => Destination(w)' = Destination(w)
  BY <1>1 DEF HandlesKept, Destination, PathOf
<1>3. Addressed'
  BY <1>1 DEF TextInv, Addressed, HandlesKept, Alive, Valid
<1> QED BY <1>1, <1>2, <1>3 DEF Carries

LEMMA HandlesKeepText ==
  ASSUME TextInv, UNCHANGED <<writer, next, content>>, HandlesKept
  PROVE  TextInv'
<1>1. /\ Addressed' /\ UNCHANGED <<disk, faults, owed, next>>
      /\ \A w \in Writers, p \in Paths : (Carries(w, p)' <=> Carries(w, p)) /\ Text(w)' = Text(w)
  BY SameCarriers DEF content
<1>2. FilesSound'
  BY <1>1 DEF TextInv, FilesSound
<1>3. \A p \in Paths : Tallied(p)'
  BY <1>1 DEF TextInv, Tallied
<1> QED BY <1>1, <1>2, <1>3 DEF TextInv

\* A handle of a writer with text, and its descriptor.
LEMMA CarryingHandle ==
  ASSUME TextInv, RegionInv, DescriptorInv, NEW w \in Writers, HasText(w)
  PROVE  /\ File(w) \in Handles /\ Alive(File(w)) /\ handle[File(w)] \in Fds
         /\ fds[handle[File(w)]] # Closed
         /\ OpenFds # Fds => handle[File(w)] # LowestFreeFd
         /\ \A h \in Handles : h # File(w) => handle[h] # handle[File(w)]
<1>1. File(w) \in Handles /\ Alive(File(w)) /\ Valid(File(w))
  BY WriterFacts DEF HasText, ToFile, TextInv, Addressed
<1>2. fds[handle[File(w)]] # Closed
  BY <1>1 DEF DescriptorInv, HandlesOwnDescriptors
<1>3. OpenFds # Fds => handle[File(w)] # LowestFreeFd
  BY <1>2, LowestFreeFdIsFree
<1>4. \A h \in Handles : h # File(w) => handle[h] # handle[File(w)]
  BY <1>1 DEF DescriptorInv, HandlesOwnDescriptors
<1> QED BY <1>1, <1>2, <1>3, <1>4 DEF Valid

LEMMA OpenKeepsText ==
  ASSUME TextInv, RegionInv, DescriptorInv, NEW h \in Handles, NEW p \in Paths, Open(h, p),
         UNCHANGED writerVars
  PROVE  TextInv'
<1>1. /\ ~Alive(h) /\ OpenFds # Fds /\ \A fd \in Fds : fds[fd] # p
      /\ fds' = [fds EXCEPT ![LowestFreeFd] = p] /\ handle' = [handle EXCEPT ![h] = LowestFreeFd]
      /\ disk' = [disk EXCEPT ![p] = <<>>] /\ owed' = [owed EXCEPT ![p] = <<>>]
      /\ UNCHANGED <<faults, writer, next>>
  BY DEF Open, writerVars
<1>2. HandlesKept
  BY <1>1, CarryingHandle DEF HandlesKept, DescriptorInv, DescriptorTypes
<1>3. /\ Addressed'
      /\ \A w \in Writers, q \in Paths : (Carries(w, q)' <=> Carries(w, q)) /\ Text(w)' = Text(w)
  BY <1>1, <1>2, SameCarriers
<1>4. \A w \in Writers : ~Carries(w, p)
  BY <1>1, CarryingHandle DEF Carries, Destination, PathOf
<1>5. <<>> \in Texts
  BY DEF Texts
<1>6. FilesSound'
  BY <1>1, <1>5, BytesOfFew DEF TextInv, FilesSound
<1>7. ASSUME NEW q \in Paths PROVE Tallied(q)'
  <2>1. Tallied(q) /\ disk \in [Paths -> Texts] /\ owed \in [Paths -> Texts]
    BY DEF TextInv, FilesSound
  <2>2. CASE q = p
    BY <2>1, <2>2, <1>1, <1>3, <1>4 DEF Tallied
  <2>3. CASE q # p
    <3>1. disk'[q] = disk[q] /\ owed'[q] = owed[q]
      BY <2>1, <2>3, <1>1
    <3> QED BY <2>1, <3>1, <1>3 DEF Tallied
  <2> QED BY <2>2, <2>3
<1> QED BY <1>3, <1>6, <1>7 DEF TextInv

LEMMA HandleStepKeepsText ==
  ASSUME TextInv, RegionInv, DescriptorInv, HandleStep, UNCHANGED writerVars
  PROVE  TextInv'
<1> USE DEF HandlesKept
<1>1. /\ UNCHANGED <<writer, next>>
      /\ fds \in [Fds -> Paths \cup {Closed}] /\ handle \in [Handles -> Fds \cup {Invalid, Gone}]
  BY DEF writerVars, DescriptorInv, DescriptorTypes
<1>2. ASSUME NEW h \in Handles, NEW p \in Paths, Open(h, p) PROVE TextInv'
  BY <1>2, OpenKeepsText
<1>3. ASSUME NEW h \in Handles, DefaultHandle(h) PROVE TextInv'
  <2>1. HandlesKept
    BY <1>1, <1>3, CarryingHandle DEF DefaultHandle
  <2> QED BY <1>1, <1>3, <2>1, HandlesKeepText DEF DefaultHandle
<1>4. ASSUME NEW h \in Handles, NEW g \in Handles, Settled(g), MoveHandle(h, g) PROVE TextInv'
  <2>1. HandlesKept
    BY <1>1, <1>4, CarryingHandle DEF MoveHandle, Settled
  <2> QED BY <1>1, <1>4, <2>1, HandlesKeepText DEF MoveHandle
<1>5. ASSUME NEW h \in Handles, NEW g \in Handles, Settled(g), Settled(h),
             AssignHandle(h, g) \/ SubstituteHandle(h, g)
      PROVE  TextInv'
  <2>1. HandlesKept
    BY <1>1, <1>5, CarryingHandle DEF AssignHandle, SubstituteHandle, Settled, ClosedIn
  <2> QED BY <1>1, <1>5, <2>1, HandlesKeepText DEF AssignHandle, SubstituteHandle
<1>6. ASSUME NEW h \in Handles, NEW g \in Handles, CopyHandle(h, g) PROVE TextInv'
  <2>1. HandlesKept
    BY <1>1, <1>6, CarryingHandle DEF CopyHandle
  <2> QED BY <1>1, <1>6, <2>1, HandlesKeepText DEF CopyHandle
<1>7. ASSUME NEW h \in Handles, Settled(h), CloseHandle(h) \/ DestroyHandle(h) PROVE TextInv'
  <2>1. HandlesKept
    BY <1>1, <1>7, CarryingHandle DEF CloseHandle, DestroyHandle, Settled, ClosedIn
  <2> QED BY <1>1, <1>7, <2>1, HandlesKeepText DEF CloseHandle, DestroyHandle
<1> QED BY <1>2, <1>3, <1>4, <1>5, <1>6, <1>7 DEF HandleStep

\* Straight to the handle, past every writer.
LEMMA DirectWriteKeepsText ==
  ASSUME TextInv, RegionInv, DescriptorInv, DirectWrite, UNCHANGED writer
  PROVE  TextInv'
<1>1. PICK h \in Handles, n \in Sizes :
        /\ Alive(h) /\ Valid(h) /\ next + n - 1 <= MaxBytes
        /\ \A w \in Writers : HasText(w) => Destination(w) # PathOf(h)
        /\ WriteHandle(h, NewBytes(n))
        /\ next' = next + n
  BY DEF DirectWrite
<1> DEFINE s == NewBytes(n)
<1>2. n \in Nat /\ PathOf(h) \in Paths
  BY <1>1, WriterAssumption DEF PathOf, DescriptorInv, DescriptorTypes, HandlesOwnDescriptors, Valid
<1>3. PICK p \in Paths : p = PathOf(h)
  BY <1>2
<1>4. PICK k \in Outcomes(<<s>>) : WritePieces(p, s, <<s>>, k)
  BY <1>1, <1>3 DEF WriteHandle
<1>5. UNCHANGED <<fds, handle>>
  BY <1>1 DEF WriteHandle
<1>6. /\ Addressed'
      /\ \A w \in Writers, q \in Paths : (Carries(w, q)' <=> Carries(w, q)) /\ Text(w)' = Text(w)
  BY <1>5, SameCarriers DEF HandlesKept
<1>7. \A w \in Writers : ~Carries(w, p)
  BY <1>1, <1>3 DEF Carries
<1>8. /\ disk[p] \in Texts /\ <<>> \in Texts /\ s \in Texts /\ FilesSound
      /\ owed[p] = disk[p]
  BY <1>1, <1>2, <1>7, NewBytesAreNew DEF TextInv, FilesSound, Tallied, Texts
<1>9. ASSUME NEW x \in Texts PROVE x \o <<>> = x /\ <<>> \o x = x
  BY ConcatEmptySeq, Zenon DEF Texts
<1>10. owed[p] = disk[p] \o <<>>
  BY <1>8, <1>9
<1> DEFINE plan == [pieces |-> <<s>>, buffer |-> [text |-> <<>>]]
<1>11. InOrder(plan, <<>> \o s) /\ plan.pieces = <<s>> /\ plan.buffer.text = <<>>
  <2>1. <<s>> \in Pieces(1 .. MaxBytes) /\ Joined(<<s>>) = s
    BY <1>8, JoinedOfOne DEF Texts
  <2>2. <<>> \o s = s \o <<>>
    BY <1>8, <1>9
  <2> HIDE DEF s
  <2> QED BY <2>1, <2>2, <1>8 DEF InOrder
<1> HIDE DEF plan
<1>12. OnlyWriter(h, p, <<>>)
  BY <1>6, <1>7 DEF OnlyWriter
<1> QED BY <1>1, <1>2, <1>4, <1>6, <1>8, <1>10, <1>11, <1>12, HandedOver

-----------------------------------------------------------------------------
(* The whole system.                                                       *)

LEMMA TextNext == TextInv /\ RegionInv /\ DescriptorInv /\ [Next]_vars => TextInv'
<1> SUFFICES ASSUME TextInv, RegionInv, DescriptorInv, [Next]_vars PROVE TextInv'
  OBVIOUS
<1>1. CASE HandleStep /\ UNCHANGED writerVars
  BY <1>1, HandleStepKeepsText
<1>2. CASE DirectWrite /\ UNCHANGED <<writer, heap, detached, ruined>>
  BY <1>2, DirectWriteKeepsText
<1>3. CASE WriterStep
  BY <1>3, WriteKeepsText, OtherWriterStepKeepsText
<1>4. CASE UNCHANGED vars
  <2>1. UNCHANGED <<writer, next, content>> /\ UNCHANGED <<fds, handle>>
    BY <1>4 DEF vars, content
  <2> QED BY <2>1, HandlesKeepText DEF HandlesKept
<1> QED BY <1>1, <1>2, <1>3, <1>4 DEF Next

\* The types of the whole module, and with them that no buffer or file holds
\* anything that was not written.
THEOREM WriterTypeTheorem == Spec => []TypeOK
<1>1. Init => TextInv /\ RegionInv /\ DescriptorInv
  BY TextInit, RegionInit, DescriptorInit
<1>2. TextInv /\ RegionInv /\ DescriptorInv /\ [Next]_vars => (TextInv /\ RegionInv /\ DescriptorInv)'
  BY TextNext, RegionNext, DescriptorNext
<1>3. TextInv /\ RegionInv /\ DescriptorInv => TypeOK
  <2> SUFFICES ASSUME TextInv, RegionInv, DescriptorInv PROVE TypeOK
    OBVIOUS
  <2>1. \A w \in Writers : OwnedBy(writer[w]) \subseteq HeapRegions
    BY OwnedAreRegions DEF RegionInv, SoundWriter
  <2>2. Held \subseteq HeapRegions
    BY <2>1, HeldMembers
  <2> QED BY <2>2 DEF TextInv, FilesSound, Texts, RegionInv, RegionTypes, Ownership,
                       DescriptorInv, DescriptorTypes, TypeOK
<1> QED BY <1>1, <1>2, <1>3, PTL DEF Spec

\* For any number of writers, handles and files, texts and buffers of every
\* size, and calls of ::write that fail after any part of a piece: what is in a
\* file and what its writer still holds is, in order, what was written for it.
THEOREM FileTheorem == Spec => []FileHoldsTheText
<1>1. Init => TextInv /\ RegionInv /\ DescriptorInv
  BY TextInit, RegionInit, DescriptorInit
<1>2. TextInv /\ RegionInv /\ DescriptorInv /\ [Next]_vars => (TextInv /\ RegionInv /\ DescriptorInv)'
  BY TextNext, RegionNext, DescriptorNext
<1>3. TextInv => FileHoldsTheText
  <2> SUFFICES ASSUME TextInv, NEW p \in Paths PROVE disk[p] \o OnItsWay(p) = owed[p]
    BY DEF FileHoldsTheText
  <2> DEFINE holding == {w \in Writers : HasText(w) /\ Alive(File(w)) /\ Valid(File(w)) /\ Destination(w) = p}
  <2>1. holding = {w \in Writers : Carries(w, p)}
    BY DEF TextInv, Addressed, Carries
  <2>2. Tallied(p) /\ disk[p] \in Texts
    BY DEF TextInv, FilesSound
  <2>3. CASE holding = {}
    <3>1. OnItsWay(p) = <<>> /\ owed[p] = disk[p]
      BY <2>1, <2>2, <2>3 DEF OnItsWay, Tallied
    <3> QED BY <2>2, <3>1, ConcatEmptySeq, Zenon DEF Texts
  <2>4. CASE holding # {}
    <3> DEFINE x == CHOOSE w \in holding : TRUE
    <3>1. x \in holding /\ OnItsWay(p) = Text(x)
      BY <2>4 DEF OnItsWay
    <3> HIDE DEF x
    <3> QED BY <2>1, <2>2, <3>1 DEF Tallied
  <2> QED BY <2>3, <2>4
<1> QED BY <1>1, <1>2, <1>3, PTL DEF Spec
=============================================================================
