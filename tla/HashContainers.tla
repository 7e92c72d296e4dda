--------------------------- MODULE HashContainers ---------------------------
(***************************************************************************)
(* ix_HashMapSingleArray and ix_HashSet: robin hood hashing over an array  *)
(* of buckets, which name the pairs or keys of a second array by index.    *)
(* The same calls are made on a map and on a set.  A bucket holds, in one  *)
(* number, its displacement from the home of its key, counted from one and *)
(* saturating, above the higher bits of the hash; 0 is an empty bucket.    *)
(* The index that an emptied bucket keeps is never read: it is left out.   *)
(***************************************************************************)
EXTENDS Integers, Sequences, FiniteSets, TLC

CONSTANTS
  Keys, Values,
  Hashes,             \* hash functions: the lower and the higher bits of each key
  HIGHER,             \* 2 ^ HIGHER_HASH_LENGTH
  MAX_DISP,           \* 2 ^ DISP_LENGTH - 1
  INITIAL_LENGTH,
  Reservations        \* the arguments of reserve

ASSUME HashAssumption ==
  /\ HIGHER \in Nat \ {0} /\ MAX_DISP \in Nat \ {0, 1}
  /\ \E i \in 2 .. 10 : INITIAL_LENGTH = 2 ^ i
  /\ Reservations \subseteq Nat
  /\ \A h \in Hashes, k \in Keys : h[k].low \in Nat /\ h[k].high \in 0 .. HIGHER - 1

VARIABLES
  hash,
  kv_pairs, buckets,    \* the map
  keys, set_buckets,    \* the set
  dict,                 \* history: what a dictionary holds after the same calls
  lossy                 \* history: a saturated displacement has misled the code

vars == <<hash, kv_pairs, buckets, keys, set_buckets, dict, lossy>>

-----------------------------------------------------------------------------
(* Buckets                                                                 *)

NumBuckets(b) == Cardinality(DOMAIN b)
capacity(b) == (NumBuckets(b) * 8) \div 10
Empty == [disp_and_higher_hash |-> 0, index |-> 0]
Least(S) == CHOOSE i \in S : \A j \in S : i <= j

increment_disp(d) == IF d + HIGHER < (MAX_DISP + 1) * HIGHER THEN d + HIGHER ELSE d

Wrap(b, i) == i % NumBuckets(b)
Home(b, k) == Wrap(b, hash[k].low)

\* disp_and_higher_hash of k on its way, incremented at every step from its home.
Probe(b, k) ==
  [i \in 0 .. NumBuckets(b) |->
    (IF i < MAX_DISP THEN i + 1 ELSE MAX_DISP) * HIGHER + hash[k].high]

\* Mutant: a key of the same displacement and higher bits ends the search.
PassedEarly(b, k, i) == Probe(b, k)[i] >= b[Wrap(b, Home(b, k) + i)].disp_and_higher_hash

\* Whether a search for k among the keys ks finds it after i steps, has passed
\* the place where it would be, and after how many steps it may stop.
IsKey(b, ks, k, i) ==
  LET bucket == b[Wrap(b, Home(b, k) + i)]
  IN  bucket.disp_and_higher_hash = Probe(b, k)[i] /\ ks[bucket.index + 1] = k
Passed(b, k, i) == Probe(b, k)[i] > b[Wrap(b, Home(b, k) + i)].disp_and_higher_hash
Stops(b, ks, k) == {i \in DOMAIN b : Passed(b, k, i) \/ IsKey(b, ks, k, i)}

find_bucket_kernel(b, ks, k) ==
  LET i == Least(Stops(b, ks, k))
  IN  [found |-> IsKey(b, ks, k, i), at |-> Wrap(b, Home(b, k) + i),
       disp_and_higher_hash |-> Probe(b, k)[i]]

Contains(b, ks, k) == ks # <<>> /\ find_bucket_kernel(b, ks, k).found

\* The buckets from `at' to the next empty one make room.
emplace_bucket(b, at, bucket) ==
  LET room == Least({i \in DOMAIN b : b[Wrap(b, at + i)] = Empty})
      Moved(i) == LET from == b[Wrap(b, at + i - 1)]
                  IN  [from EXCEPT !.disp_and_higher_hash = increment_disp(@)]
  IN  [p \in DOMAIN b |->
        LET i == Wrap(b, p - at) IN IF i = 0 THEN bucket ELSE IF i <= room THEN Moved(i) ELSE b[p]]

rehash(ks, n) ==
  LET none == [p \in 0 .. n - 1 |-> Empty]
      upto[j \in 0 .. Len(ks)] ==
        IF j = 0 THEN none
        ELSE LET b == upto[j - 1]
                 k == ks[j]
                 i == Least({step \in DOMAIN b : Passed(b, k, step)})
             IN  emplace_bucket(b, Wrap(b, Home(b, k) + i),
                                [disp_and_higher_hash |-> Probe(b, k)[i], index |-> j - 1])
  IN  upto[Len(ks)]

\* emplace rehashes when the load is at its limit.
grown(b, ks) ==
  IF Len(ks) >= capacity(b)
  THEN LET n == 2 * NumBuckets(b) IN rehash(ks, IF n < INITIAL_LENGTH THEN INITIAL_LENGTH ELSE n)
  ELSE b

\* How many buckets from `at' on move back into the hole that erase makes.
HoleEnd(b, at) ==
  Least({i \in 1 .. NumBuckets(b) : b[Wrap(b, at + i)].disp_and_higher_hash < 2 * HIGHER}) - 1

MovedBack(b, at) ==
  LET end == HoleEnd(b, at)
  IN  [p \in DOMAIN b |->
        LET i == Wrap(b, p - at)
        IN  IF i < end THEN [b[Wrap(b, p + 1)] EXCEPT !.disp_and_higher_hash = @ - HIGHER]
            ELSE IF i = end THEN Empty ELSE b[p]]

\* The bucket is farther from the home of its key than its displacement says.
Saturated(b, ks, p) ==
  b[p] # Empty /\ Wrap(b, p - Home(b, ks[b[p].index + 1])) >= MAX_DISP

\* erase: the last key takes the index of the erased one.
erase(b, ks, k) ==
  LET at == find_bucket_kernel(b, ks, k).at
      index == b[at].index
      last_index == Len(ks) - 1
      moved == MovedBack(b, at)
      last == find_bucket_kernel(moved, ks, ks[last_index + 1])
  IN  [index |-> index,
       null |-> index # last_index /\ ~last.found,
       loses |-> \E i \in 1 .. HoleEnd(b, at) : Saturated(b, ks, Wrap(b, at + i)),
       buckets |-> IF index = last_index THEN moved ELSE [moved EXCEPT ![last.at].index = index]]

\* The elements when the one at an index is replaced by the last.
Filled(elements, index) ==
  SubSeq([elements EXCEPT ![index + 1] = elements[Len(elements)]], 1, Len(elements) - 1)

-----------------------------------------------------------------------------
(* The map and the set                                                     *)

MapKeys == [i \in DOMAIN kv_pairs |-> kv_pairs[i].key]

Init ==
  /\ hash \in Hashes
  /\ kv_pairs = <<>> /\ keys = <<>>
  /\ buckets = << >> /\ set_buckets = << >>
  /\ dict = << >>
  /\ lossy = FALSE

\* Mutant: a key that is there keeps its value.
unassigned(pairs, index, v) == pairs

assigned(pairs, index, v) == [pairs EXCEPT ![index + 1].value = v]

\* The map looks for the key before it is entered.
MapEmplace(k, v) ==
  LET b == grown(buckets, MapKeys)
      f == find_bucket_kernel(b, MapKeys, k)
  IN  IF f.found
      THEN kv_pairs' = assigned(kv_pairs, b[f.at].index, v) /\ buckets' = b
      ELSE /\ kv_pairs' = Append(kv_pairs, [key |-> k, value |-> v])
           /\ buckets' = emplace_bucket(b, f.at,
                           [disp_and_higher_hash |-> f.disp_and_higher_hash, index |-> Len(kv_pairs)])

popped(ks) == SubSeq(ks, 1, Len(ks) - 1)

\* The set enters the key, looks for it, and takes it back if there was one.
SetEmplace(k) ==
  LET b == grown(set_buckets, keys)
      ks == Append(keys, k)
      f == find_bucket_kernel(b, ks, k)
  IN  IF f.found
      THEN keys' = popped(ks) /\ set_buckets' = b
      ELSE /\ keys' = ks
           /\ set_buckets' = emplace_bucket(b, f.at,
                               [disp_and_higher_hash |-> f.disp_and_higher_hash, index |-> Len(keys)])

\* Saturated displacements do no harm as long as all keys have one hash, and
\* none is erased.  What the code does after they have is not followed.
OneHash == \A k, l \in Keys : hash[k] = hash[l]
Misleading(b, ks) == ~OneHash /\ \E p \in DOMAIN b : Saturated(b, ks, p)

Emplace(k, v) ==
  /\ ~lossy
  /\ MapEmplace(k, v) /\ SetEmplace(k)
  /\ lossy' = Misleading(buckets', MapKeys')
  /\ dict' = (k :> v) @@ dict
  /\ UNCHANGED hash

MapErase(k) ==
  LET e == erase(buckets, MapKeys, k)
  IN  IF Contains(buckets, MapKeys, k) /\ ~e.null
      THEN kv_pairs' = Filled(kv_pairs, e.index) /\ buckets' = e.buckets
      ELSE UNCHANGED <<kv_pairs, buckets>>

SetErase(k) ==
  LET e == erase(set_buckets, keys, k)
  IN  IF Contains(set_buckets, keys, k) /\ ~e.null
      THEN keys' = Filled(keys, e.index) /\ set_buckets' = e.buckets
      ELSE UNCHANGED <<keys, set_buckets>>

Erase(k) ==
  /\ ~lossy
  /\ MapErase(k) /\ SetErase(k)
  /\ lossy' = (Contains(buckets, MapKeys, k) /\ erase(buckets, MapKeys, k).loses)
  /\ dict' = [x \in DOMAIN dict \ {k} |-> dict[x]]
  /\ UNCHANGED hash

\* Enough buckets for n elements; fewer than there are make rehash spin.
Reserve(n) ==
  LET minimum == ((n * 10) \div 8) + 1
      size == CHOOSE s \in {2 ^ i : i \in 0 .. minimum} : s >= minimum /\ s < 2 * minimum
      m == IF size < INITIAL_LENGTH THEN INITIAL_LENGTH ELSE size
  IN  /\ ~lossy /\ n >= Len(kv_pairs)
      /\ buckets' = rehash(MapKeys, m) /\ set_buckets' = rehash(keys, m)
      /\ lossy' = Misleading(buckets', MapKeys)
      /\ UNCHANGED <<hash, kv_pairs, keys, dict>>

\* The set clears its buckets also when it is empty, which they are then.
Clear ==
  /\ ~lossy /\ kv_pairs # <<>>
  /\ kv_pairs' = <<>> /\ keys' = <<>>
  /\ buckets' = [p \in DOMAIN buckets |-> Empty]
  /\ set_buckets' = [p \in DOMAIN set_buckets |-> Empty]
  /\ dict' = << >>
  /\ UNCHANGED <<hash, lossy>>

Next ==
  \/ \E k \in Keys, v \in Values : Emplace(k, v)
  \/ \E k \in Keys : Erase(k)
  \/ \E n \in Reservations : Reserve(n)
  \/ Clear

Spec == Init /\ [][Next]_vars

-----------------------------------------------------------------------------
(* Properties                                                              *)

\* Whatever calls were made, and as long as no saturated displacement has misled
\* the code, the map holds each key of the dictionary once, with its value: erase
\* moves the last pair into the hole as a whole.  After the same
\* calls the set holds the keys of the map in their order, although one enters a
\* key before the search and the other after it.
HoldsTheDictionary ==
  ~lossy => /\ Len(kv_pairs) = Cardinality(DOMAIN dict)
            /\ \A k \in DOMAIN dict : \E i \in DOMAIN kv_pairs :
                 kv_pairs[i] = [key |-> k, value |-> dict[k]]
            /\ keys = MapKeys /\ set_buckets = buckets

FindsExactly(b, ks) ==
  ks # <<>> =>
    \A k \in Keys :
      LET stops == Stops(b, ks, k)
      IN  /\ stops # {}
          /\ IsKey(b, ks, k, Least(stops)) <=> k \in DOMAIN dict

\* Every search comes to an end, and finds the keys that are there and no
\* others, however long the way of a key is and whatever was moved to make room
\* or to fill a hole, up to an erase that shortens a saturated displacement.
EveryKeyIsFound ==
  ~lossy => FindsExactly(buckets, MapKeys) /\ FindsExactly(set_buckets, keys)
=============================================================================
