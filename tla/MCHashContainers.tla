-------------------------- MODULE MCHashContainers --------------------------
(***************************************************************************)
(* Keys, and hash functions that let them collide in different ways.       *)
(***************************************************************************)
EXTENDS HashContainers

\* Lower and higher bits of the hashes of the keys in turn: all the same, two
\* homes that run into each other, with different higher bits, and homes at the
\* end of the buckets that are the same until these grow.
Low == <<<<0, 0, 0, 0, 0>>, <<1, 2, 1, 2, 1>>, <<3, 7, 3, 7, 0>>>>
High == <<<<0, 0, 0, 0, 0>>, <<1, 0, 0, 1, 0>>, <<0, 1, 1, 0, 0>>>>

MCKeys == 1 .. 5
MCHash(i) == [k \in MCKeys |-> [low |-> Low[i][k], high |-> High[i][k]]]
MCHashes == {MCHash(i) : i \in DOMAIN Low}
=============================================================================
