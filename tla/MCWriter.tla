------------------------------ MODULE MCWriter ------------------------------
(***************************************************************************)
(* Two writers, two handles and two files; buffers without room, with room *)
(* for one byte, and on an array of two; pieces of one and two bytes.      *)
(***************************************************************************)
EXTENDS Writer, TLC

\* A fresh region is in no other variable, so that the one that is chosen
\* does not matter.
Symmetry == Permutations(Paths) \cup Permutations(Handles) \cup Permutations(Writers)
              \cup Permutations(HeapRegions)
=============================================================================
