----------------------------- MODULE MCVectors -----------------------------
(***************************************************************************)
(* Two vectors of up to four elements together, or two stack vectors, with *)
(* room for two elements in themselves, of up to three; two values.        *)
(* Growing begins with two elements, so that it happens more than once.    *)
(***************************************************************************)
EXTENDS Vectors, TLC

MCMaxElements == [s \in BOOLEAN |-> IF s THEN 3 ELSE 4]

\* A fresh block is in no variable, so that the one chosen does not matter.
Symmetry == Permutations(Objects) \cup Permutations(Blocks)
=============================================================================
