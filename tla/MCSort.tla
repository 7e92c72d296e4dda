------------------------------ MODULE MCSort ------------------------------
(***************************************************************************)
(* Arrays to sort: all small ones over a few values, and larger patterns.  *)
(***************************************************************************)
EXTENDS Sort

CONSTANTS SmallSize, SmallValues, PatternSizes

Small == [0 .. SmallSize - 1 -> 1 .. SmallValues]

\* Saws: ascending, descending and with teeth of every length, and the same
\* bent up and down like organ pipes.
Saw(n, k, m) == [i \in 0 .. n - 1 |-> (k * i) % m]
Pipe(n, k, m) == [i \in 0 .. n - 1 |-> (k * (IF 2 * i < n THEN i ELSE n - i)) % m]
Patterns == UNION {{Saw(n, k, m), Pipe(n, k, m)} : n \in PatternSizes, k \in 1 .. 12, m \in 2 .. 24}

\* An array, with the thresholds of the code, every partition of which is bad.
BadPivots ==
  LET s == <<0, 10, 11, 12, 13, 14, 15, 16, 17, 3, 18, 5, 7, 19, 9, 20,
             1, 2, 4, 6, 8, 21, 22, 23, 24, 25, 26, 27, 28, 29, 30, 31>>
  IN  [i \in 0 .. 31 |-> s[i + 1]]
BadPivotInputs == {BadPivots}

MCInputs == Small \cup Patterns
=============================================================================
