----------------------------- MODULE MCProgram -----------------------------
(***************************************************************************)
(* Every command line of up to four arguments from sixteen words.  Sizes   *)
(* are scaled down: a buffer begins with two bytes, reading with one when  *)
(* the size is not known, the limit of memory is 40, the largest offset 63 *)
(* (what lseek says of some directories).  Files are up to three bytes     *)
(* long, and said to be of size 0, 1 or 3; one is written to meanwhile.    *)
(***************************************************************************)
EXTENDS Program

MCWords == {"-h", "-W", "--pack", "p", "-o", "-d", "-s", "-l", "--unpack", "-n", "--num-threads", "--dry-run", "0", "2", "3", "a"}
MCNumerals == {"0", "2", "3"}
MCValueOf == [w \in MCNumerals |-> CASE w = "0" -> 0 [] w = "2" -> 2 [] w = "3" -> 3]

Source(kind, size, length, more) ==
  [kind |-> kind, size |-> size, text |-> [i \in 1 .. length |-> Byte(i)], at |-> 0, more |-> more]

Directory == Source("unreadable", TopBit - 1, 0, FALSE)

MCSources ==
  {Source("file", size, length, FALSE) : size \in {0, 1, 3}, length \in 0 .. 3}
    \cup {Source("file", 1, 1, TRUE), Source("file", 3, 3, TRUE), Directory}

MCStdins ==
  {Source("pipe", Unknown, 0, TRUE), Source("file", 2, 2, FALSE),
   Source("unreadable", Unknown, 0, FALSE)}
=============================================================================
