------------------------------ MODULE MCUnpack ------------------------------
(***************************************************************************)
(* Archives for textunpack_unpack: a clean tree of files, entries that     *)
(* share a path, and entries whose paths are in each other's way.          *)
(***************************************************************************)
EXTENDS Unpack

Archive(path, fragments) ==
  [path |-> path, fragments |-> fragments, too_long |-> {}, open_ended |-> {},
   exclusive |-> FALSE]

\* Three files in directories that two jobs may create at once, and two
\* entries whose paths are too long.  The pieces fit the buffer, fill it, or
\* are larger.
Tree == [Archive(<<<<"d", "s", "a">>, <<"d", "s", "b">>, <<"d", "c">>, <<"e">>, <<"f">>>>,
                 <<<<1, 1, 1>>, <<3>>, <<2, 1>>, <<1>>, <<1>>>>)
           EXCEPT !.too_long = {4, 5}, !.open_ended = {3}]

\* Three entries with one path ("Export the same file multiple times"), on a
\* system where a file being written is shared with nobody.
Same == [Archive(<<<<"a">>, <<"a">>, <<"a">>, <<"d", "b">>>>, <<<<1, 1, 1>>, <<3>>, <<2>>, <<1>>>>)
           EXCEPT !.exclusive = TRUE]

\* Two entries with one path where open() shares the file, which the one that
\* comes second empties while the other writes it.
Shared == Archive(<<<<"a">>, <<"a">>>>, <<<<1, 1, 2>>, <<3>>>>)

\* The file `a' of the first entry is the directory of the others.
InTheWay == Archive(<<<<"a">>, <<"a", "b">>, <<"a", "b", "c">>>>, <<<<1, 1>>, <<3>>, <<2, 1>>>>)

MCInputs == {Tree, Same, Shared, InTheWay}
InTheWayInputs == {InTheWay}
=============================================================================
