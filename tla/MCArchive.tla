----------------------------- MODULE MCArchive -----------------------------
(***************************************************************************)
(* Archives of a few lines, and files for textunpack_pack.                 *)
(***************************************************************************)
EXTENDS Archive

CONSTANTS MaxLines, MaxFileLines

Upto(n, S) == UNION {[1 .. m -> S] : m \in 0 .. n}

\* BEGIN and END of two entries, markers without a path, a mark that is no
\* marker, a marker that does not start its line, quoted markers and a quote.
Lines == {<<"mark", "begin", "a">>, <<"mark", "end", "a">>,
          <<"mark", "begin", "b">>, <<"mark", "end", "b">>,
          <<"mark", "end">>, <<"mark", "x">>, <<"x", "mark", "end", "a">>,
          <<"quote", "mark", "end", "a">>, <<"quote", "quote", "mark", "begin", "b">>,
          <<"quote", "x">>, <<>>}

MCArchives == Upto(MaxLines, Lines)

\* Files without markers and quoted markers: lines of a text file, the last
\* one without newline, so that <<<<>>>> is the empty file.
FileLines == {<<>>, <<"x">>, <<"quote">>, <<"mark", "x">>, <<"mark", "begin">>, <<"x", "mark", "end", "a">>}

FileContents == UNION {[1 .. m -> FileLines] : m \in 1 .. MaxFileLines}

MCPackings == {<<[path |-> <<"a">>, lines |-> c], [path |-> <<"b">>, lines |-> d]>> :
                 c, d \in FileContents}
=============================================================================
