------------------------------- MODULE Archive -------------------------------
(***************************************************************************)
(* The archive format: how textunpack.cpp finds the entries of an archive  *)
(* and what it writes for each, and how textunpack_pack makes an archive.  *)
(*                                                                         *)
(* Text is a sequence of tokens, the units in which the scanner compares   *)
(* and skips: "nl" is a newline, "quote" is ', "mark" is #+EXPORT_,        *)
(* "begin" is `BEGIN ', "end" is `END ', "nul" the terminator that         *)
(* textunpack_main appends; every other token is ordinary text, also in    *)
(* paths.  Positions are 1-based, and 0 is nullptr.                        *)
(***************************************************************************)
EXTENDS Integers, Sequences

CONSTANTS
  Archives,   \* archives to read, each the sequence of its lines
  Packings    \* files to pack first: sequences of paths and contents

VARIABLES
  files,     \* the files that were packed, <<>> if the archive is from elsewhere
  lines,     \* the archive, line by line
  text,      \* the same as input_buffer holds it
  pc,
  entry,     \* entry_path_start
  from,      \* write_start
  export,    \* next_export
  out,       \* what was written for the entry so far
  unpacked   \* the entries unpacked so far: path, content, and whether it was
             \* reported as not terminated

vars == <<files, lines, text, pc, entry, from, export, out, unpacked>>

-----------------------------------------------------------------------------
(* Finding things                                                          *)

\* The first position from p on, if any, at which Test holds.
FirstFrom(p, Test(_)) ==
  LET found == {k \in p .. Len(text) : Test(k)}
  IN  IF found = {} THEN 0 ELSE CHOOSE k \in found : \A l \in found : k <= l

IsTerminator(k) == text[k] \in {"nl", "nul"}

PathEnd(p) == FirstFrom(p, IsTerminator)

PathAt(p) == SubSeq(text, p, PathEnd(p) - 1)

\* #+EXPORT_ at the start of a line.
IsExport(k) == k > 1 /\ text[k] = "mark" /\ text[k - 1] = "nl"

find_next_export(p) == FirstFrom(p, IsExport)

\* #+EXPORT_BEGIN or #+EXPORT_END with a path, at position k.
IsMarker(k, tokens) ==
  text[k] = "mark" /\ text[k + 1] \in tokens /\ ~IsTerminator(k + 2)

IsBeginLine(k) ==
  /\ k + 2 < Len(text)
  /\ text[k] = "nl" /\ IsMarker(k + 1, {"begin"})

tup_find_next_entry_path_start(p) ==
  LET k == FirstFrom(p, IsBeginLine) IN IF k = 0 THEN 0 ELSE k + 3

tup_find_first_entry_path_start ==
  IF Len(text) > 2 /\ IsMarker(1, {"begin"}) THEN 3
  ELSE tup_find_next_entry_path_start(1)

\* Mutant: every quote before a marker is stripped, not only the first.
StrippedAll(k) ==
  /\ text[k] = "quote"
  /\ \E m \in k + 1 .. Len(text) - 2 :
       (\A l \in k .. m - 1 : text[l] = "quote") /\ IsMarker(m, {"begin", "end"})

\* write_entry_fragment: the text from p up to and excluding q, without the
\* first quote of every run of quotes that stands before a marker with a path.
Stripped(k) ==
  /\ text[k] = "quote" /\ text[k - 1] # "quote"
  /\ \E m \in k + 1 .. Len(text) - 2 :
       (\A l \in k .. m - 1 : text[l] = "quote") /\ IsMarker(m, {"begin", "end"})

write_entry_fragment(p, q) ==
  LET kept[k \in p - 1 .. q - 1] ==
        IF k < p THEN <<>>
        ELSE IF Stripped(k) THEN kept[k - 1] ELSE Append(kept[k - 1], text[k])
  IN  kept[q - 1]

-----------------------------------------------------------------------------
(* textunpack_pack                                                         *)

\* The archive of some files, each a path and a content, as lines.  The content
\* is the sequence of its lines, at least one, of which the last has no newline.
Packed(packed) ==
  LET upto[n \in 0 .. Len(packed)] ==
        IF n = 0 THEN <<>>
        ELSE upto[n - 1] \o <<<<"mark", "begin">> \o packed[n].path>>
             \o packed[n].lines \o <<<<"mark", "end">> \o packed[n].path>>
  IN  upto[Len(packed)]

-----------------------------------------------------------------------------
(* textunpack_dry_run, textunpack_list_entries and the jobs of             *)
(* textunpack_unpack all do this to the entries they find.                 *)

TextOf(ls) ==
  LET upto[n \in 0 .. Len(ls)] ==
        IF n = 0 THEN <<>> ELSE upto[n - 1] \o ls[n] \o <<"nl">>
  IN  Append(upto[Len(ls)], "nul")

Init ==
  /\ \/ files = <<>> /\ lines \in Archives
     \/ files \in Packings /\ lines = Packed(files)
  /\ text = TextOf(lines)
  /\ pc = "first"
  /\ entry = 0 /\ from = 0 /\ export = 0
  /\ out = <<>> /\ unpacked = <<>>

\* tup_unpack_entry is called for the entry whose path starts at p, if any.
Enter(p) ==
  /\ entry' = p
  /\ out' = <<>>
  /\ IF p = 0
     THEN /\ pc' = "halt"
          /\ UNCHANGED <<from, export>>
     ELSE /\ pc' = "unpack"
          /\ from' = PathEnd(p) + 1
          /\ export' = find_next_export(PathEnd(p) + 1)

FirstEntry ==
  /\ pc = "first"
  /\ Enter(tup_find_first_entry_path_start)
  /\ UNCHANGED <<files, lines, text, unpacked>>

\* Mutant: the search goes on behind the entry, not inside it.
NextEntryBehind ==
  /\ pc = "next"
  /\ Enter(tup_find_next_entry_path_start(from))
  /\ UNCHANGED <<files, lines, text, unpacked>>

NextEntry ==
  /\ pc = "next"
  /\ Enter(tup_find_next_entry_path_start(entry))
  /\ UNCHANGED <<files, lines, text, unpacked>>

Finished(content, terminated) ==
  /\ unpacked' = Append(unpacked, [path |-> PathAt(entry), content |-> content,
                                   terminated |-> terminated])
  /\ pc' = "next"
  /\ UNCHANGED <<files, lines, text, entry, from, export, out>>

\* There is no marker any more: all the rest, up to archive_end, as it is.
NotTerminated ==
  /\ pc = "unpack" /\ export = 0
  /\ Finished(out \o SubSeq(text, from, Len(text)), FALSE)

AtMarker == pc = "unpack" /\ export # 0 /\ IsMarker(export, {"begin", "end"})

EndsEntry == text[export + 1] = "end" /\ PathAt(export + 2) = PathAt(entry)

Piece(q) == IF from < export THEN write_entry_fragment(from, q) ELSE <<>>

\* Mutant: the search starts again at the mark it has found.
SkipNothing ==
  /\ pc = "unpack" /\ export # 0
  /\ ~IsMarker(export, {"begin", "end"})
  /\ export' = find_next_export(export)
  /\ UNCHANGED <<files, lines, text, pc, entry, from, out, unpacked>>

\* #+EXPORT_ that is neither BEGIN nor END, or has no path: ordinary text.
SkipExport ==
  /\ pc = "unpack" /\ export # 0
  /\ ~IsMarker(export, {"begin", "end"})
  /\ export' = find_next_export(export + 1)
  /\ UNCHANGED <<files, lines, text, pc, entry, from, out, unpacked>>

\* Mutant: the newline before END is part of the entry.
EndEntryKeepsNewline ==
  /\ AtMarker /\ EndsEntry
  /\ Finished(out \o Piece(export), TRUE)

\* The END of this entry: the newline before it is not part of the entry.
EndEntry ==
  /\ AtMarker /\ EndsEntry
  /\ Finished(out \o Piece(export - 1), TRUE)

\* A marker of another entry, or a BEGIN of this one: its line is left out.
SkipMarker ==
  /\ AtMarker /\ ~EndsEntry
  /\ LET e == PathEnd(export + 2)
         start == IF text[e] = "nl" THEN e + 1 ELSE e
     IN  /\ out' = out \o Piece(export)
         /\ from' = start
         /\ export' = find_next_export(start)
  /\ UNCHANGED <<files, lines, text, pc, entry, unpacked>>

Next ==
  FirstEntry \/ NextEntry \/ NotTerminated \/ SkipExport \/ EndEntry \/ SkipMarker

Spec == Init /\ [][Next]_vars

\* The scanner is sequential code: it runs until it returns.
FairSpec == Spec /\ WF_vars(Next)

-----------------------------------------------------------------------------
(* What the format means, line by line.                                    *)

MarkerLine(l, tokens) == Len(l) > 2 /\ l[1] = "mark" /\ l[2] \in tokens

PathOf(l) == SubSeq(l, 3, Len(l))

\* The lines that start an entry, in order.
BeginLines ==
  LET upto[n \in 0 .. Len(lines)] ==
        IF n = 0 THEN <<>>
        ELSE IF MarkerLine(lines[n], {"begin"}) THEN Append(upto[n - 1], n) ELSE upto[n - 1]
  IN  upto[Len(lines)]

\* The line that ends the entry that starts at line b; 0 if there is none.
EndLine(b) ==
  LET ends == {n \in b + 1 .. Len(lines) :
                 MarkerLine(lines[n], {"end"}) /\ PathOf(lines[n]) = PathOf(lines[b])}
  IN  IF ends = {} THEN 0 ELSE CHOOSE n \in ends : \A m \in ends : n <= m

\* A line as it is meant: without the quote that protects a marker.
Unquoted(l) ==
  LET quotes == {n \in 1 .. Len(l) : \A k \in 1 .. n : l[k] = "quote"}
      markers == {n \in quotes : MarkerLine(SubSeq(l, n + 1, Len(l)), {"begin", "end"})}
  IN  IF markers = {} THEN l ELSE Tail(l)

\* The content of the entry that starts at line b: its lines without the markers,
\* unquoted up to the last marker before the end, and without the newline
\* before its END line, if that newline ends a line of its own.
Meaning(b) ==
  LET e == EndLine(b)
      last == IF e = 0 THEN Len(lines) ELSE e - 1
      IsMark(n) == MarkerLine(lines[n], {"begin", "end"})
      Line(n) == IF IsMark(n) THEN <<>>
                 ELSE (IF e # 0 \/ \E m \in n .. last : IsMark(m)
                       THEN Unquoted(lines[n]) ELSE lines[n])
                      \o (IF n = last /\ e # 0 THEN <<>> ELSE <<"nl">>)
      upto[n \in b .. last] == IF n = b THEN <<>> ELSE upto[n - 1] \o Line(n)
  IN  upto[last]

-----------------------------------------------------------------------------
(* Properties                                                              *)

NoNul(s) == SelectSeq(s, LAMBDA t : t # "nul")

\* The entries found are the BEGIN lines with a path, all of them and in order,
\* whatever stands between them and however they are nested.
FindsEveryEntry ==
  pc = "halt" =>
    /\ Len(unpacked) = Len(BeginLines)
    /\ \A i \in DOMAIN unpacked : unpacked[i].path = PathOf(lines[BeginLines[i]])

\* Each entry is unpacked to what its lines mean (the terminator apart): nested
\* and overlapping entries, quoted markers, marks that are none; and it is
\* reported as not terminated exactly when it has no END line.
UnpacksMeaning ==
  \A i \in DOMAIN unpacked :
    /\ NoNul(unpacked[i].content) = Meaning(BeginLines[i])
    /\ unpacked[i].terminated <=> EndLine(BeginLines[i]) # 0

\* The content of a packed file.
Bytes(content) ==
  LET upto[n \in 1 .. Len(content)] ==
        IF n = 1 THEN content[1] ELSE upto[n - 1] \o <<"nl">> \o content[n]
  IN  upto[Len(content)]

\* textunpack --pack and textunpack are inverse to each other: every file comes
\* back under its path, byte by byte, if no line of it looks like a marker.
PackRoundTrip ==
  pc = "halt" /\ files # <<>> =>
    unpacked = [i \in DOMAIN files |-> [path |-> files[i].path, content |-> Bytes(files[i].lines),
                                        terminated |-> TRUE]]

\* The scan comes to an end.
Halts == <>(pc = "halt")
=============================================================================
