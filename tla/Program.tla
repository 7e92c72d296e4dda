------------------------------ MODULE Program ------------------------------
(***************************************************************************)
(* textunpack_main: from the command line over the files that are read to  *)
(* the exit status.  What the files and the standard input are is found    *)
(* out as the program opens, measures and reads them, while others write   *)
(* to them: a pipe is fed and closed by its other end, a file may be       *)
(* longer or shorter than lseek has said, and a call of ::read gives any   *)
(* part of what is there.  What unpacking does with the text is the        *)
(* subject of Archive and Unpack; here only the number of its failures     *)
(* matters.                                                                *)
(***************************************************************************)
EXTENDS CommandLine, Buffer, FiniteSets

CONSTANTS
  Words,             \* what stands on command lines
  MaxArgs,           \* bound: arguments
  Sources,           \* what opening a file may find
  Stdins,            \* what the standard input may be
  MaxFed,            \* bound: length of a text that others write to
  InitialCapacity,   \* 4096
  DefaultReadSize,   \* 1024
  MemoryLimit,       \* ix_MEMORY_LIMIT
  StatusRange,       \* 256: what the system keeps of the value main returns
  MaxFailed          \* bound: entries that cannot be unpacked

CommandLines ==
  {<<>>} \cup UNION {{<<"textunpack">> \o w : w \in [1 .. n - 1 -> Words]} : n \in 1 .. MaxArgs}

Region == "region"
Unknown == SizeMax   \* lseek fails

Byte(i) == <<"byte", i>>

ASSUME BoundsAssumption == MaxArgs \in Nat /\ MaxFed \in Nat /\ MaxFailed \in Nat

\* What is found has not been read yet; lseek returns an off_t.
ASSUME SourcesAssumption ==
  Sources \cup Stdins \subseteq
    [kind : {"file", "pipe", "unreadable"}, size : (0 .. TopBit - 1) \cup {Unknown},
     text : Seq({Byte(i) : i \in 1 .. MaxFed}), at : {0}, more : BOOLEAN]

ASSUME SizesAssumption ==
  /\ InitialCapacity \in Nat /\ DefaultReadSize \in Nat \ {0}
  /\ MemoryLimit \in Nat /\ MemoryLimit < TopBit
  /\ StatusRange \in Nat \ {0, 1}

VARIABLES
  pc,
  argv,      \* the command line, until it has been looked at
  choice,    \* what textunpack_main makes of it
  index,     \* pack: the file that is being read
  buffer,    \* the archive that is packed, or that is read
  before,    \* ghost: the text of the buffer before the file being read
  source,    \* the file being read: its size, its text, what was read of it
  want, got, \* of the current call of read: length asked for, length so far
  written,   \* what reached the standard output or the file named with -o
  messages,  \* how many were handed to the standard error
  failed,    \* entries that the jobs have counted as failed
  status

vars == <<pc, argv, choice, index, buffer, before, source, want, got, written, messages, failed, status>>

loading == <<index, buffer, before, source, want, got>>

\* kind: "file", "pipe", or "unreadable" (a directory, a closed descriptor)
NoSource == [kind |-> "none", size |-> 0, text |-> <<>>, at |-> 0, more |-> FALSE]

Init ==
  /\ pc = "main"
  /\ argv \in CommandLines
  /\ choice = Decide(argv)
  /\ index = 0 /\ buffer = EmptyBuffer /\ before = <<>>
  /\ source = NoSource /\ want = 0 /\ got = 0
  /\ written = <<>> /\ messages = 0 /\ failed = 0 /\ status = 0

Exit(n) == pc' = "exited" /\ status' = n % StatusRange
GoOn(to) == pc' = to /\ UNCHANGED status

\* Messages about what was found while working go through g.stderr_handle,
\* which -W turns off; textunpack_main writes its own to stderr_handle.
Tell(n) == messages' = messages + (IF choice.quiet THEN 0 ELSE n)
TellAnyway == messages' = messages + 1

\* ix_FileHandle::write: when ::write fails, the rest is dropped in silence.
Write(s) == \E k \in 0 .. Len(s) : written' = SubSeq(s, 1, k)

Packing == choice.mode = "pack"
File == choice.files[index]
Begin(f) == <<"EXPORT_BEGIN", f>>
End(f) == <<"EXPORT_END", f>>
Nul == <<"nul">>

PushText(b, s) == PushString(b, s, Region)

\* ix_malloc and ix_realloc stop the program above their limit.
GoOnWith(b, to) == buffer' = b /\ GoOn(IF b.m_capacity > MemoryLimit THEN "aborted" ELSE to)

-----------------------------------------------------------------------------
(* The command line.                                                       *)

\* From here on a file is known by its place among the files.
Settled == [choice EXCEPT !.files = [i \in DOMAIN @ |-> i],
                          !.output = IF @ = NoWord THEN NoWord ELSE "output"]

\* Everything up to the first file.
Main ==
  /\ pc = "main"
  /\ choice' = Settled /\ argv' = <<>>
  /\ CASE choice.mode = "refuse" -> Exit(1) /\ TellAnyway /\ UNCHANGED <<loading, written>>
       [] choice.mode = "help" -> Exit(0) /\ Write(<<"HELP_TEXT">>) /\ UNCHANGED <<loading, messages>>
       [] OTHER -> /\ buffer' = NewBuffer(InitialCapacity, Region)
                   /\ index' = 1
                   /\ IF choice.from_stdin THEN GoOn("measure") /\ source' \in Stdins
                      ELSE GoOn("open") /\ UNCHANGED source
                   /\ UNCHANGED <<before, want, got, written, messages>>
  /\ UNCHANGED failed

-----------------------------------------------------------------------------
(* Opening and reading a file: ix_Buffer::load_file_handle.                *)

\* pack writes the header of an entry before it opens the file.
Opening == IF Packing THEN PushText(buffer, <<Begin(File)>>) ELSE buffer

Open ==
  /\ pc = "open"
  /\ source' \in Sources
  /\ GoOnWith(Opening, "measure")
  /\ UNCHANGED <<argv, choice, index, before, want, got, written, messages, failed>>

OpenFails ==
  /\ pc = "open" /\ Opening.m_capacity <= MemoryLimit
  /\ Exit(1)
  /\ IF Packing THEN Tell(1) ELSE TellAnyway
  /\ UNCHANGED <<argv, choice, loading, written, failed>>

\* ensure(read_size)
EnsureRead(b, n) ==
  /\ want' = n /\ got' = 0
  /\ GoOnWith(Reserve(b, Len(b.text) + n, Region), "read")

\* Mutant: a file that says it is empty is not read.
FirstReadSizeAsTold(b, size) == IF size # Unknown THEN size ELSE Larger(b.m_capacity - Len(b.text), DefaultReadSize)

\* Mutant: the answer is not looked at when lseek has failed.
FirstReadSizeUnchecked(b, size) == IF size # 0 THEN size ELSE Larger(b.m_capacity - Len(b.text), DefaultReadSize)

FirstReadSize(b, size) ==
  IF size # Unknown /\ size # 0 THEN size
  ELSE Larger(b.m_capacity - Len(b.text), DefaultReadSize)

Measure ==
  /\ pc = "measure"
  /\ before' = buffer.text
  /\ EnsureRead(buffer, FirstReadSize(buffer, source.size))
  /\ UNCHANGED <<argv, choice, index, source, written, messages, failed>>

\* One ::read that gives n bytes.
ReadSome ==
  /\ pc = "read" /\ got < want /\ source.kind # "unreadable"
  /\ \E n \in 1 .. want - got :
       /\ source.at + n <= Len(source.text)
       /\ source' = [source EXCEPT !.at = @ + n]
       /\ got' = got + n
  /\ UNCHANGED <<pc, argv, choice, index, buffer, before, want, written, messages, failed, status>>

\* A pipe is at its end when the other end is closed, a file whenever there
\* is nothing more.
AtEnd == /\ source.kind # "unreadable" /\ source.at = Len(source.text)
         /\ source.kind = "pipe" => ~source.more

\* Mutant: read goes on at the end of the file.
ReadReturnsFull == pc = "read" /\ got = want

ReadReturns == pc = "read" /\ (got = want \/ AtEnd)

JustRead == SubSeq(source.text, source.at - got + 1, source.at)

\* Mutant: the buffer is only made larger when the size to read is doubled.
EnsureDoubled(b, n) ==
  /\ want' = n /\ got' = 0
  /\ buffer' = IF got = want THEN Reserve(b, Len(b.text) + n, Region) ELSE b
  /\ GoOn("read")

EnsureNext(b, n) == EnsureRead(b, n)

\* read has returned something: around again, for twice as much when it has
\* given all that was asked for.
ReadOn ==
  /\ ReadReturns /\ got # 0
  /\ EnsureNext([buffer EXCEPT !.text = @ \o JustRead], IF got = want THEN 2 * want ELSE want)
  /\ UNCHANGED <<argv, choice, index, before, source, written, messages, failed>>

\* read has returned 0.  pack goes on with the next file, or writes; a NUL
\* ends an archive.
Loaded ==
  /\ ReadReturns /\ got = 0
  /\ IF ~Packing
     THEN /\ GoOnWith(PushCharRepeat(buffer, <<Nul>>, Region), "run")
          /\ UNCHANGED index
     ELSE LET last == index = Len(choice.files)
          IN  /\ GoOnWith(PushText(buffer, <<End(File)>>), IF last THEN "write" ELSE "open")
              /\ index' = IF last THEN index ELSE index + 1
  /\ UNCHANGED <<argv, choice, before, source, want, got, written, messages, failed>>

\* Mutant: the early return forgets the message.
ReadFailsSilently ==
  /\ pc = "read" /\ got < want
  /\ Exit(1) /\ UNCHANGED messages
  /\ UNCHANGED <<argv, choice, loading, written, failed>>

\* ::read fails, at any time.
ReadFails ==
  /\ pc = "read" /\ got < want
  /\ Exit(1)
  /\ IF Packing THEN Tell(1) ELSE TellAnyway
  /\ UNCHANGED <<argv, choice, loading, written, failed>>

-----------------------------------------------------------------------------
(* The end of packing, and what is done with an archive.                   *)

\* The status is 0 even when not all could be written.
PackWrites ==
  /\ pc = "write"
  /\ Write(buffer.text)
  /\ Exit(0)
  /\ UNCHANGED <<argv, choice, loading, messages, failed>>

OutputCannotBeOpened ==
  /\ pc = "write" /\ choice.output # NoWord
  /\ Exit(1) /\ Tell(1)
  /\ UNCHANGED <<argv, choice, loading, written, failed>>

\* Mutant: what the jobs have counted is not returned.
RunUnpackForgets ==
  /\ pc = "run" /\ choice.mode = "unpack" /\ choice.threads # 0
  /\ \E n \in 0 .. MaxFailed : failed' = n /\ Exit(0) /\ Tell(n)
  /\ UNCHANGED <<argv, choice, loading, written>>

\* The value of main is the number of entries that the jobs have counted as
\* failed -- those that are lost without being counted are the subject of
\* Unpack --, and the system keeps its low bits.  ix_ThreadPool reserves threads - 1 places, and
\* ix_malloc stops the program when that is -1.
RunUnpack ==
  /\ pc = "run" /\ choice.mode = "unpack"
  /\ IF choice.threads = 0
     THEN GoOn("aborted") /\ UNCHANGED <<messages, failed>>
     ELSE \E n \in 0 .. MaxFailed, warnings \in 0 .. 1 :
            /\ failed' = n /\ Exit(n) /\ Tell(n + warnings)
  /\ UNCHANGED <<argv, choice, loading, written>>

\* --dry-run and --list warn of entries that are not terminated.
RunOther ==
  /\ pc = "run" /\ choice.mode # "unpack"
  /\ \E warnings \in 0 .. 1 : Tell(warnings)
  /\ Exit(0)
  /\ IF choice.mode = "list" THEN Write(<<"paths">>) ELSE UNCHANGED written
  /\ UNCHANGED <<argv, choice, loading, failed>>

-----------------------------------------------------------------------------
(* Others.                                                                 *)

Reading == pc \in {"measure", "read"}

Feed ==
  /\ Reading /\ source.more /\ Len(source.text) < MaxFed
  /\ source' = [source EXCEPT !.text = Append(@, Byte(Len(@) + 1))]
  /\ UNCHANGED <<pc, argv, choice, index, buffer, before, want, got, written, messages, failed, status>>

HangUp ==
  /\ Reading /\ source.more
  /\ source' = [source EXCEPT !.more = FALSE]
  /\ UNCHANGED <<pc, argv, choice, index, buffer, before, want, got, written, messages, failed, status>>

Ended == pc \in {"exited", "aborted"}

Step ==
  \/ Main \/ Open \/ OpenFails \/ Measure \/ ReadSome \/ ReadOn \/ Loaded \/ ReadFails
  \/ PackWrites \/ OutputCannotBeOpened \/ RunUnpack \/ RunOther

\* Steps that do not depend on a system call failing for no reason.
Progress ==
  \/ Main \/ Open \/ Measure \/ ReadSome \/ ReadOn \/ Loaded
  \/ (source.kind = "unreadable" /\ ReadFails)
  \/ PackWrites \/ RunUnpack \/ RunOther

Next == Step \/ Feed \/ HangUp \/ (Ended /\ UNCHANGED vars)

\* The program goes on while it can, and whoever writes to a pipe closes it.
Spec == Init /\ [][Next]_vars /\ WF_vars(Progress) /\ WF_vars(HangUp)

-----------------------------------------------------------------------------
\* Whatever the file was said to be, in however many pieces it came, and
\* however it has grown meanwhile: when load_file_handle has succeeded, the
\* buffer has got everything up to the end of the file, in order, behind what
\* it had (load_file_handle, read).
LoadsWholeFile ==
  pc \in {"run", "write", "open"} /\ source # NoSource =>
    /\ AtEnd
    /\ \E tail \in {Nul} \cup {End(f) : f \in {choice.files[i] : i \in DOMAIN choice.files}} :
         buffer.text = before \o source.text \o <<tail>>

\* What a ::read may write to is inside the region of the buffer (ensure).
ReadsStayInRegion == pc = "read" => Len(buffer.text) + want <= Capacity(buffer)

\* The archive that pack has to write, but for the texts of the files.
Markers(files) ==
  LET upTo[n \in 0 .. Len(files)] ==
        IF n = 0 THEN <<>> ELSE upTo[n - 1] \o <<Begin(files[n]), End(files[n])>>
  IN upTo
MarkersOf(files) == Markers(files)[Len(files)]

IsByte(x) == \E i \in 1 .. MaxFed : x = Byte(i)
NoBytes(x) == IF IsByte(x) THEN <<>> ELSE <<x>>
Skeletons(s) ==
  LET upTo[n \in 0 .. Len(s)] == IF n = 0 THEN <<>> ELSE upTo[n - 1] \o NoBytes(s[n])
  IN upTo
Skeleton(s) == Skeletons(s)[Len(s)]

\* What the program notices it does not keep to itself.  A status of 0 means
\* that it has noticed no failure: pack had the entries of all files together
\* before it wrote the first byte, and the jobs of unpacking have counted no
\* failure -- unless they counted a multiple of 256.  Any other status comes with
\* a message, unless the program was told to be quiet, and without any output,
\* so that no part of an archive is left behind that could not be completed.
\* It does not mean that the output is there: ix_FileHandle::write does not tell
\* when ::write fails, so all that is known is that a beginning of the archive
\* was written, and entries that are lost without being counted leave the
\* status at 0 (textunpack_main, textunpack_pack).
NoticedFailuresAreTold ==
  pc = "exited" =>
    IF status = 0
    THEN /\ choice.mode # "refuse"
         /\ Packing => /\ Skeleton(buffer.text) = MarkersOf(choice.files)
                       /\ \E k \in 0 .. Len(buffer.text) : written = SubSeq(buffer.text, 1, k)
         /\ failed % StatusRange = 0
    ELSE /\ messages = 0 => choice.quiet
         /\ written = <<>>

\* The program comes to an end.
Exits == <>Ended

\* ix_malloc and ix_realloc stop the program (ix_ASSERT_FATAL(size <=
\* ix_MEMORY_LIMIT)) for two reasons only: it was told to use no threads, or the
\* file itself is said to be larger than that.  Reading on never does while the
\* text is short, and neither does a file that cannot tell its size.
StopsForItsInputs ==
  pc = "aborted" =>
    \/ choice.mode = "unpack" /\ choice.threads = 0
    \/ source.size # Unknown /\ Len(before) + source.size > MemoryLimit

\* A switch means the same wherever it stands, and so does a key with its
\* value, if the key is given by one of its two names only: moved in front of
\* all the others, it is eaten with the same effect (eat_boolean, eat_kv, and the
\* order in which textunpack_main calls them).  A word that is given twice is
\* eaten once, and then is a file.
Given == {argv[i] : i \in 2 .. Len(argv)}
Packs == Given \cap {"--pack", "p"} # {}
Unpacks == "--unpack" \in Given \/ Given \cap {"--dry-run", "-d", "--list", "-l"} = {}
Switches == {"--help", "-h", "--disable-warning", "-W", "--pack", "p"}
              \cup (IF Packs THEN {} ELSE {"--dry-run", "-d", "--stdin", "-s", "--list", "-l", "--unpack"})
Keys == IF Packs THEN {"--output", "-o"} ELSE IF Unpacks THEN {"--num-threads", "-n"} ELSE {}
ToTheFront(i, n) == <<argv[1]>> \o SubSeq(argv, i, i + n - 1) \o Tail(Without(argv, i, n))
Once(word) == Cardinality({i \in DOMAIN argv : argv[i] = word}) = 1
OptionsStandAnywhere ==
  pc = "main" => \A i \in 2 .. Len(argv) : Once(argv[i]) =>
    /\ argv[i] \in Switches => Decide(ToTheFront(i, 1)) = choice
    /\ Given \cap Keys = {argv[i]} /\ i < Len(argv) /\ argv[i + 1] \notin Switches
         => Decide(ToTheFront(i, 2)) = choice
=============================================================================
