---------------------------- MODULE ProgramProofs ----------------------------
(***************************************************************************)
(* What the program says about itself when it ends, and what it has read,  *)
(* for every command line, every file, every way a text comes in pieces,   *)
(* and every size of the buffer.                                           *)
(***************************************************************************)
EXTENDS Program, FiniteSetTheorems, ProofLemmas

Args == Words \cup {"textunpack"}

Bytes == {"byte"} \X (1 .. MaxFed)
Tokens == {Nul} \cup Bytes \cup ({"EXPORT_BEGIN", "EXPORT_END"} \X Nat)

Choices(Files) ==
  [mode : {"refuse", "help", "pack", "dry_run", "list", "unpack"}, quiet : BOOLEAN,
   from_stdin : BOOLEAN, threads : Nat, output : Args \cup {NoWord, "output"}, files : Seq(Files)]

Buffers == [m_data : {Region, NoRegion}, text : Seq(Tokens), m_capacity : Nat, high : Nat]

Opened ==
  [kind : {"file", "pipe", "unreadable"}, size : Nat, text : Seq(Bytes), at : Nat, more : BOOLEAN]

\* Every variable has its type, pack has a file and does not read the standard
\* input, and nothing has been written or counted before the end.
Types ==
  /\ pc \in {"main", "open", "measure", "read", "run", "write", "exited", "aborted"}
  /\ choice \in Choices(IF pc = "main" THEN Args ELSE Nat)
  /\ index \in Nat
  /\ buffer \in Buffers
  /\ before \in Seq(Tokens)
  /\ source \in Opened \cup {NoSource}
  /\ want \in Nat /\ got \in Nat
  /\ messages \in Nat /\ failed \in Nat

Plan ==
  /\ Packing => Len(choice.files) >= 1 /\ ~ choice.from_stdin
  /\ pc \notin {"main", "exited", "aborted"} => choice.mode # "refuse"
  /\ pc = "write" => Packing
  /\ pc = "run" => ~ Packing
  /\ pc # "exited" => failed = 0 /\ written = <<>>

ProgramInv == Types /\ Plan

\* Where reading is: the text of the buffer is what it was before, and what
\* the calls of read that have returned gave; what the current one is asked
\* for fits.
ReadingInv ==
  /\ pc = "main" => source = NoSource
  /\ pc \in {"measure", "read"} => source \in Opened
  /\ pc = "measure" => source.at = 0
  /\ pc = "read" =>
       /\ want # 0 /\ got <= want
       /\ got <= source.at /\ source.at <= Len(source.text)
       /\ buffer.m_capacity <= MemoryLimit
       /\ Len(buffer.text) + want <= buffer.m_capacity
       /\ buffer.text = before \o SubSeq(source.text, 1, source.at - got)

\* What pack has made of the files up to the current one.
PackInv ==
  Packing =>
    /\ pc \in {"open", "measure", "read", "write"} => index \in 1 .. Len(choice.files)
    /\ pc = "open" => Skeleton(buffer.text) = Markers(choice.files)[index - 1]
    /\ pc = "measure" =>
         Skeleton(buffer.text) = Markers(choice.files)[index - 1] \o <<Begin(File)>>
    /\ pc = "read" =>
         Skeleton(before) = Markers(choice.files)[index - 1] \o <<Begin(File)>>
    /\ pc = "write" => Skeleton(buffer.text) = MarkersOf(choice.files)

-----------------------------------------------------------------------------
(* The command line.  Whatever is eaten, the program's own name is left.   *)

Kept(args) == args \in Seq(Args) /\ Len(args) >= 1

\* A word is found among the places it is looked for, or nowhere.
LEMMA PlaceOfFacts ==
  ASSUME NEW word, NEW args, NEW last \in Int
  PROVE  PlaceOf(word, args, last) \in {0} \cup 2 .. last
<1> DEFINE places == {i \in 2 .. last : args[i] = word}
<1>1. CASE places = {}
  BY <1>1 DEF PlaceOf
<1>2. CASE places # {}
  <2>1. places \in SUBSET Nat
    OBVIOUS
  <2>2. \E i \in places : \A j \in places : i <= j
    BY <1>2, <2>1, LeastNatural
  <2>3. (CHOOSE i \in places : \A j \in places : i <= j) \in places
    BY <2>2, Zenon
  <2>4. PlaceOf(word, args, last) = CHOOSE i \in places : \A j \in places : i <= j
    BY <1>2, Zenon DEF PlaceOf
  <2>5. PlaceOf(word, args, last) \in places
    BY <2>3, <2>4, Zenon
  <2>6. QED
    BY <2>5
<1>3. QED
  BY <1>1, <1>2

\* Arguments that are taken out leave those before them.
LEMMA WithoutKeeps ==
  ASSUME NEW args, Kept(args), NEW n \in Nat, NEW i \in 2 .. Len(args)
  PROVE  Kept(Without(args, i, n))
<1> DEFINE l == SubSeq(args, 1, i - 1)
           r == SubSeq(args, i + n, Len(args))
<1>1. args \in Seq(Args) /\ Len(args) \in Nat /\ \A k \in 1 .. Len(args) : args[k] \in Args
  BY LenProperties DEF Kept
<1>2. l \in Seq(Args) /\ Len(l) \in Nat /\ Len(l) >= 1
  <2>1. 1 \in Int /\ i - 1 \in Int /\ \A k \in 1 .. i - 1 : args[k] \in Args
    BY <1>1
  <2>2. l \in Seq(Args) /\ Len(l) = IF 1 <= i - 1 THEN (i - 1) - 1 + 1 ELSE 0
    BY <2>1, SubSeqProperties
  <2>3. QED
    BY <2>2
<1>3. r \in Seq(Args) /\ Len(r) \in Nat
  <2>1. i + n \in Int /\ Len(args) \in Int /\ \A k \in i + n .. Len(args) : args[k] \in Args
    BY <1>1
  <2>2. r \in Seq(Args)
    BY <2>1, SubSeqProperties
  <2>3. QED
    BY <2>2, LenProperties
<1> HIDE DEF l, r
<1>4. l \o r \in Seq(Args) /\ Len(l \o r) = Len(l) + Len(r)
  BY <1>2, <1>3, ConcatProperties
<1>5. Kept(l \o r)
  BY <1>2, <1>3, <1>4 DEF Kept
<1>6. QED
  BY <1>5 DEF l, r, Without

LEMMA EatBooleanKeeps ==
  ASSUME NEW args, Kept(args), NEW name
  PROVE  Kept(EatBoolean(args, name))
<1>1. Len(args) \in Nat
  BY LenProperties DEF Kept
<1>2. PlaceOf(name, args, Len(args)) \in {0} \cup 2 .. Len(args)
  BY <1>1, PlaceOfFacts
<1>3. CASE PlaceOf(name, args, Len(args)) = 0
  BY <1>3 DEF EatBoolean
<1>4. CASE PlaceOf(name, args, Len(args)) # 0
  <2>1. Kept(Without(args, PlaceOf(name, args, Len(args)), 1))
    BY <1>2, <1>4, WithoutKeeps
  <2>2. QED
    BY <1>4, <2>1 DEF EatBoolean
<1>5. QED
  BY <1>3, <1>4

LEMMA EatEitherKeeps ==
  ASSUME NEW args, Kept(args), NEW name, NEW alias
  PROVE  Kept(EatEither(args, name, alias))
BY EatBooleanKeeps, Zenon DEF EatEither

Eaten(r) ==
  r \in [args : Seq(Args), value : Args \cup {NoWord}] /\ Kept(r.args)

LEMMA EatKvKeeps ==
  ASSUME NEW args, Kept(args), NEW key
  PROVE  Eaten(EatKv(args, key))
<1> DEFINE i == PlaceOf(key, args, Len(args) - 1)
<1>1. Len(args) \in Nat /\ args \in Seq(Args) /\ \A k \in 1 .. Len(args) : args[k] \in Args
  BY LenProperties DEF Kept
<1>2. i \in {0} \cup 2 .. Len(args) - 1
  BY <1>1, PlaceOfFacts
<1>3. CASE i = 0
  <2>1. EatKv(args, key) = [args |-> args, value |-> NoWord]
    BY <1>3, Zenon DEF EatKv
  <2>2. QED
    BY <1>1, <2>1 DEF Eaten
<1>4. CASE i # 0
  <2>1. i \in 2 .. Len(args) /\ i + 1 \in 1 .. Len(args)
    BY <1>1, <1>2, <1>4
  <2>2. EatKv(args, key) = [args |-> Without(args, i, 2), value |-> args[i + 1]]
    BY <1>4, Zenon DEF EatKv
  <2> HIDE DEF i
  <2>3. Kept(Without(args, i, 2)) /\ args[i + 1] \in Args
    BY <1>1, <2>1, WithoutKeeps
  <2>4. QED
    BY <2>2, <2>3 DEF Eaten, Kept
<1>5. QED
  BY <1>3, <1>4

LEMMA EatKvEitherKeeps ==
  ASSUME NEW args, Kept(args), NEW key, NEW alias
  PROVE  Eaten(EatKvEither(args, key, alias))
<1> DEFINE first == EatKv(args, key)
           second == EatKv(first.args, alias)
<1>1. Eaten(first)
  BY EatKvKeeps
<1>2. Eaten(second)
  BY <1>1, EatKvKeeps DEF Eaten
<1>3. EatKvEither(args, key, alias) =
        IF second.value = NoWord THEN [second EXCEPT !.value = first.value] ELSE second
  BY Zenon DEF EatKvEither
<1> HIDE DEF first, second
<1>4. QED
  BY <1>1, <1>2, <1>3 DEF Eaten, Kept

\* What textunpack_main does with its arguments is one of what it can do; to
\* pack it wants a file, and does not look for the switch of the standard input.
Decision(c) ==
  /\ c \in Choices(Args)
  /\ c.mode = "pack" => Len(c.files) >= 1 /\ ~ c.from_stdin

LEMMA NothingIsADecision ==
  ASSUME NEW mode \in {"refuse", "help", "dry_run", "list", "unpack"}
  PROVE  Decision(Nothing(mode))
BY CommandLineAssumption, EmptySeq DEF Decision, Choices, Nothing

LEMMA RefuseIsADecision == Decision(Refuse)
BY NothingIsADecision DEF Refuse

LEMMA DecidePackFacts ==
  ASSUME NEW args, Kept(args), NEW quiet \in BOOLEAN
  PROVE  Decision(DecidePack(args, quiet))
<1> DEFINE output == EatKvEither(args, "--output", "-o")
<1>1. Eaten(output)
  BY EatKvEitherKeeps
<1>2. DecidePack(args, quiet) =
        IF Len(output.args) = 1 THEN Refuse
        ELSE [Nothing("pack") EXCEPT !.quiet = quiet, !.output = output.value,
                                     !.files = Tail(output.args)]
  BY Zenon DEF DecidePack
<1> HIDE DEF output
<1>3. CASE Len(output.args) = 1
  BY <1>2, <1>3, RefuseIsADecision
<1>4. CASE Len(output.args) # 1
  <2>1. /\ Len(output.args) \in Nat /\ Len(output.args) >= 1
        /\ output.args \in Seq(Args) /\ output.args # <<>>
    BY <1>1, LenProperties, EmptySeq DEF Eaten, Kept
  <2>2. Tail(output.args) \in Seq(Args) /\ Len(Tail(output.args)) = Len(output.args) - 1
    BY <2>1, HeadTailProperties
  <2>3. Len(Tail(output.args)) >= 1
    <3>1. \A k \in Nat : k >= 1 /\ k # 1 => k - 1 >= 1
      OBVIOUS
    <3>2. Len(output.args) - 1 >= 1
      BY <1>4, <2>1, <3>1, Zenon
    <3>3. QED
      BY <2>2, <3>2, Zenon
  <2> DEFINE t == Tail(output.args)
  <2> HIDE DEF t
  <2>4. DecidePack(args, quiet) =
          [mode |-> "pack", quiet |-> quiet, from_stdin |-> FALSE, threads |-> Concurrency,
           output |-> output.value, files |-> t]
    BY <1>2, <1>4 DEF Nothing, t
  <2>5. t \in Seq(Args) /\ Len(t) >= 1 /\ output.value \in Args \cup {NoWord, "output"}
    BY <1>1, <2>2, <2>3 DEF t, Eaten
  <2>6. QED
    BY <2>4, <2>5, CommandLineAssumption DEF Decision, Choices
<1>5. QED
  BY <1>3, <1>4

LEMMA DecideReadFacts ==
  ASSUME NEW args, Kept(args), NEW quiet \in BOOLEAN
  PROVE  Decision(DecideRead(args, quiet))
<1> DEFINE dry == EatEither(args, "--dry-run", "-d")
           stdin == EatEither(dry, "--stdin", "-s")
           list == EatEither(stdin, "--list", "-l")
           rest == EatBoolean(list, "--unpack")
           unpack == rest # list \/ (list = stdin /\ dry = args)
           number == IF unpack THEN EatKvEither(rest, "--num-threads", "-n")
                     ELSE [args |-> rest, value |-> NoWord]
           given == number.value # NoWord
           threads == IF given THEN ValueOf[number.value] ELSE Concurrency
           mode == IF dry # args THEN "dry_run" ELSE IF list # stdin THEN "list" ELSE "unpack"
           refused == \/ given /\ number.value \notin Numerals
                      \/ threads > MaxThreads
                      \/ Len(number.args) # 2
<1>1. Kept(dry)
  BY EatEitherKeeps
<1>2. Kept(stdin)
  BY <1>1, EatEitherKeeps, Zenon
<1>3. Kept(list)
  BY <1>2, EatEitherKeeps, Zenon
<1>4. Kept(rest)
  BY <1>3, EatBooleanKeeps, Zenon
<1>5. Eaten(number)
  <2>1. CASE unpack
    BY <1>4, <2>1, EatKvEitherKeeps, Zenon
  <2>2. CASE ~ unpack
    <3>1. number = [args |-> rest, value |-> NoWord]
      BY <2>2, Zenon
    <3> HIDE DEF rest, number
    <3>2. QED
      BY <1>4, <3>1 DEF Eaten, Kept
  <2>3. QED
    BY <2>1, <2>2, Zenon
<1>6. DecideRead(args, quiet) =
        IF refused THEN Refuse
        ELSE [Nothing(mode) EXCEPT !.quiet = quiet, !.from_stdin = (stdin # dry),
                                   !.threads = threads, !.files = <<number.args[2]>>]
  BY Zenon DEF DecideRead
<1>7. mode \in {"dry_run", "list", "unpack"} /\ (stdin # dry) \in BOOLEAN
  BY Zenon
<1>8. ~ refused => threads \in Nat
  BY CommandLineAssumption
<1>9. ~ refused => number.args[2] \in Args
  BY <1>5, LenProperties DEF Eaten
<1>10. PICK th, m, si, file, wrong :
         /\ th = threads /\ m = mode /\ si = (stdin # dry)
         /\ file = number.args[2] /\ wrong = refused
  BY Zenon
<1>11. DecideRead(args, quiet) =
         IF wrong THEN Refuse
         ELSE [Nothing(m) EXCEPT !.quiet = quiet, !.from_stdin = si,
                                 !.threads = th, !.files = <<file>>]
  BY <1>6, <1>10, Zenon
<1>12. m \in {"dry_run", "list", "unpack"} /\ si \in BOOLEAN
  BY <1>7, <1>10, Zenon
<1>13. ~ wrong => th \in Nat /\ file \in Args
  BY <1>8, <1>9, <1>10, Zenon
<1> HIDE DEF dry, stdin, list, rest, unpack, number, given, threads, mode, refused
<1>14. CASE wrong
  BY <1>11, <1>14, RefuseIsADecision, Zenon
<1>15. CASE ~ wrong
  <2>1. DecideRead(args, quiet) =
          [mode |-> m, quiet |-> quiet, from_stdin |-> si, threads |-> th,
           output |-> NoWord, files |-> <<file>>]
    BY <1>11, <1>15 DEF Nothing
  <2>2. <<file>> \in Seq(Args)
    BY <1>13, <1>15
  <2>3. QED
    BY <1>12, <1>13, <1>15, <2>1, <2>2 DEF Decision, Choices
<1>16. QED
  BY <1>14, <1>15, Zenon

LEMMA LineIsKept ==
  ASSUME NEW args \in CommandLines, args # <<>>
  PROVE  Kept(args)
<1>6. PICK n \in 1 .. MaxArgs : \E w \in [1 .. n - 1 -> Words] : args = <<"textunpack">> \o w
  BY DEF CommandLines
<1>1. PICK w \in [1 .. n - 1 -> Words] : args = <<"textunpack">> \o w
  BY <1>6
<1>2. n - 1 \in Nat /\ w \in [1 .. n - 1 -> Args]
  BY <1>1, BoundsAssumption DEF Args
<1>3. w \in Seq(Args) /\ <<"textunpack">> \in Seq(Args) /\ Len(<<"textunpack">>) = 1
  BY <1>2, FunctionIsSequence DEF Args
<1>4. args \in Seq(Args) /\ Len(args) = 1 + Len(w) /\ Len(w) \in Nat
  BY <1>1, <1>3, ConcatProperties, LenProperties
<1>5. QED
  BY <1>4 DEF Kept

LEMMA DecideFacts ==
  ASSUME NEW args \in CommandLines
  PROVE  Decision(Decide(args))
<1>1. CASE args = <<>>
  BY <1>1, RefuseIsADecision DEF Decide
<1>2. CASE args # <<>>
  <2> DEFINE help == EatEither(args, "--help", "-h")
             warning == EatEither(help, "--disable-warning", "-W")
             pack == EatEither(warning, "--pack", "p")
  <2>1. Kept(args)
    BY <1>2, LineIsKept
  <2>2. Kept(help)
    BY <2>1, EatEitherKeeps
  <2>3. Kept(warning)
    BY <2>2, EatEitherKeeps
  <2>4. Kept(pack)
    BY <2>3, EatEitherKeeps
  <2>5. (warning # help) \in BOOLEAN
    BY Zenon
  <2>6. /\ Decision(Nothing("help"))
        /\ Decision(DecidePack(pack, warning # help))
        /\ Decision(DecideRead(pack, warning # help))
    BY <2>4, <2>5, NothingIsADecision, DecidePackFacts, DecideReadFacts
  <2>7. Decide(args) =
          IF help # args \/ Len(help) = 1 THEN Nothing("help")
          ELSE IF pack # warning THEN DecidePack(pack, warning # help)
          ELSE DecideRead(pack, warning # help)
    BY <1>2, Zenon DEF Decide
  <2> HIDE DEF help, warning, pack
  <2>8. QED
    BY <2>6, <2>7, Zenon
<1>3. QED
  BY <1>1, <1>2

-----------------------------------------------------------------------------
(* The buffer.                                                             *)

LEMMA NewBufferFacts == NewBuffer(InitialCapacity, Region) \in Buffers
BY SizesAssumption, EmptySeq DEF NewBuffer, Buffers

LEMMA ReallocatedFacts ==
  ASSUME NEW b \in Buffers, NEW n \in Nat
  PROVE  LET e == Reallocated(b, n, Region)
         IN  e \in Buffers /\ e.text = b.text /\ e.m_capacity = n
BY DEF Reallocated, Buffers

\* A buffer that was reserved has the text it had, and room.
LEMMA ReserveFacts ==
  ASSUME NEW b \in Buffers, NEW n \in Nat
  PROVE  LET e == Reserve(b, n, Region)
         IN  e \in Buffers /\ e.text = b.text /\ n <= e.m_capacity
<1>1. CASE n <= b.m_capacity
  BY <1>1 DEF Reserve
<1>2. CASE ~ (n <= b.m_capacity)
  <2>1. Reserve(b, n, Region) = Reallocated(b, n, Region)
    BY <1>2 DEF Reserve
  <2>2. QED
    BY <2>1, ReallocatedFacts
<1>3. QED
  BY <1>1, <1>2

LEMMA EnsureFacts ==
  ASSUME NEW b \in Buffers, NEW extra \in Nat
  PROVE  LET e == EnsureAggressively(b, extra, Region)
         IN  e \in Buffers /\ e.text = b.text
<1> DEFINE n == Len(b.text) + extra
           g == Larger(GrowArraySize(b.m_capacity), n)
<1>1. n \in Nat /\ b.m_capacity \in Nat
  BY LenProperties DEF Buffers
<1>2. g \in Nat
  BY <1>1 DEF Larger, GrowArraySize
<1>3. EnsureAggressively(b, extra, Region) =
        IF n <= b.m_capacity THEN b ELSE Reallocated(b, g, Region)
  BY DEF EnsureAggressively, ReserveAggressively
<1> HIDE DEF n, g
<1>4. QED
  BY <1>2, <1>3, ReallocatedFacts

LEMMA StoredFacts ==
  ASSUME NEW e \in Buffers, NEW s \in Seq(Tokens), NEW behind \in Nat
  PROVE  LET c == Stored(e, s, behind)
         IN  c \in Buffers /\ c.text = e.text \o s
<1>1. /\ e.text \o s \in Seq(Tokens)
      /\ Len(e.text) \in Nat /\ Len(s) \in Nat
  BY ConcatProperties, LenProperties DEF Buffers
<1>2. Len(e.text) + Len(s) + behind \in Nat
  BY <1>1
<1> DEFINE t == e.text \o s
           high == Len(e.text) + Len(s) + behind
<1>3. Stored(e, s, behind) = [e EXCEPT !.text = t, !.high = high]
  BY DEF Stored
<1>4. t \in Seq(Tokens) /\ high \in Nat
  BY <1>1, <1>2
<1> HIDE DEF t, high
<1>5. Stored(e, s, behind) \in Buffers /\ Stored(e, s, behind).text = t
  BY <1>3, <1>4 DEF Buffers
<1>6. QED
  BY <1>5 DEF t

\* A marker that is pushed stands behind the text.
LEMMA PushFacts ==
  ASSUME NEW b \in Buffers, NEW x \in Tokens
  PROVE  /\ PushText(b, <<x>>) \in Buffers /\ PushText(b, <<x>>).text = b.text \o <<x>>
         /\ PushCharRepeat(b, <<x>>, Region) \in Buffers
         /\ PushCharRepeat(b, <<x>>, Region).text = b.text \o <<x>>
<1>1. <<x>> \in Seq(Tokens) /\ Len(<<x>>) = 1 /\ Len(<<x>>) + 1 \in Nat
  OBVIOUS
<1> DEFINE s == <<x>>
           e == EnsureAggressively(b, Len(s) + 1, Region)
           c == EnsureAggressively(b, Len(s), Region)
<1>2. Len(s) \in Nat /\ Len(s) + 1 \in Nat /\ s \in Seq(Tokens)
  BY <1>1
<1> HIDE DEF s
<1>3. /\ e \in Buffers /\ e.text = b.text
      /\ c \in Buffers /\ c.text = b.text
  BY <1>2, EnsureFacts
<1>4. PushText(b, s) = Stored(e, s, 1) /\ PushCharRepeat(b, s, Region) = Stored(c, s, 0)
  BY DEF PushText, PushString, PushCharRepeat
<1> HIDE DEF e, c
<1>5. /\ PushText(b, s) \in Buffers /\ PushText(b, s).text = b.text \o s
      /\ PushCharRepeat(b, s, Region) \in Buffers
      /\ PushCharRepeat(b, s, Region).text = b.text \o s
  <2>1. \A k \in Nat : Stored(e, s, k) \in Buffers /\ Stored(e, s, k).text = e.text \o s
    BY <1>2, <1>3, StoredFacts
  <2>5. \A k \in Nat : Stored(c, s, k) \in Buffers /\ Stored(c, s, k).text = c.text \o s
    BY <1>2, <1>3, StoredFacts
  <2>2. PushText(b, s) \in Buffers /\ PushText(b, s).text = b.text \o s
    BY <1>3, <1>4, <2>1
  <2>3. /\ PushCharRepeat(b, s, Region) \in Buffers
        /\ PushCharRepeat(b, s, Region).text = b.text \o s
    BY <1>3, <1>4, <2>5
  <2>4. QED
    BY <2>2, <2>3
<1>6. QED
  BY <1>5 DEF s

-----------------------------------------------------------------------------
(* What is left of an archive without the texts of the files.              *)

NoBytesOf(s) == [n \in 1 .. Len(s) |-> NoBytes(s[n])]

LEMMA SkeletonsAccumulate ==
  ASSUME NEW S, NEW s \in Seq(S)
  PROVE  Accumulates(Skeletons(s), Len(s), NoBytesOf(s))
<1> DEFINE N == Len(s)
           Solves(f) == f = [n \in 0 .. N |-> IF n = 0 THEN <<>> ELSE f[n - 1] \o NoBytes(s[n])]
<1>1. N \in Nat
  BY LenProperties
<1> HIDE DEF N
<1>2. NoBytesOf(s) = [n \in 1 .. N |-> NoBytes(s[n])]
  BY DEF NoBytesOf, N
<1>3. \A n \in 0 .. N : n # 0 => n \in 1 .. N
  BY <1>1
<1>4. \A n \in 0 .. N : n # 0 => NoBytesOf(s)[n] = NoBytes(s[n])
  BY <1>2, <1>3, Zenon
<1>5. ASSUME NEW f
      PROVE  Accumulates(f, N, NoBytesOf(s)) <=> Solves(f)
  <2>1. \A n \in 0 .. N : (IF n = 0 THEN <<>> ELSE f[n - 1] \o NoBytesOf(s)[n])
                           = (IF n = 0 THEN <<>> ELSE f[n - 1] \o NoBytes(s[n]))
    BY <1>4, Zenon
  <2>2. [n \in 0 .. N |-> IF n = 0 THEN <<>> ELSE f[n - 1] \o NoBytesOf(s)[n]]
        = [n \in 0 .. N |-> IF n = 0 THEN <<>> ELSE f[n - 1] \o NoBytes(s[n])]
    BY <2>1, Zenon
  <2>3. QED
    BY <2>2, Zenon DEF Accumulates
<1>6. \E f : Solves(f)
  BY <1>1, <1>5, AccumulationExists, Zenon
<1>7. Skeletons(s) = CHOOSE f : Solves(f)
  BY Zenon DEF Skeletons, N
<1> HIDE DEF Solves
<1>8. Solves(Skeletons(s))
  BY <1>6, <1>7, Zenon
<1>9. QED
  BY <1>5, <1>8, Zenon DEF N

LEMMA NoBytesTypes ==
  ASSUME NEW S, NEW s \in Seq(S)
  PROVE  /\ Len(s) \in Nat
         /\ \A n \in 1 .. Len(s) : NoBytesOf(s)[n] = NoBytes(s[n]) /\ NoBytesOf(s)[n] \in Seq(S)
<1>1. Len(s) \in Nat /\ \A n \in 1 .. Len(s) : s[n] \in S
  BY LenProperties
<1>2. ASSUME NEW x \in S PROVE NoBytes(x) \in Seq(S)
  BY EmptySeq DEF NoBytes
<1>3. QED
  BY <1>1, <1>2 DEF NoBytesOf

\* The texts of the files are left out of each part of an archive.
LEMMA SkeletonOfTwo ==
  ASSUME NEW S, NEW s \in Seq(S), NEW t \in Seq(S)
  PROVE  Skeleton(s \o t) = Skeleton(s) \o Skeleton(t)
<1> DEFINE N == Len(s)
           M == Len(t)
           u == s \o t
<1>1. /\ u \in Seq(S) /\ N \in Nat /\ M \in Nat /\ Len(u) = N + M
      /\ \A k \in 1 .. N + M : u[k] = IF k <= N THEN s[k] ELSE t[k - N]
  BY ConcatProperties, LenProperties
<1>2. \A n \in 1 .. N + M : NoBytesOf(u)[n] = NoBytes(u[n]) /\ NoBytesOf(u)[n] \in Seq(S)
  BY <1>1, NoBytesTypes
<1>3. \A n \in 1 .. N : NoBytesOf(s)[n] = NoBytesOf(u)[n]
  <2> TAKE n \in 1 .. N
  <2>1. n \in 1 .. N + M /\ n <= N
    BY <1>1
  <2>2. u[n] = s[n]
    BY <1>1, <2>1
  <2>3. NoBytesOf(s)[n] = NoBytes(s[n])
    BY NoBytesTypes
  <2>4. QED
    BY <1>2, <2>1, <2>2, <2>3, Zenon
<1>4. \A n \in 1 .. M : NoBytesOf(t)[n] = NoBytesOf(u)[N + n]
  <2> TAKE n \in 1 .. M
  <2>1. N + n \in 1 .. N + M /\ ~ (N + n <= N) /\ (N + n) - N = n
    BY <1>1
  <2>2. u[N + n] = t[(N + n) - N]
    BY <1>1, <2>1
  <2>3. NoBytesOf(t)[n] = NoBytes(t[n])
    BY NoBytesTypes
  <2>4. QED
    BY <1>2, <2>1, <2>2, <2>3, Zenon
<1>5. /\ Accumulates(Skeletons(u), N + M, NoBytesOf(u))
      /\ Accumulates(Skeletons(s), N, NoBytesOf(s))
      /\ Accumulates(Skeletons(t), M, NoBytesOf(t))
  <2>1. Accumulates(Skeletons(u), Len(u), NoBytesOf(u))
    BY <1>1, SkeletonsAccumulate, Zenon
  <2>2. QED
    BY <1>1, <2>1, SkeletonsAccumulate, Zenon
<1>6. \A n \in 1 .. N + M : NoBytesOf(u)[n] \in Seq(S)
  BY <1>2, Zenon
<1>7. Skeletons(u)[N + M] = Skeletons(s)[N] \o Skeletons(t)[M]
  <2>1. PICK p, q, r, f, g, h :
          /\ p = NoBytesOf(u) /\ q = NoBytesOf(s) /\ r = NoBytesOf(t)
          /\ f = Skeletons(u) /\ g = Skeletons(s) /\ h = Skeletons(t)
    BY Zenon
  <2>2. /\ \A n \in 1 .. N + M : p[n] \in Seq(S)
        /\ \A n \in 1 .. N : q[n] = p[n]
        /\ \A n \in 1 .. M : r[n] = p[N + n]
    BY <1>3, <1>4, <1>6, <2>1, Zenon
  <2>3. Accumulates(f, N + M, p) /\ Accumulates(g, N, q) /\ Accumulates(h, M, r)
    BY <1>5, <2>1, Zenon
  <2>4. N \in Nat /\ M \in Nat
    BY <1>1
  <2> HIDE DEF N, M, u
  <2>5. f[N + M] = g[N] \o h[M]
    <3>1. Halves(S, N, M, p, q, r)
      BY <2>2, <2>4, Zenon DEF Halves
    <3>2. Joins(f[N + M], g[N], h[M])
      BY <2>3, <3>1, AccumulationSplits, Zenon
    <3>3. QED
      BY <3>2, Zenon DEF Joins
  <2>6. QED
    BY <2>1, <2>5, Zenon
<1>8. QED
  BY <1>1, <1>7, Zenon DEF Skeleton

\* Of the text of a file nothing is left.
LEMMA SkeletonOfBytes ==
  ASSUME NEW s \in Seq(Bytes)
  PROVE  Skeleton(s) = <<>>
<1>1. Len(s) \in Nat /\ \A n \in 1 .. Len(s) : s[n] \in Bytes
  BY LenProperties
<1>2. ASSUME NEW x \in Bytes PROVE NoBytes(x) = <<>>
  <2>1. PICK i \in 1 .. MaxFed : x = <<"byte", i>>
    BY DEF Bytes
  <2>2. IsByte(x)
    BY <2>1 DEF IsByte, Byte
  <2>3. QED
    BY <2>2 DEF NoBytes
<1>3. \A n \in 1 .. Len(s) : NoBytesOf(s)[n] = <<>>
  BY <1>1, <1>2, NoBytesTypes
<1>4. Accumulates(Skeletons(s), Len(s), NoBytesOf(s))
  BY SkeletonsAccumulate
<1>5. QED
  BY <1>1, <1>3, <1>4, AccumulationOfNothing, Zenon DEF Skeleton

\* A marker is left as it is.
LEMMA SkeletonOfMarker ==
  ASSUME NEW x, x \in {Nul} \cup ({"EXPORT_BEGIN", "EXPORT_END"} \X Nat)
  PROVE  x \in Tokens /\ Skeleton(<<x>>) = <<x>>
<1>1. x \in Tokens
  BY DEF Tokens
<1>2. NoBytes(x) = <<x>>
  <2>1. ~ IsByte(x)
    BY DEF IsByte, Byte, Nul
  <2>2. QED
    BY <2>1 DEF NoBytes
<1> DEFINE s == <<x>>
<1>3. s \in Seq(Tokens) /\ Len(s) = 1 /\ s[1] = x
  BY <1>1
<1> HIDE DEF s
<1>4. Accumulates(Skeletons(s), 1, NoBytesOf(s)) /\ NoBytesOf(s)[1] = <<x>>
  BY <1>2, <1>3, SkeletonsAccumulate, NoBytesTypes, SMTT(60)
<1>5. \A n \in 1 .. 1 : NoBytesOf(s)[n] \in Seq(Tokens)
  BY <1>3, NoBytesTypes
<1>6. /\ Skeletons(s)[0] = <<>>
      /\ \A n \in 1 .. 1 : Skeletons(s)[n] = Skeletons(s)[n - 1] \o NoBytesOf(s)[n]
      /\ \A n \in 0 .. 1 : Skeletons(s)[n] \in Seq(Tokens)
  <2>1. 1 \in Nat
    OBVIOUS
  <2>2. QED
    BY <1>4, <1>5, <2>1, AccumulationSteps, Zenon
<1>7. Skeletons(s)[1] = <<>> \o <<x>>
  <2>1. 1 \in 1 .. 1 /\ 1 - 1 = 0
    OBVIOUS
  <2>2. Skeletons(s)[1] = Skeletons(s)[1 - 1] \o NoBytesOf(s)[1]
    BY <1>6, <2>1, Zenon
  <2>3. QED
    BY <1>4, <1>6, <2>1, <2>2, Zenon
<1>8. <<>> \o <<x>> = <<x>>
  OBVIOUS
<1>9. QED
  BY <1>1, <1>3, <1>7, <1>8 DEF Skeleton, s

\* What pack has to write, one file more at a time.
LEMMA MarkersGrow ==
  ASSUME NEW files \in Seq(Nat)
  PROVE  /\ Markers(files)[0] = <<>>
         /\ \A n \in 1 .. Len(files) :
              Markers(files)[n] = Markers(files)[n - 1] \o <<Begin(files[n]), End(files[n])>>
         /\ \A n \in 0 .. Len(files) : Markers(files)[n] \in Seq(Tokens)
<1> DEFINE N == Len(files)
           Both == [n \in 1 .. N |-> <<Begin(files[n]), End(files[n])>>]
           Solves(f) == f = [n \in 0 .. N |->
             IF n = 0 THEN <<>> ELSE f[n - 1] \o <<Begin(files[n]), End(files[n])>>]
<1>1. N \in Nat /\ \A n \in 1 .. N : files[n] \in Nat
  BY LenProperties
<1>2. \A n \in 1 .. N : Both[n] \in Seq(Tokens)
  BY <1>1 DEF Tokens, Begin, End
<1>3. \A n \in 0 .. N : n # 0 => n \in 1 .. N
  BY <1>1
<1>4. \A n \in 1 .. N : Both[n] = <<Begin(files[n]), End(files[n])>>
  BY Zenon
<1>5. Markers(files) = CHOOSE f : Solves(f)
  BY Zenon DEF Markers
<1> HIDE DEF N, Both
<1>6. ASSUME NEW f
      PROVE  Accumulates(f, N, Both) <=> Solves(f)
  <2>1. \A n \in 0 .. N :
          (IF n = 0 THEN <<>> ELSE f[n - 1] \o Both[n])
            = (IF n = 0 THEN <<>> ELSE f[n - 1] \o <<Begin(files[n]), End(files[n])>>)
    BY <1>3, <1>4, Zenon
  <2>2. [n \in 0 .. N |-> IF n = 0 THEN <<>> ELSE f[n - 1] \o Both[n]]
        = [n \in 0 .. N |->
             IF n = 0 THEN <<>> ELSE f[n - 1] \o <<Begin(files[n]), End(files[n])>>]
    BY <2>1, Zenon
  <2>3. QED
    BY <2>2, Zenon DEF Accumulates
<1>7. \E f : Solves(f)
  BY <1>1, <1>6, AccumulationExists, Zenon
<1> HIDE DEF Solves
<1>8. Solves(Markers(files))
  BY <1>5, <1>7, Zenon
<1>9. Accumulates(Markers(files), N, Both)
  BY <1>6, <1>8, Zenon
<1>10. /\ Markers(files)[0] = <<>>
       /\ \A n \in 1 .. N : Markers(files)[n] = Markers(files)[n - 1] \o Both[n]
       /\ \A n \in 0 .. N : Markers(files)[n] \in Seq(Tokens)
  BY <1>1, <1>2, <1>9, AccumulationSteps, Zenon
<1>11. QED
  BY <1>4, <1>10, Zenon DEF N

-----------------------------------------------------------------------------
(* Types and plan.                                                         *)

\* What is found has been read nothing of.
LEMMA FoundFacts ==
  ASSUME NEW s \in Sources \cup Stdins
  PROVE  s \in Opened /\ s.at = 0
<1>1. s \in [kind : {"file", "pipe", "unreadable"}, size : (0 .. TopBit - 1) \cup {Unknown},
             text : Seq({Byte(i) : i \in 1 .. MaxFed}), at : {0}, more : BOOLEAN]
  BY SourcesAssumption
<1>2. {Byte(i) : i \in 1 .. MaxFed} = Bytes
  BY DEF Byte, Bytes
<1>3. (0 .. TopBit - 1) \cup {Unknown} \subseteq Nat
  BY SizeMaxAssumption DEF TopBit, Unknown
<1>4. QED
  BY <1>1, <1>2, <1>3 DEF Opened

\* Calling the files by their places changes nothing else.
LEMMA SettledFacts ==
  ASSUME choice \in Choices(Args)
  PROVE  /\ Settled \in Choices(Nat)
         /\ Settled.mode = choice.mode /\ Settled.from_stdin = choice.from_stdin
         /\ Len(Settled.files) = Len(choice.files)
<1> DEFINE fs == [i \in DOMAIN choice.files |-> i]
           out == IF choice.output = NoWord THEN NoWord ELSE "output"
<1>1. choice.files \in Seq(Args) /\ choice.output \in Args \cup {NoWord, "output"}
  BY DEF Choices
<1>2. Len(choice.files) \in Nat /\ DOMAIN choice.files = 1 .. Len(choice.files)
  BY <1>1, LenProperties
<1>3. fs \in [1 .. Len(choice.files) -> Nat]
  BY <1>2
<1>4. fs \in Seq(Nat) /\ Len(fs) = Len(choice.files)
  BY <1>2, <1>3, FunctionIsSequence
<1>5. out \in Args \cup {NoWord, "output"}
  BY Zenon
<1>6. Settled = [choice EXCEPT !.files = fs, !.output = out]
  BY DEF Settled
<1> HIDE DEF fs, out
<1>7. /\ Settled \in Choices(Nat)
      /\ Settled.mode = choice.mode /\ Settled.from_stdin = choice.from_stdin
      /\ Settled.files = fs
  BY <1>4, <1>5, <1>6 DEF Choices
<1>8. QED
  BY <1>4, <1>7, Zenon

\* The current file of pack, and its markers.
LEMMA FileFacts ==
  ASSUME choice \in Choices(Nat), index \in 1 .. Len(choice.files)
  PROVE  /\ choice.files \in Seq(Nat) /\ Len(choice.files) \in Nat
         /\ File \in Nat
         /\ Begin(File) \in Tokens /\ End(File) \in Tokens
         /\ Skeleton(<<Begin(File)>>) = <<Begin(File)>>
         /\ Skeleton(<<End(File)>>) = <<End(File)>>
<1>1. choice.files \in Seq(Nat)
  BY DEF Choices
<1>2. File \in Nat /\ Len(choice.files) \in Nat
  BY <1>1, LenProperties DEF File
<1>3. /\ Begin(File) \in {Nul} \cup ({"EXPORT_BEGIN", "EXPORT_END"} \X Nat)
      /\ End(File) \in {Nul} \cup ({"EXPORT_BEGIN", "EXPORT_END"} \X Nat)
  BY <1>2 DEF Begin, End
<1>4. QED
  BY <1>1, <1>2, <1>3, SkeletonOfMarker, Zenon

LEMMA InitFacts == Init => ProgramInv /\ ReadingInv /\ PackInv
<1> SUFFICES ASSUME Init PROVE ProgramInv /\ ReadingInv /\ PackInv
  OBVIOUS
<1>1. Decision(choice)
  BY DecideFacts DEF Init
<1>2. EmptyBuffer \in Buffers
  BY EmptySeq DEF EmptyBuffer, NewBuffer, Buffers
<1>3. Types
  BY <1>1, <1>2, EmptySeq DEF Init, Types, Decision
<1>4. Plan
  BY <1>1 DEF Init, Plan, Decision, Packing
<1>5. ReadingInv /\ PackInv
  BY DEF Init, ReadingInv, PackInv
<1>6. QED
  BY <1>3, <1>4, <1>5 DEF ProgramInv

\* What Main leaves, in the order of its cases.
LEMMA MainFacts ==
  ASSUME ProgramInv, Main
  PROVE  /\ pc = "main" /\ choice' = Settled /\ UNCHANGED <<failed, before, want, got>>
         /\ \/ /\ choice.mode = "refuse" /\ pc' = "exited" /\ status' = 1 % StatusRange
               /\ messages' = messages + 1
               /\ UNCHANGED <<index, buffer, source, written>>
            \/ /\ choice.mode = "help" /\ pc' = "exited" /\ status' = 0 % StatusRange
               /\ Write(<<"HELP_TEXT">>)
               /\ UNCHANGED <<index, buffer, source, messages>>
            \/ /\ choice.mode \notin {"refuse", "help"}
               /\ buffer' = NewBuffer(InitialCapacity, Region) /\ index' = 1
               /\ IF choice.from_stdin THEN pc' = "measure" /\ source' \in Stdins
                  ELSE pc' = "open" /\ UNCHANGED source
               /\ UNCHANGED <<written, messages>>
<1>1. CASE choice.mode = "refuse"
  BY <1>1 DEF Main, Exit, TellAnyway, loading
<1>2. CASE choice.mode = "help"
  BY <1>2 DEF Main, Exit, loading
<1>3. CASE choice.mode \notin {"refuse", "help"}
  BY <1>3 DEF Main, GoOn
<1>4. QED
  BY <1>1, <1>2, <1>3

LEMMA MainKeepsTypes == ProgramInv /\ Main => ProgramInv'
<1> SUFFICES ASSUME ProgramInv, Main PROVE ProgramInv'
  OBVIOUS
<1> USE DEF ProgramInv
<1>1. /\ Types /\ Plan /\ choice \in Choices(Args) /\ pc = "main"
      /\ choice' \in Choices(Nat) /\ choice'.mode = choice.mode
      /\ choice'.from_stdin = choice.from_stdin
      /\ Len(choice'.files) = Len(choice.files)
  BY MainFacts, SettledFacts DEF Types
<1>2. /\ pc' \in {"open", "measure", "exited"} /\ pc' # "main"
      /\ index' \in Nat /\ buffer' \in Buffers
      /\ source' \in Opened \cup {NoSource} /\ messages' \in Nat
  BY <1>1, MainFacts, NewBufferFacts, FoundFacts DEF Types
<1>3. Types'
  BY <1>1, <1>2, MainFacts DEF Types
<1>4. Plan'
  BY <1>1, MainFacts DEF Plan, Packing
<1>5. QED
  BY <1>3, <1>4

\* Opening, measuring, reading and what follows it: what each of them does to
\* the buffer is a buffer, and where each of them goes.
LEMMA OpeningFacts ==
  ASSUME ProgramInv, PackInv, pc = "open"
  PROVE  /\ Opening \in Buffers
         /\ ~ Packing => Opening = buffer
         /\ Packing => Opening.text = buffer.text \o <<Begin(File)>>
<1>1. buffer \in Buffers /\ choice \in Choices(Nat)
  BY DEF ProgramInv, Types
<1>2. CASE Packing
  <2>1. Begin(File) \in Tokens
    BY <1>1, <1>2, FileFacts DEF PackInv
  <2>2. QED
    BY <1>1, <1>2, <2>1, PushFacts DEF Opening
<1>3. CASE ~ Packing
  BY <1>1, <1>3 DEF Opening
<1>4. QED
  BY <1>2, <1>3

LEMMA OpenKeepsTypes == ProgramInv /\ PackInv /\ Open => ProgramInv'
<1> SUFFICES ASSUME ProgramInv, PackInv, Open PROVE ProgramInv'
  OBVIOUS
<1>1. /\ Types /\ Plan /\ pc = "open" /\ choice \in Choices(Nat)
      /\ pc' \in {"measure", "aborted"} /\ buffer' = Opening /\ source' \in Sources
      /\ UNCHANGED <<choice, index, before, want, got, written, messages, failed>>
  BY DEF ProgramInv, Types, Open, GoOnWith, GoOn
<1>2. buffer' \in Buffers /\ source' \in Opened
  BY <1>1, OpeningFacts, FoundFacts
<1>3. Types'
  BY <1>1, <1>2 DEF Types
<1>4. Plan'
  BY <1>1 DEF Plan, Packing
<1>5. QED
  BY <1>3, <1>4 DEF ProgramInv

\* The size of the first call of read is not 0.
LEMMA FirstReadSizeFacts ==
  ASSUME NEW b \in Buffers, NEW size \in Nat
  PROVE  FirstReadSize(b, size) \in Nat \ {0}
<1>1. b.m_capacity - Len(b.text) \in Int
  BY LenProperties DEF Buffers
<1>2. \A k \in Int : Larger(k, DefaultReadSize) \in Nat \ {0}
  BY SizesAssumption DEF Larger
<1>3. Larger(b.m_capacity - Len(b.text), DefaultReadSize) \in Nat \ {0}
  BY <1>1, <1>2
<1>4. QED
  BY <1>3 DEF FirstReadSize

\* What a buffer is after ensure.
LEMMA EnsureReadFacts ==
  ASSUME NEW b \in Buffers, NEW n \in Nat, EnsureRead(b, n)
  PROVE  /\ buffer' \in Buffers /\ buffer'.text = b.text
         /\ Len(b.text) \in Nat /\ Len(b.text) + n <= buffer'.m_capacity
         /\ want' = n /\ got' = 0
         /\ pc' \in {"read", "aborted"}
         /\ pc' = "read" => buffer'.m_capacity <= MemoryLimit
<1>1. Len(b.text) \in Nat
  BY LenProperties DEF Buffers
<1>2. Len(b.text) + n \in Nat
  BY <1>1
<1> DEFINE m == Len(b.text) + n
           e == Reserve(b, m, Region)
<1>3. e \in Buffers /\ e.text = b.text /\ m <= e.m_capacity
  <2> HIDE DEF m
  <2>1. m \in Nat
    BY <1>2 DEF m
  <2>2. QED
    BY <2>1, ReserveFacts
<1>4. /\ buffer' = e /\ want' = n /\ got' = 0
      /\ pc' = IF e.m_capacity > MemoryLimit THEN "aborted" ELSE "read"
  BY DEF EnsureRead, GoOnWith, GoOn
<1>5. e.m_capacity \in Nat /\ MemoryLimit \in Nat
  BY <1>3, SizesAssumption DEF Buffers
<1> HIDE DEF e
<1>6. QED
  BY <1>1, <1>3, <1>4, <1>5 DEF m

LEMMA MeasureKeepsTypes == ProgramInv /\ ReadingInv /\ Measure => ProgramInv'
<1> SUFFICES ASSUME ProgramInv, ReadingInv, Measure PROVE ProgramInv'
  OBVIOUS
<1>1. /\ Types /\ Plan /\ pc = "measure" /\ choice \in Choices(Nat)
      /\ source \in Opened /\ source.size \in Nat /\ buffer \in Buffers
      /\ before' = buffer.text /\ before' \in Seq(Tokens)
      /\ UNCHANGED <<choice, index, source, written, messages, failed>>
  BY DEF ProgramInv, Types, ReadingInv, Measure, Opened, Buffers
<1>2. FirstReadSize(buffer, source.size) \in Nat
  BY <1>1, FirstReadSizeFacts
<1>3. EnsureRead(buffer, FirstReadSize(buffer, source.size))
  BY DEF Measure
<1>4. buffer' \in Buffers /\ want' \in Nat /\ got' \in Nat /\ pc' \in {"read", "aborted"}
  BY <1>1, <1>2, <1>3, EnsureReadFacts
<1>5. Types'
  BY <1>1, <1>4 DEF Types
<1>6. Plan'
  BY <1>1, <1>4 DEF Plan, Packing
<1>7. QED
  BY <1>5, <1>6 DEF ProgramInv

\* What the last call of read gave continues what was read before it.
LEMMA JustReadFacts ==
  ASSUME ProgramInv, ReadingInv, pc = "read"
  PROVE  /\ source \in Opened /\ Bytes \subseteq Tokens
         /\ JustRead \in Seq(Bytes) /\ JustRead \in Seq(Tokens)
         /\ SubSeq(source.text, 1, source.at) \in Seq(Bytes)
         /\ buffer.text \o JustRead = before \o SubSeq(source.text, 1, source.at)
<1> DEFINE t == source.text
           b == source.at
           a == source.at - got
           l == SubSeq(t, 1, a)
           r == SubSeq(t, a + 1, b)
<1>1. /\ source \in Opened /\ t \in Seq(Bytes) /\ b \in Nat /\ got \in Nat
      /\ got <= b /\ b <= Len(t)
      /\ before \in Seq(Tokens) /\ buffer.text = before \o l
  BY DEF ProgramInv, Types, ReadingInv, Opened
<1>2. Len(t) \in Nat
  BY <1>1, LenProperties
<1>3. b \in 0 .. Len(t) /\ a \in 0 .. b
  BY <1>1, <1>2
<1>4. l \in Seq(Bytes) /\ r \in Seq(Bytes) /\ l \o r = SubSeq(t, 1, b)
  <2> HIDE DEF t, b, a
  <2>1. QED
    BY <1>1, <1>3, CutInTwo
<1>5. SubSeq(t, 1, b) \in Seq(Bytes)
  BY <1>4, ConcatProperties
<1>6. Bytes \subseteq Tokens
  BY DEF Tokens
<1>7. l \in Seq(Tokens) /\ r \in Seq(Tokens)
  BY <1>4, <1>6
<1>8. JustRead = r
  BY DEF JustRead
<1> HIDE DEF t, b, a, l, r
<1>9. (before \o l) \o r = before \o (l \o r)
  BY <1>1, <1>7, ConcatAssociative
<1>10. buffer.text \o JustRead = before \o SubSeq(t, 1, b)
  BY <1>1, <1>4, <1>8, <1>9
<1>11. QED
  BY <1>1, <1>4, <1>5, <1>6, <1>7, <1>8, <1>10 DEF t, b

LEMMA ReadOnFacts ==
  ASSUME ProgramInv, ReadingInv, ReadOn
  PROVE  /\ pc = "read" /\ pc' \in {"read", "aborted"}
         /\ want' \in Nat \ {0} /\ got' = 0
         /\ buffer' \in Buffers
         /\ buffer'.text = before \o SubSeq(source.text, 1, source.at)
         /\ Len(buffer'.text) + want' <= buffer'.m_capacity
         /\ pc' = "read" => buffer'.m_capacity <= MemoryLimit
         /\ UNCHANGED <<choice, index, before, source, written, messages, failed>>
<1> DEFINE new == [buffer EXCEPT !.text = @ \o JustRead]
           n == IF got = want THEN 2 * want ELSE want
<1>1. pc = "read" /\ buffer \in Buffers /\ want \in Nat \ {0}
  BY DEF ReadOn, ReadReturns, ProgramInv, Types, ReadingInv
<1>2. /\ JustRead \in Seq(Tokens)
      /\ buffer.text \o JustRead = before \o SubSeq(source.text, 1, source.at)
  BY <1>1, JustReadFacts
<1>3. buffer.text \o JustRead \in Seq(Tokens)
  BY <1>1, <1>2, ConcatProperties DEF Buffers
<1>4. new \in Buffers /\ new.text = buffer.text \o JustRead
  <2> DEFINE t == buffer.text \o JustRead
  <2>1. new = [buffer EXCEPT !.text = t] /\ t \in Seq(Tokens)
    BY <1>3
  <2> HIDE DEF t, new
  <2>2. new \in Buffers /\ new.text = t
    BY <1>1, <2>1 DEF Buffers
  <2>3. QED
    BY <2>2 DEF t
<1>5. n \in Nat \ {0}
  BY <1>1
<1>6. EnsureRead(new, n)
  BY DEF ReadOn, EnsureNext
<1>7. UNCHANGED <<choice, index, before, source, written, messages, failed>>
  BY DEF ReadOn
<1> HIDE DEF new, n
<1>8. /\ buffer' \in Buffers /\ buffer'.text = new.text
      /\ Len(new.text) + n <= buffer'.m_capacity
      /\ want' = n /\ got' = 0 /\ pc' \in {"read", "aborted"}
      /\ pc' = "read" => buffer'.m_capacity <= MemoryLimit
  BY <1>4, <1>5, <1>6, EnsureReadFacts, Zenon
<1>9. Len(buffer'.text) + want' <= buffer'.m_capacity
  BY <1>8
<1>10. QED
  BY <1>1, <1>2, <1>4, <1>5, <1>7, <1>8, <1>9

LEMMA ReadOnKeepsTypes == ProgramInv /\ ReadingInv /\ ReadOn => ProgramInv'
<1> SUFFICES ASSUME ProgramInv, ReadingInv, ReadOn PROVE ProgramInv'
  OBVIOUS
<1>1. Types'
  BY ReadOnFacts, SMTT(60) DEF ProgramInv, Types
<1>2. Plan'
  BY ReadOnFacts DEF ProgramInv, Plan, Packing
<1>3. QED
  BY <1>1, <1>2 DEF ProgramInv

\* When read has returned 0, the buffer has all of the file.
LEMMA WholeFileFacts ==
  ASSUME ProgramInv, ReadingInv, ReadReturns, got = 0
  PROVE  /\ pc = "read" /\ source \in Opened /\ AtEnd
         /\ buffer.text = before \o source.text
<1>1. /\ pc = "read" /\ want # 0 /\ AtEnd
      /\ source \in Opened /\ source.text \in Seq(Bytes) /\ source.at = Len(source.text)
      /\ source.at \in Nat /\ source.at - got = source.at
      /\ buffer.text = before \o SubSeq(source.text, 1, source.at - got)
  BY DEF ReadReturns, ReadingInv, AtEnd, Opened
<1>2. SubSeq(source.text, 1, Len(source.text)) = source.text
  <2>1. Prefix(source.text, source.text)
    BY <1>1, LenProperties DEF Prefix
  <2>2. QED
    BY <1>1, <2>1, PrefixIsSubSeq
<1>3. buffer.text = before \o source.text
  BY <1>1, <1>2, Zenon
<1>4. QED
  BY <1>1, <1>3

LEMMA LoadedFacts ==
  ASSUME ProgramInv, ReadingInv, PackInv, Loaded
  PROVE  /\ pc = "read" /\ source \in Opened /\ AtEnd
         /\ buffer.text = before \o source.text
         /\ buffer' \in Buffers
         /\ UNCHANGED <<choice, before, source, want, got, written, messages, failed>>
         /\ \/ /\ ~ Packing /\ pc' \in {"run", "aborted"} /\ index' = index
               /\ buffer'.text = buffer.text \o <<Nul>>
            \/ /\ Packing /\ index \in 1 .. Len(choice.files)
               /\ buffer'.text = buffer.text \o <<End(File)>>
               /\ IF index = Len(choice.files)
                  THEN pc' \in {"write", "aborted"} /\ index' = index
                  ELSE pc' \in {"open", "aborted"} /\ index' = index + 1
<1>1. /\ pc = "read" /\ source \in Opened /\ AtEnd /\ buffer.text = before \o source.text
      /\ UNCHANGED <<choice, before, source, want, got, written, messages, failed>>
  BY WholeFileFacts DEF Loaded
<1>2. buffer \in Buffers /\ choice \in Choices(Nat)
  BY <1>1 DEF ProgramInv, Types
<1>3. CASE ~ Packing
  <2>1. /\ buffer' = PushCharRepeat(buffer, <<Nul>>, Region)
        /\ pc' \in {"run", "aborted"} /\ index' = index
    BY <1>3 DEF Loaded, GoOnWith, GoOn
  <2>2. Nul \in Tokens
    BY DEF Tokens
  <2>3. buffer' \in Buffers /\ buffer'.text = buffer.text \o <<Nul>>
    BY <1>2, <2>1, <2>2, PushFacts, Zenon
  <2>4. QED
    BY <1>1, <1>3, <2>1, <2>3
<1>4. CASE Packing
  <2>1. index \in 1 .. Len(choice.files)
    BY <1>1, <1>4 DEF PackInv
  <2>2. /\ buffer' = PushText(buffer, <<End(File)>>)
        /\ IF index = Len(choice.files)
           THEN pc' \in {"write", "aborted"} /\ index' = index
           ELSE pc' \in {"open", "aborted"} /\ index' = index + 1
    BY <1>4 DEF Loaded, GoOnWith, GoOn
  <2>3. End(File) \in Tokens
    BY <1>2, <2>1, FileFacts
  <2>4. buffer' \in Buffers /\ buffer'.text = buffer.text \o <<End(File)>>
    BY <1>2, <2>2, <2>3, PushFacts, Zenon
  <2>5. QED
    BY <1>1, <1>4, <2>1, <2>2, <2>4
<1>5. QED
  BY <1>3, <1>4

LEMMA LoadedKeepsTypes == ProgramInv /\ ReadingInv /\ PackInv /\ Loaded => ProgramInv'
<1> SUFFICES ASSUME ProgramInv, ReadingInv, PackInv, Loaded PROVE ProgramInv'
  OBVIOUS
<1>1. /\ pc = "read" /\ pc' \in {"run", "write", "open", "aborted"}
      /\ pc' = "write" => Packing
      /\ pc' = "run" => ~ Packing
  BY LoadedFacts
<1>2. index' \in Nat
  <2>1. index \in Nat
    BY DEF ProgramInv, Types
  <2>2. index' \in {index, index + 1}
    BY LoadedFacts
  <2>3. QED
    BY <2>1, <2>2
<1>3. buffer' \in Buffers /\ UNCHANGED <<choice, before, source, want, got, written, messages, failed>>
  BY LoadedFacts
<1>4. Types'
  BY <1>1, <1>2, <1>3 DEF ProgramInv, Types
<1>5. Plan'
  BY <1>1, <1>3 DEF ProgramInv, Plan, Packing
<1>6. QED
  BY <1>4, <1>5 DEF ProgramInv

\* A call of ::read, and those that write to the file meanwhile.
LEMMA ReadSomeKeepsTypes == ProgramInv /\ ReadingInv /\ ReadSome => ProgramInv'
<1> SUFFICES ASSUME ProgramInv, ReadingInv, ReadSome PROVE ProgramInv'
  OBVIOUS
<1>1. /\ source \in Opened /\ got \in Nat /\ want \in Nat
      /\ UNCHANGED <<pc, choice, index, buffer, before, want, written, messages, failed>>
  BY DEF ProgramInv, Types, ReadingInv, ReadSome
<1>2. PICK n \in 1 .. want - got : source' = [source EXCEPT !.at = @ + n] /\ got' = got + n
  BY DEF ReadSome
<1>3. n \in Nat /\ source.at + n \in Nat /\ got' \in Nat
  BY <1>1, <1>2 DEF Opened
<1>4. source' \in Opened
  BY <1>1, <1>2, <1>3 DEF Opened
<1>5. Types'
  BY <1>1, <1>3, <1>4 DEF ProgramInv, Types
<1>6. Plan'
  BY <1>1 DEF ProgramInv, Plan, Packing
<1>7. QED
  BY <1>5, <1>6 DEF ProgramInv

\* What others do to a file leaves the program where it is, and what is read
\* of the file.
LEMMA OthersFacts ==
  ASSUME ProgramInv, ReadingInv, Feed \/ HangUp
  PROVE  /\ pc \in {"measure", "read"}
         /\ source \in Opened /\ source' \in Opened
         /\ source'.at = source.at
         /\ Prefix(source.text, source'.text)
         /\ UNCHANGED <<pc, choice, index, buffer, before, want, got, written, messages, failed, status>>
<1>1. /\ pc \in {"measure", "read"} /\ source \in Opened /\ source.text \in Seq(Bytes)
      /\ UNCHANGED <<pc, choice, index, buffer, before, want, got, written, messages, failed, status>>
  BY DEF ReadingInv, Feed, HangUp, Reading, Opened
<1>2. Len(source.text) \in Nat
  BY <1>1, LenProperties
<1>3. CASE Feed
  <2>1. Len(source.text) < MaxFed /\ MaxFed \in Nat
    BY <1>3, BoundsAssumption DEF Feed
  <2>2. Byte(Len(source.text) + 1) \in Bytes
    BY <1>2, <2>1 DEF Byte, Bytes
  <2> DEFINE t == Append(source.text, Byte(Len(source.text) + 1))
  <2>3. /\ t \in Seq(Bytes) /\ Len(t) = Len(source.text) + 1
        /\ \A k \in 1 .. Len(source.text) : t[k] = source.text[k]
    BY <1>1, <2>2, AppendProperties
  <2>4. source' = [source EXCEPT !.text = t]
    BY <1>3 DEF Feed
  <2> HIDE DEF t
  <2>5. source' \in Opened /\ source'.at = source.at /\ source'.text = t
    BY <1>1, <2>3, <2>4 DEF Opened
  <2>6. Prefix(source.text, t)
    BY <1>2, <2>3 DEF Prefix
  <2>7. QED
    BY <1>1, <2>5, <2>6
<1>4. CASE HangUp
  <2>1. source' = [source EXCEPT !.more = FALSE]
    BY <1>4 DEF HangUp
  <2>2. source' \in Opened /\ source'.at = source.at /\ source'.text = source.text
    BY <1>1, <2>1 DEF Opened
  <2>3. Prefix(source.text, source.text)
    BY <1>2 DEF Prefix
  <2>4. QED
    BY <1>1, <2>2, <2>3
<1>5. QED
  BY <1>3, <1>4

LEMMA OthersKeepTypes == ProgramInv /\ ReadingInv /\ (Feed \/ HangUp) => ProgramInv'
<1> SUFFICES ASSUME ProgramInv, ReadingInv, Feed \/ HangUp PROVE ProgramInv'
  OBVIOUS
<1>1. Types'
  BY OthersFacts DEF ProgramInv, Types
<1>2. Plan'
  BY OthersFacts DEF ProgramInv, Plan, Packing
<1>3. QED
  BY <1>1, <1>2 DEF ProgramInv

\* The steps that end the program, or stop it.
Ends ==
  \/ OpenFails \/ ReadFails \/ PackWrites \/ OutputCannotBeOpened \/ RunUnpack \/ RunOther

LEMMA EndsFacts ==
  ASSUME ProgramInv, Ends
  PROVE  /\ pc \in {"open", "read", "write", "run"}
         /\ pc' \in {"exited", "aborted"}
         /\ pc' = "aborted" => UNCHANGED <<written, failed>>
         /\ messages' \in Nat /\ failed' \in Nat
         /\ UNCHANGED <<choice, index, buffer, before, source, want, got>>
<1>1. messages \in Nat /\ failed \in Nat
  BY DEF ProgramInv, Types
<1>2. \A n \in Nat : Tell(n) => messages' \in Nat
  BY <1>1 DEF Tell
<1>3. TellAnyway => messages' \in Nat
  BY <1>1 DEF TellAnyway
<1>4. CASE OpenFails
  BY <1>1, <1>2, <1>3, <1>4 DEF OpenFails, Exit, loading
<1>5. CASE ReadFails
  BY <1>1, <1>2, <1>3, <1>5 DEF ReadFails, Exit, loading
<1>6. CASE PackWrites
  BY <1>1, <1>6 DEF PackWrites, Exit, loading
<1>7. CASE OutputCannotBeOpened
  BY <1>1, <1>2, <1>7 DEF OutputCannotBeOpened, Exit, loading
<1>8. CASE RunUnpack
  <2>1. CASE choice.threads = 0
    BY <1>1, <1>8, <2>1 DEF RunUnpack, GoOn, loading
  <2>2. CASE choice.threads # 0
    <3>1. PICK n \in 0 .. MaxFailed, warnings \in 0 .. 1 :
            failed' = n /\ Exit(n) /\ Tell(n + warnings)
      BY <1>8, <2>2 DEF RunUnpack
    <3>2. n \in Nat /\ n + warnings \in Nat
      OBVIOUS
    <3>3. QED
      BY <1>2, <1>8, <3>1, <3>2 DEF RunUnpack, Exit, loading
  <2>3. QED
    BY <2>1, <2>2
<1>9. CASE RunOther
  <2>1. PICK warnings \in 0 .. 1 : Tell(warnings)
    BY <1>9 DEF RunOther
  <2>2. messages' \in Nat
    BY <1>2, <2>1
  <2>3. QED
    BY <1>1, <1>9, <2>2 DEF RunOther, Exit, loading
<1>10. QED
  BY <1>4, <1>5, <1>6, <1>7, <1>8, <1>9 DEF Ends

LEMMA EndsKeepTypes == ProgramInv /\ Ends => ProgramInv'
<1> SUFFICES ASSUME ProgramInv, Ends PROVE ProgramInv'
  OBVIOUS
<1>1. Types'
  BY EndsFacts DEF ProgramInv, Types
<1>2. Plan'
  BY EndsFacts DEF ProgramInv, Plan, Packing
<1>3. QED
  BY <1>1, <1>2 DEF ProgramInv

-----------------------------------------------------------------------------
(* Reading.                                                                *)

LEMMA MainKeepsReading == ProgramInv /\ Main => ReadingInv'
<1> SUFFICES ASSUME ProgramInv, Main PROVE ReadingInv'
  OBVIOUS
<1>1. pc' # "main" /\ pc' # "read"
  BY MainFacts
<1>2. pc' = "measure" => source' \in Stdins
  BY MainFacts
<1>3. QED
  BY <1>1, <1>2, FoundFacts DEF ReadingInv

LEMMA OpenKeepsReading == Open => ReadingInv'
<1> SUFFICES ASSUME Open PROVE ReadingInv'
  OBVIOUS
<1>1. pc' \in {"measure", "aborted"} /\ source' \in Sources
  BY DEF Open, GoOnWith, GoOn
<1>2. QED
  BY <1>1, FoundFacts DEF ReadingInv

LEMMA MeasureKeepsReading == ProgramInv /\ ReadingInv /\ Measure => ReadingInv'
<1> SUFFICES ASSUME ProgramInv, ReadingInv, Measure PROVE ReadingInv'
  OBVIOUS
<1> DEFINE n == FirstReadSize(buffer, source.size)
<1>1. /\ source \in Opened /\ source.size \in Nat /\ source.at = 0 /\ source.text \in Seq(Bytes)
      /\ buffer \in Buffers /\ buffer.text \in Seq(Tokens)
      /\ before' = buffer.text /\ source' = source
  BY DEF ProgramInv, Types, ReadingInv, Measure, Opened, Buffers
<1>2. n \in Nat \ {0} /\ n \in Nat
  BY <1>1, FirstReadSizeFacts
<1>3. EnsureRead(buffer, n)
  BY DEF Measure
<1> HIDE DEF n
<1>4. /\ buffer'.text = buffer.text
      /\ Len(buffer.text) + n <= buffer'.m_capacity
      /\ want' = n /\ got' = 0 /\ pc' \in {"read", "aborted"}
      /\ pc' = "read" => buffer'.m_capacity <= MemoryLimit
  BY <1>1, <1>2, <1>3, EnsureReadFacts, Zenon
<1>5. buffer'.text = before' \o SubSeq(source.text, 1, 0)
  <2>1. SubSeq(source.text, 1, 0) = <<>>
    BY SubSeqEmpty
  <2>2. buffer.text \o <<>> = buffer.text
    BY <1>1, ConcatEmptySeq
  <2>3. QED
    BY <1>1, <1>4, <2>1, <2>2
<1>6. Len(source.text) \in Nat
  BY <1>1, LenProperties
<1>7. source'.at - got' = 0
  BY <1>1, <1>4
<1>8. /\ want' # 0 /\ got' <= want'
      /\ got' <= source'.at /\ source'.at <= Len(source'.text)
      /\ Len(buffer'.text) + want' <= buffer'.m_capacity
  BY <1>1, <1>2, <1>4, <1>6
<1>9. buffer'.text = before' \o SubSeq(source'.text, 1, source'.at - got')
  BY <1>1, <1>5, <1>7
<1>10. QED
  BY <1>1, <1>4, <1>8, <1>9 DEF ReadingInv

LEMMA ReadSomeKeepsReading == ProgramInv /\ ReadingInv /\ ReadSome => ReadingInv'
<1> SUFFICES ASSUME ProgramInv, ReadingInv, ReadSome PROVE ReadingInv'
  OBVIOUS
<1>1. /\ pc = "read" /\ pc' = "read" /\ UNCHANGED <<buffer, before, want>>
      /\ source \in Opened /\ source.at \in Nat /\ got \in Nat /\ want \in Nat
      /\ source.text \in Seq(Bytes)
  BY DEF ProgramInv, Types, ReadingInv, ReadSome, Opened
<1>2. PICK n \in 1 .. want - got :
        /\ source.at + n <= Len(source.text)
        /\ source' = [source EXCEPT !.at = @ + n] /\ got' = got + n
  BY DEF ReadSome
<1>3. n \in Nat /\ source.at + n \in Nat /\ Len(source.text) \in Nat
  BY <1>1, <1>2, LenProperties
<1>4. source' \in Opened /\ source'.at = source.at + n /\ source'.text = source.text
  BY <1>1, <1>2, <1>3 DEF Opened
<1>5. /\ want # 0 /\ got <= want /\ got <= source.at
      /\ buffer.m_capacity <= MemoryLimit
      /\ Len(buffer.text) + want <= buffer.m_capacity
      /\ buffer.text = before \o SubSeq(source.text, 1, source.at - got)
  BY <1>1 DEF ReadingInv
<1>6. /\ got' <= want /\ got' <= source'.at /\ source'.at <= Len(source'.text)
      /\ source'.at - got' = source.at - got
  <2>1. PICK a \in Nat, g \in Nat, w \in Nat, l \in Nat :
          a = source.at /\ g = got /\ w = want /\ l = Len(source.text)
    BY <1>1, <1>3
  <2>2. n \in 1 .. w - g /\ g <= a /\ a + n <= l
    BY <1>2, <1>5, <2>1
  <2>3. /\ g + n <= w /\ g + n <= a + n /\ a + n <= l
        /\ (a + n) - (g + n) = a - g
    BY <2>2
  <2>4. got' = g + n /\ source'.at = a + n /\ Len(source'.text) = l
    BY <1>2, <1>4, <2>1
  <2>5. QED
    BY <2>1, <2>3, <2>4
<1>7. buffer.text = before \o SubSeq(source'.text, 1, source'.at - got')
  BY <1>4, <1>5, <1>6
<1>8. QED
  BY <1>1, <1>4, <1>5, <1>6, <1>7 DEF ReadingInv

LEMMA ReadOnKeepsReading == ProgramInv /\ ReadingInv /\ ReadOn => ReadingInv'
<1> SUFFICES ASSUME ProgramInv, ReadingInv, ReadOn PROVE ReadingInv'
  OBVIOUS
<1>1. /\ pc = "read" /\ pc' \in {"read", "aborted"}
      /\ want' \in Nat \ {0} /\ got' = 0
      /\ buffer'.text = before \o SubSeq(source.text, 1, source.at)
      /\ Len(buffer'.text) + want' <= buffer'.m_capacity
      /\ pc' = "read" => buffer'.m_capacity <= MemoryLimit
      /\ before' = before /\ source' = source
  BY ReadOnFacts
<1>2. source \in Opened /\ source.at \in Nat /\ source.at <= Len(source.text)
  BY <1>1 DEF ReadingInv, Opened
<1>3. source'.at - got' = source.at /\ want' # 0 /\ got' <= want' /\ got' <= source'.at
  BY <1>1, <1>2
<1>4. buffer'.text = before' \o SubSeq(source'.text, 1, source'.at - got')
  BY <1>1, <1>3
<1>5. QED
  BY <1>1, <1>2, <1>3, <1>4 DEF ReadingInv

LEMMA OthersKeepReading == ProgramInv /\ ReadingInv /\ (Feed \/ HangUp) => ReadingInv'
<1> SUFFICES ASSUME ProgramInv, ReadingInv, Feed \/ HangUp PROVE ReadingInv'
  OBVIOUS
<1>1. /\ pc \in {"measure", "read"}
      /\ source \in Opened /\ source' \in Opened /\ source'.at = source.at
      /\ source.text \in Seq(Bytes) /\ source'.text \in Seq(Bytes)
      /\ Prefix(source.text, source'.text)
      /\ UNCHANGED <<pc, buffer, before, want, got>>
  BY OthersFacts DEF Opened
<1>2. CASE pc = "measure"
  BY <1>1, <1>2 DEF ReadingInv
<1>3. CASE pc = "read"
  <2>1. /\ want # 0 /\ got <= want /\ got <= source.at /\ source.at <= Len(source.text)
        /\ buffer.m_capacity <= MemoryLimit
        /\ Len(buffer.text) + want <= buffer.m_capacity
        /\ buffer.text = before \o SubSeq(source.text, 1, source.at - got)
    BY <1>3 DEF ReadingInv
  <2>2. source.at \in Nat /\ got \in Nat
    BY <1>1 DEF ProgramInv, Types, Opened
  <2> DEFINE m == source.at - got
             n == Len(source.text)
  <2>3. /\ n <= Len(source'.text) /\ source.text = SubSeq(source'.text, 1, n)
        /\ n \in Nat /\ Len(source'.text) \in Nat
    BY <1>1, PrefixIsSubSeq, LenProperties
  <2>4. n \in 0 .. Len(source'.text) /\ m \in 0 .. n /\ source.at <= Len(source'.text)
    BY <2>1, <2>2, <2>3
  <2>5. SubSeq(SubSeq(source'.text, 1, n), 1, m) = SubSeq(source'.text, 1, m)
    <3> HIDE DEF m, n
    <3>1. QED
      BY <1>1, <2>4, CutTwice
  <2>6. SubSeq(source.text, 1, m) = SubSeq(source'.text, 1, m)
    <3> HIDE DEF m, n
    <3>1. QED
      BY <2>3, <2>5, Zenon
  <2>7. source'.at - got' = m
    BY <1>1
  <2>8. buffer'.text = before' \o SubSeq(source'.text, 1, source'.at - got')
    BY <1>1, <2>1, <2>6, <2>7
  <2>9. QED
    BY <1>1, <1>3, <2>1, <2>4, <2>8 DEF ReadingInv
<1>4. QED
  BY <1>1, <1>2, <1>3

-----------------------------------------------------------------------------
(* Packing.                                                                *)

LEMMA SkeletonOfText ==
  ASSUME NEW s \in Seq(Tokens), NEW x \in Tokens, Skeleton(<<x>>) = <<x>>
  PROVE  Skeleton(s \o <<x>>) = Skeleton(s) \o <<x>>
<1>1. <<x>> \in Seq(Tokens)
  OBVIOUS
<1>2. QED
  BY <1>1, SkeletonOfTwo

LEMMA MainKeepsPack == ProgramInv /\ Main => PackInv'
<1> SUFFICES ASSUME ProgramInv, Main, Packing' PROVE PackInv'
  BY DEF PackInv
<1>1. /\ pc = "main" /\ choice \in Choices(Args) /\ choice' = Settled
  BY MainFacts DEF ProgramInv, Types
<1>2. /\ choice' \in Choices(Nat) /\ choice'.mode = choice.mode
      /\ choice'.from_stdin = choice.from_stdin
      /\ Len(choice'.files) = Len(choice.files)
  BY <1>1, SettledFacts
<1>3. Packing /\ Len(choice.files) >= 1 /\ ~ choice.from_stdin
  BY <1>2 DEF Packing, ProgramInv, Plan
<1>4. pc' = "open" /\ index' = 1 /\ buffer' = NewBuffer(InitialCapacity, Region)
  BY <1>3, MainFacts DEF Packing
<1>5. choice'.files \in Seq(Nat) /\ Len(choice'.files) \in Nat
  BY <1>2, LenProperties DEF Choices
<1>6. index' \in 1 .. Len(choice'.files) /\ index' - 1 = 0
  BY <1>2, <1>3, <1>4, <1>5
<1>7. Skeleton(buffer'.text) = <<>>
  BY <1>4, EmptySeq, SkeletonOfBytes DEF NewBuffer
<1>8. Markers(choice'.files)[0] = <<>>
  BY <1>5, MarkersGrow
<1>9. QED
  BY <1>4, <1>6, <1>7, <1>8 DEF PackInv

LEMMA OpenKeepsPack == ProgramInv /\ PackInv /\ Open => PackInv'
<1> SUFFICES ASSUME ProgramInv, PackInv, Open, Packing' PROVE PackInv'
  BY DEF PackInv
<1>1. /\ pc = "open" /\ pc' \in {"measure", "aborted"} /\ buffer' = Opening
      /\ choice' = choice /\ index' = index /\ Packing
      /\ choice \in Choices(Nat) /\ buffer.text \in Seq(Tokens)
  BY DEF Open, GoOnWith, GoOn, Packing, ProgramInv, Types, Buffers
<1>2. /\ index \in 1 .. Len(choice.files)
      /\ Skeleton(buffer.text) = Markers(choice.files)[index - 1]
  BY <1>1 DEF PackInv
<1>3. Begin(File) \in Tokens /\ Skeleton(<<Begin(File)>>) = <<Begin(File)>>
  BY <1>1, <1>2, FileFacts
<1>4. buffer'.text = buffer.text \o <<Begin(File)>>
  BY <1>1, OpeningFacts
<1>5. Skeleton(buffer'.text) = Markers(choice.files)[index - 1] \o <<Begin(File)>>
  BY <1>1, <1>2, <1>3, <1>4, SkeletonOfText
<1>6. Begin(File)' = Begin(File)
  BY <1>1 DEF File, Begin
<1>7. QED
  BY <1>1, <1>2, <1>5, <1>6 DEF PackInv

LEMMA MeasureKeepsPack == PackInv /\ Measure => PackInv'
<1> SUFFICES ASSUME PackInv, Measure, Packing' PROVE PackInv'
  BY DEF PackInv
<1>1. /\ pc = "measure" /\ pc' \in {"read", "aborted"} /\ before' = buffer.text
      /\ choice' = choice /\ index' = index /\ Packing
  BY DEF Measure, EnsureRead, GoOnWith, GoOn, Packing
<1>2. Begin(File)' = Begin(File)
  BY <1>1 DEF File, Begin
<1>3. QED
  BY <1>1, <1>2 DEF PackInv

\* Steps of reading leave what was there before the file.
LEMMA ReadingKeepsPack ==
  ASSUME PackInv, UNCHANGED <<choice, index, before>>,
         \/ pc = "read" /\ pc' \in {"read", "aborted"}
         \/ UNCHANGED <<pc, buffer>>
  PROVE  PackInv'
<1>1. Begin(File)' = Begin(File)
  BY DEF File, Begin
<1>2. QED
  BY <1>1 DEF PackInv, Packing

LEMMA LoadedKeepsPack == ProgramInv /\ ReadingInv /\ PackInv /\ Loaded => PackInv'
<1> SUFFICES ASSUME ProgramInv, ReadingInv, PackInv, Loaded, Packing' PROVE PackInv'
  BY DEF PackInv
<1>1. /\ pc = "read" /\ source \in Opened /\ buffer.text = before \o source.text
      /\ choice' = choice
  BY LoadedFacts
<1>2. /\ Packing /\ choice \in Choices(Nat) /\ before \in Seq(Tokens)
      /\ source.text \in Seq(Bytes) /\ source.text \in Seq(Tokens)
  BY <1>1 DEF Packing, ProgramInv, Types, Opened, Tokens
<1>3. /\ index \in 1 .. Len(choice.files)
      /\ buffer'.text = buffer.text \o <<End(File)>>
      /\ IF index = Len(choice.files)
         THEN pc' \in {"write", "aborted"} /\ index' = index
         ELSE pc' \in {"open", "aborted"} /\ index' = index + 1
  BY <1>2, LoadedFacts
<1>4. /\ choice.files \in Seq(Nat) /\ Len(choice.files) \in Nat
      /\ Begin(File) \in Tokens /\ End(File) \in Tokens
      /\ Skeleton(<<End(File)>>) = <<End(File)>>
  BY <1>2, <1>3, FileFacts
<1> DEFINE m == Markers(choice.files)[index - 1]
<1>5. Skeleton(before) = m \o <<Begin(File)>>
  BY <1>1, <1>2 DEF PackInv
<1>6. m \in Seq(Tokens)
  <2>1. index - 1 \in 0 .. Len(choice.files)
    BY <1>3, <1>4
  <2>2. QED
    BY <1>4, <2>1, MarkersGrow
<1>7. Markers(choice.files)[index] = m \o <<Begin(File), End(File)>>
  BY <1>3, <1>4, MarkersGrow DEF File
<1> HIDE DEF m
<1>8. Skeleton(buffer.text) = m \o <<Begin(File)>>
  <2>1. Skeleton(source.text) = <<>>
    BY <1>2, SkeletonOfBytes
  <2>2. Skeleton(before \o source.text) = Skeleton(before) \o Skeleton(source.text)
    BY <1>2, SkeletonOfTwo
  <2>3. m \o <<Begin(File)>> \in Seq(Tokens)
    BY <1>4, <1>6, ConcatProperties
  <2>4. (m \o <<Begin(File)>>) \o <<>> = m \o <<Begin(File)>>
    BY <2>3, ConcatEmptySeq
  <2>5. QED
    BY <1>1, <1>5, <2>1, <2>2, <2>4
<1>9. Skeleton(buffer'.text) = Markers(choice.files)[index]
  <2>1. buffer.text \in Seq(Tokens)
    BY DEF ProgramInv, Types, Buffers
  <2>2. Skeleton(buffer'.text) = (m \o <<Begin(File)>>) \o <<End(File)>>
    BY <1>3, <1>4, <1>8, <2>1, SkeletonOfText
  <2>3. PICK x \in Tokens, y \in Tokens : x = Begin(File) /\ y = End(File)
    BY <1>4
  <2>4. (m \o <<x>>) \o <<y>> = m \o <<x, y>>
    <3>1. <<x>> \in Seq(Tokens) /\ <<y>> \in Seq(Tokens) /\ <<x, y>> \in Seq(Tokens)
      OBVIOUS
    <3>4. <<x>> \o <<y>> = <<x, y>>
      <4>1. /\ Len(<<x>>) = 1 /\ Len(<<y>>) = 1 /\ <<x>>[1] = x /\ <<y>>[1] = y
            /\ Len(<<x, y>>) = 2 /\ <<x, y>>[1] = x /\ <<x, y>>[2] = y
        OBVIOUS
      <4> DEFINE u == <<x>>
                 v == <<y>>
                 w == <<x, y>>
      <4> HIDE DEF u, v, w
      <4>2. /\ u \in Seq(Tokens) /\ v \in Seq(Tokens) /\ w \in Seq(Tokens)
            /\ Len(u) = 1 /\ Len(v) = 1 /\ u[1] = x /\ v[1] = y
            /\ Len(w) = 2 /\ w[1] = x /\ w[2] = y
        BY <3>1, <4>1 DEF u, v, w
      <4>3. /\ u \o v \in Seq(Tokens) /\ Len(u \o v) = Len(u) + Len(v)
            /\ \A i \in 1 .. Len(u) + Len(v) :
                 (u \o v)[i] = IF i <= Len(u) THEN u[i] ELSE v[i - Len(u)]
        BY <4>2, ConcatProperties
      <4>4. Len(u \o v) = Len(w) /\ \A i \in 1 .. Len(u \o v) : (u \o v)[i] = w[i]
        BY <4>2, <4>3
      <4>5. u \o v = w
        BY <4>2, <4>3, <4>4, SeqEqual
      <4>6. QED
        BY <4>5 DEF u, v, w
    <3>2. (m \o <<x>>) \o <<y>> = m \o (<<x>> \o <<y>>)
      BY <1>6, <3>1, ConcatAssociative
    <3>3. QED
      BY <3>2, <3>4
  <2>5. QED
    BY <1>7, <2>2, <2>3, <2>4
<1>10. CASE index = Len(choice.files)
  BY <1>1, <1>3, <1>9, <1>10 DEF PackInv, MarkersOf
<1>11. CASE index # Len(choice.files)
  <2>1. index' \in 1 .. Len(choice.files) /\ index' - 1 = index
    BY <1>3, <1>4, <1>11
  <2>2. QED
    BY <1>1, <1>3, <1>9, <1>11, <2>1 DEF PackInv
<1>12. QED
  BY <1>10, <1>11

-----------------------------------------------------------------------------
(* The whole file, and the exit status.                                    *)

LEMMA LoadedLeavesWholeFile ==
  ASSUME ProgramInv, ReadingInv, PackInv, Loaded
  PROVE  LoadsWholeFile'
<1>1. /\ pc = "read" /\ source \in Opened /\ AtEnd
      /\ buffer.text = before \o source.text
      /\ UNCHANGED <<choice, before, source>>
  BY LoadedFacts
<1>2. AtEnd'
  BY <1>1 DEF AtEnd
<1>3. CASE ~ Packing
  <2>1. buffer'.text = buffer.text \o <<Nul>>
    BY <1>3, LoadedFacts
  <2>2. buffer'.text = before' \o source'.text \o <<Nul>>
    BY <1>1, <2>1
  <2>3. QED
    BY <1>2, <2>2 DEF LoadsWholeFile
<1>4. CASE Packing
  <2>1. index \in 1 .. Len(choice.files) /\ buffer'.text = buffer.text \o <<End(File)>>
    BY <1>4, LoadedFacts
  <2>2. choice.files \in Seq(Nat)
    BY <1>1 DEF ProgramInv, Types, Choices
  <2>3. choice.files[index] \in {choice.files[k] : k \in DOMAIN choice.files}
    BY <2>1, <2>2, LenProperties
  <2>4. End(File) \in {End(f) : f \in {choice'.files[k] : k \in DOMAIN choice'.files}}
    BY <1>1, <2>3 DEF File
  <2>5. buffer'.text = before' \o source'.text \o <<End(File)>>
    BY <1>1, <2>1
  <2>6. QED
    BY <1>2, <2>4, <2>5 DEF LoadsWholeFile
<1>5. QED
  BY <1>3, <1>4

\* 1 is not lost among the bits that the system keeps of a status, and 0 is 0.
LEMMA StatusFacts == 0 % StatusRange = 0 /\ 1 % StatusRange # 0
<1>1. \A n \in Nat \ {0, 1} : 0 % n = 0 /\ 1 % n = 1
  OBVIOUS
<1>2. QED
  BY <1>1, SizesAssumption

LEMMA ExitInit == Init => NoticedFailuresAreTold
BY DEF Init, NoticedFailuresAreTold

LEMMA MainExits == ProgramInv /\ Main => NoticedFailuresAreTold'
<1> SUFFICES ASSUME ProgramInv, Main, pc' = "exited" PROVE NoticedFailuresAreTold'
  BY DEF NoticedFailuresAreTold
<1>1. /\ pc = "main" /\ choice \in Choices(Args) /\ messages \in Nat
      /\ failed = 0 /\ written = <<>> /\ failed' = 0
      /\ choice' = Settled
  BY MainFacts DEF ProgramInv, Types, Plan
<1>2. choice'.mode = choice.mode
  BY <1>1, SettledFacts
<1>3. CASE choice.mode = "refuse"
  <2>1. status' # 0 /\ messages' = messages + 1 /\ written' = written
    BY <1>3, MainFacts, StatusFacts
  <2>2. messages' # 0
    BY <1>1, <2>1
  <2>3. QED
    BY <1>1, <2>1, <2>2 DEF NoticedFailuresAreTold
<1>4. CASE choice.mode = "help"
  <2>1. status' = 0
    BY <1>4, MainFacts, StatusFacts
  <2>2. ~ Packing' /\ choice'.mode # "refuse"
    BY <1>2, <1>4 DEF Packing
  <2>3. QED
    BY <1>1, <2>1, <2>2, StatusFacts DEF NoticedFailuresAreTold
<1>5. QED
  BY <1>3, <1>4, MainFacts

\* Failing after something was said, or with the switch that turns it off.
LEMMA FailingIsSaid ==
  ASSUME ProgramInv, pc \notin {"main", "exited"}, Exit(1), Tell(1) \/ TellAnyway,
         UNCHANGED <<choice, written>>
  PROVE  NoticedFailuresAreTold'
<1>1. messages \in Nat /\ written = <<>>
  BY DEF ProgramInv, Types, Plan
<1>2. status' # 0
  BY StatusFacts DEF Exit
<1>3. messages' = messages + 1 \/ choice.quiet
  BY DEF Tell, TellAnyway
<1>4. messages' = 0 => choice'.quiet
  BY <1>1, <1>3
<1>5. QED
  BY <1>1, <1>2, <1>4 DEF NoticedFailuresAreTold

LEMMA EndsExits == ProgramInv /\ PackInv /\ Ends => NoticedFailuresAreTold'
<1> SUFFICES ASSUME ProgramInv, PackInv, Ends PROVE NoticedFailuresAreTold'
  OBVIOUS
<1>1. /\ pc \in {"open", "read", "write", "run"} /\ choice' = choice
      /\ choice.mode # "refuse" /\ messages \in Nat
      /\ failed = 0 /\ written = <<>>
      /\ pc = "write" => Packing
      /\ pc = "run" => ~ Packing
  BY EndsFacts DEF ProgramInv, Types, Plan
<1>2. CASE OpenFails
  BY <1>1, <1>2, FailingIsSaid DEF OpenFails
<1>3. CASE ReadFails
  BY <1>1, <1>3, FailingIsSaid DEF ReadFails
<1>4. CASE OutputCannotBeOpened
  BY <1>1, <1>4, FailingIsSaid DEF OutputCannotBeOpened
<1>5. CASE PackWrites
  <2>1. /\ pc = "write" /\ Write(buffer.text) /\ buffer' = buffer
        /\ failed' = 0 /\ status' = 0
    BY <1>1, <1>5, StatusFacts DEF PackWrites, Exit, loading
  <2>2. Skeleton(buffer'.text) = MarkersOf(choice'.files)
    BY <1>1, <2>1 DEF PackInv
  <2>3. \E k \in 0 .. Len(buffer'.text) : written' = SubSeq(buffer'.text, 1, k)
    BY <2>1 DEF Write
  <2>4. QED
    BY <1>1, <2>1, <2>2, <2>3, StatusFacts DEF NoticedFailuresAreTold
<1>6. CASE RunUnpack
  <2>1. ~ Packing' /\ written' = <<>>
    BY <1>1, <1>6 DEF RunUnpack, Packing
  <2>2. CASE choice.threads = 0
    BY <1>6, <2>2 DEF RunUnpack, GoOn, NoticedFailuresAreTold
  <2>3. CASE choice.threads # 0
    <3>1. PICK n \in 0 .. MaxFailed, warnings \in 0 .. 1 :
            failed' = n /\ Exit(n) /\ Tell(n + warnings)
      BY <1>6, <2>3 DEF RunUnpack
    <3>2. status' = failed' % StatusRange
      BY <3>1 DEF Exit
    <3>3. status' # 0 => n # 0
      BY <3>1, <3>2, StatusFacts
    <3>4. n # 0 => messages' # 0 \/ choice.quiet
      BY <1>1, <3>1 DEF Tell
    <3>5. QED
      BY <1>1, <2>1, <3>2, <3>3, <3>4 DEF NoticedFailuresAreTold
  <2>4. QED
    BY <2>2, <2>3
<1>7. CASE RunOther
  <2>1. pc = "run" /\ status' = 0 /\ failed' = 0
    BY <1>1, <1>7, StatusFacts DEF RunOther, Exit, loading
  <2>2. ~ Packing'
    BY <1>1, <2>1 DEF Packing
  <2>3. QED
    BY <1>1, <2>1, <2>2, StatusFacts DEF NoticedFailuresAreTold
<1>8. QED
  BY <1>2, <1>3, <1>4, <1>5, <1>6, <1>7 DEF Ends

-----------------------------------------------------------------------------
(* The invariant and what follows from it.                                 *)

AllInv == ProgramInv /\ ReadingInv /\ PackInv /\ LoadsWholeFile /\ NoticedFailuresAreTold

LEMMA AllInit == Init => AllInv
<1>1. Init => LoadsWholeFile
  BY DEF Init, LoadsWholeFile
<1>2. QED
  BY <1>1, InitFacts, ExitInit DEF AllInv

LEMMA AllNext == AllInv /\ [Next]_vars => AllInv'
<1> SUFFICES ASSUME AllInv, [Next]_vars PROVE AllInv'
  OBVIOUS
<1>1. ProgramInv /\ ReadingInv /\ PackInv /\ LoadsWholeFile /\ NoticedFailuresAreTold
  BY DEF AllInv
\* In most steps the last two have nothing to say about where the program goes.
<1>2. /\ pc' \notin {"run", "write", "open"} => LoadsWholeFile'
      /\ pc' # "exited" => NoticedFailuresAreTold'
  BY DEF LoadsWholeFile, NoticedFailuresAreTold
<1>3. CASE Main
  <2>1. pc' \notin {"run", "write"} /\ pc = "main" /\ source = NoSource
    BY <1>1, <1>3, MainFacts DEF ReadingInv
  <2>2. pc' = "open" => source' = NoSource
    BY <1>1, <1>3, <2>1, MainFacts
  <2>3. LoadsWholeFile'
    BY <2>1, <2>2 DEF LoadsWholeFile
  <2>4. QED
    BY <1>1, <1>3, <2>3, MainKeepsTypes, MainKeepsReading, MainKeepsPack, MainExits DEF AllInv
<1>4. CASE Open
  <2>1. pc' \in {"measure", "aborted"}
    BY <1>4 DEF Open, GoOnWith, GoOn
  <2>2. QED
    BY <1>1, <1>2, <1>4, <2>1, OpenKeepsTypes, OpenKeepsReading, OpenKeepsPack DEF AllInv
<1>5. CASE Measure
  <2>1. pc' \in {"read", "aborted"}
    BY <1>5 DEF Measure, EnsureRead, GoOnWith, GoOn
  <2>2. QED
    BY <1>1, <1>2, <1>5, <2>1, MeasureKeepsTypes, MeasureKeepsReading, MeasureKeepsPack DEF AllInv
<1>6. CASE ReadSome
  <2>1. pc' = "read" /\ UNCHANGED <<pc, choice, index, buffer, before>>
    BY <1>6 DEF ReadSome
  <2>2. PackInv'
    BY <1>1, <2>1, ReadingKeepsPack
  <2>3. QED
    BY <1>1, <1>2, <1>6, <2>1, <2>2, ReadSomeKeepsTypes, ReadSomeKeepsReading DEF AllInv
<1>7. CASE ReadOn
  <2>1. pc = "read" /\ pc' \in {"read", "aborted"} /\ UNCHANGED <<choice, index, before>>
    BY <1>1, <1>7, ReadOnFacts
  <2>2. PackInv'
    BY <1>1, <2>1, ReadingKeepsPack
  <2>3. QED
    BY <1>1, <1>2, <1>7, <2>1, <2>2, ReadOnKeepsTypes, ReadOnKeepsReading DEF AllInv
<1>8. CASE Loaded
  <2>1. pc' \notin {"main", "measure", "read", "exited"}
    BY <1>1, <1>8, LoadedFacts
  <2>2. ReadingInv'
    BY <2>1 DEF ReadingInv
  <2>3. QED
    BY <1>1, <1>2, <1>8, <2>1, <2>2, LoadedKeepsTypes, LoadedKeepsPack, LoadedLeavesWholeFile
       DEF AllInv
<1>9. CASE Ends
  <2>1. pc' \in {"exited", "aborted"}
    BY <1>1, <1>9, EndsFacts
  <2>2. ReadingInv' /\ PackInv'
    BY <2>1 DEF ReadingInv, PackInv
  <2>3. QED
    BY <1>1, <1>2, <1>9, <2>1, <2>2, EndsKeepTypes, EndsExits DEF AllInv
<1>10. CASE Feed \/ HangUp
  <2>1. pc \in {"measure", "read"} /\ UNCHANGED <<pc, choice, index, buffer, before>>
    BY <1>1, <1>10, OthersFacts
  <2>2. PackInv'
    BY <1>1, <2>1, ReadingKeepsPack
  <2>3. QED
    BY <1>1, <1>2, <1>10, <2>1, <2>2, OthersKeepTypes, OthersKeepReading DEF AllInv
<1>11. CASE UNCHANGED vars
  <2>1. ProgramInv'
    BY <1>1, <1>11 DEF vars, ProgramInv, Types, Plan, Packing
  <2>2. ReadingInv'
    BY <1>1, <1>11 DEF vars, ReadingInv
  <2>3. PackInv'
    BY <1>1, <1>11, ReadingKeepsPack DEF vars
  <2>4. LoadsWholeFile' /\ NoticedFailuresAreTold'
    BY <1>1, <1>11 DEF vars, LoadsWholeFile, AtEnd, NoticedFailuresAreTold, Packing
  <2>5. QED
    BY <2>1, <2>2, <2>3, <2>4 DEF AllInv
<1>12. QED
  BY <1>3, <1>4, <1>5, <1>6, <1>7, <1>8, <1>9, <1>10, <1>11 DEF Next, Step, Ends

\* The invariant of the program, from its command line to its end.
THEOREM ProgramInvariant == Spec => []AllInv
<1>1. QED
  BY AllInit, AllNext, PTL DEF Spec

\* Every byte that a call of read may write to is inside the region of the
\* buffer (ensure, and how often the size to read is doubled).
THEOREM ReadsStayTheorem == Spec => []ReadsStayInRegion
<1>1. AllInv => ReadsStayInRegion
  <2> SUFFICES ASSUME AllInv, pc = "read" PROVE Len(buffer.text) + want <= Capacity(buffer)
    BY DEF ReadsStayInRegion
  <2>1. buffer.m_capacity \in Nat /\ buffer.m_capacity <= MemoryLimit
        /\ Len(buffer.text) + want <= buffer.m_capacity
    BY DEF AllInv, ReadingInv, ProgramInv, Types, Buffers
  <2>2. TopBit \in Int /\ MemoryLimit \in Nat /\ MemoryLimit < TopBit
    BY SizesAssumption, SizeMaxAssumption DEF TopBit
  <2>3. Capacity(buffer) = buffer.m_capacity
    BY <2>1, <2>2 DEF Capacity, IsResizeable
  <2>4. QED
    BY <2>1, <2>3
<1>2. QED
  BY <1>1, ProgramInvariant, PTL

\* When load_file_handle has succeeded, the buffer has got everything up to the
\* end of the file, in however many pieces it came and however it has grown.
THEOREM WholeFileTheorem == Spec => []LoadsWholeFile
<1>1. AllInv => LoadsWholeFile
  BY DEF AllInv
<1>2. QED
  BY <1>1, ProgramInvariant, PTL

\* A failure that the program has noticed is told and makes the status another
\* one than 0; an archive was complete before its first byte was written
\* (textunpack_main, textunpack_pack).
THEOREM NoticedFailuresTheorem == Spec => []NoticedFailuresAreTold
<1>1. AllInv => NoticedFailuresAreTold
  BY DEF AllInv
<1>2. QED
  BY <1>1, ProgramInvariant, PTL

-----------------------------------------------------------------------------
(* Where an option stands.                                                 *)

LEMMA PlaceIs ==
  ASSUME NEW word, NEW args, NEW last \in Int, NEW i \in 2 .. last,
         args[i] = word, \A j \in 2 .. i - 1 : args[j] # word
  PROVE  PlaceOf(word, args, last) = i
<1> DEFINE places == {k \in 2 .. last : args[k] = word}
           First(k) == k \in places /\ \A j \in places : k <= j
<1>1. i \in places /\ places \in SUBSET Nat
  OBVIOUS
<1>2. \A k : First(k) <=> k = i
  <2>1. \A k \in places : i <= k
    OBVIOUS
  <2>2. \A k \in places : k <= i => k = i
    BY <1>1, <2>1
  <2> HIDE DEF places
  <2> QED BY <1>1, <2>1, <2>2
<1>3. PlaceOf(word, args, last) = CHOOSE k \in places : \A j \in places : k <= j
  BY <1>1, Zenon DEF PlaceOf
<1>4. First(CHOOSE k \in places : \A j \in places : k <= j)
  <2> HIDE DEF places
  <2> QED BY <1>2, Zenon
<1> HIDE DEF First
<1> QED BY <1>2, <1>3, <1>4, Zenon

LEMMA NoPlace ==
  ASSUME NEW word, NEW args, NEW last \in Int, \A j \in 2 .. last : args[j] # word
  PROVE  PlaceOf(word, args, last) = 0
<1>1. {k \in 2 .. last : args[k] = word} = {}
  OBVIOUS
<1> QED BY <1>1, Zenon DEF PlaceOf

\* None of the words is in s.
Lacks(s, X) == \A k \in 1 .. Len(s) : s[k] \notin X

LEMMA LacksParts ==
  ASSUME NEW s \in Seq(Args), NEW t \in Seq(Args), NEW X
  PROVE  s \o t \in Seq(Args) /\ (Lacks(s \o t, X) <=> Lacks(s, X) /\ Lacks(t, X))
<1> DEFINE u == s \o t
<1>1. /\ u \in Seq(Args) /\ Len(s) \in Nat /\ Len(t) \in Nat /\ Len(u) = Len(s) + Len(t)
      /\ \A k \in 1 .. Len(s) : u[k] = s[k]
      /\ \A k \in 1 .. Len(t) : u[Len(s) + k] = t[k]
  BY Concatenation
<1> HIDE DEF u
<1>2. ASSUME Lacks(u, X) PROVE Lacks(s, X) /\ Lacks(t, X)
  <2>1. ASSUME NEW k \in 1 .. Len(s) PROVE s[k] \notin X
    <3>1. k \in 1 .. Len(u) /\ u[k] = s[k]
      BY <1>1
    <3> QED BY <1>2, <3>1 DEF Lacks
  <2>2. ASSUME NEW k \in 1 .. Len(t) PROVE t[k] \notin X
    <3>1. Len(s) + k \in 1 .. Len(u) /\ u[Len(s) + k] = t[k]
      BY <1>1
    <3> QED BY <1>2, <3>1 DEF Lacks
  <2> QED BY <2>1, <2>2 DEF Lacks
<1>3. ASSUME Lacks(s, X), Lacks(t, X) PROVE Lacks(u, X)
  <2> SUFFICES ASSUME NEW k \in 1 .. Len(u) PROVE u[k] \notin X
    BY DEF Lacks
  <2>1. CASE k <= Len(s)
    BY <1>1, <1>3, <2>1 DEF Lacks
  <2>2. CASE ~ (k <= Len(s))
    <3>1. k - Len(s) \in 1 .. Len(t) /\ u[k] = t[k - Len(s)]
      <4>1. k - Len(s) \in 1 .. Len(t) /\ Len(s) + (k - Len(s)) = k
        BY <1>1, <2>2
      <4> QED BY <1>1, <4>1
    <3> QED BY <1>3, <3>1 DEF Lacks
  <2> QED BY <2>1, <2>2
<1> QED BY <1>1, <1>2, <1>3 DEF u

LEMMA LacksOne ==
  ASSUME NEW w \in Args, NEW X
  PROVE  <<w>> \in Seq(Args) /\ Len(<<w>>) = 1 /\ <<w>>[1] = w /\ (Lacks(<<w>>, X) <=> w \notin X)
<1>1. <<w>> \in Seq(Args) /\ Len(<<w>>) = 1 /\ <<w>>[1] = w
  OBVIOUS
<1> QED BY <1>1 DEF Lacks

\* Three parts, and what is left without the one in the middle.
LEMMA WithoutMiddle ==
  ASSUME NEW l \in Seq(Args), NEW m \in Seq(Args), NEW r \in Seq(Args)
  PROVE  /\ Len(l \o (m \o r)) = Len(l) + Len(m) + Len(r)
         /\ Len(l) \in Nat /\ Len(m) \in Nat /\ Len(r) \in Nat
         /\ \A k \in 1 .. Len(l) : (l \o (m \o r))[k] = l[k]
         /\ \A k \in 1 .. Len(m) : (l \o (m \o r))[Len(l) + k] = m[k]
         /\ Without(l \o (m \o r), Len(l) + 1, Len(m)) = l \o r
<1> DEFINE t == m \o r
           a == l \o t
<1>1. /\ t \in Seq(Args) /\ Len(l) \in Nat /\ Len(m) \in Nat /\ Len(r) \in Nat /\ Len(t) = Len(m) + Len(r)
      /\ \A k \in 1 .. Len(m) : t[k] = m[k]
      /\ \A k \in 1 .. Len(r) : t[Len(m) + k] = r[k]
  BY Concatenation
<1> HIDE DEF t
<1>2. /\ a \in Seq(Args) /\ Len(a) = Len(l) + Len(t)
      /\ \A k \in 1 .. Len(l) : a[k] = l[k]
      /\ \A k \in 1 .. Len(t) : a[Len(l) + k] = t[k]
  <2>1. t \in Seq(Args)
    BY <1>1
  <2> QED BY <2>1, Concatenation
<1> HIDE DEF a
<1>3. \A k \in 1 .. Len(l) : a[k] = l[k]
  BY <1>2
<1>4. \A k \in 1 .. Len(t) : a[Len(l) + k] = t[k]
  BY <1>2
<1>5. ASSUME NEW k \in 1 .. Len(m) PROVE a[Len(l) + k] = m[k]
  <2>1. k \in 1 .. Len(t)
    BY <1>1
  <2> QED BY <1>1, <1>4, <2>1
<1>6. ASSUME NEW k \in 1 .. Len(r) PROVE a[Len(l) + Len(m) + k] = r[k]
  <2>1. Len(m) + k \in 1 .. Len(t) /\ Len(l) + (Len(m) + k) = Len(l) + Len(m) + k
    BY <1>1
  <2>2. a[Len(l) + (Len(m) + k)] = t[Len(m) + k]
    BY <1>4, <2>1
  <2> QED BY <1>1, <2>1, <2>2
<1> DEFINE p == SubSeq(a, 1, (Len(l) + 1) - 1)
           q == SubSeq(a, (Len(l) + 1) + Len(m), Len(a))
<1>7. p = l
  <2>1. (Len(l) + 1) - 1 = Len(l) /\ Len(l) \in Int /\ 1 \in Int
    BY <1>1
  <2>2. \A i \in 1 .. Len(l) : a[i] \in Args
    BY <1>1, <1>3, ElementOfSeq
  <2>3. /\ SubSeq(a, 1, Len(l)) \in Seq(Args)
        /\ Len(SubSeq(a, 1, Len(l))) = IF 1 <= Len(l) THEN Len(l) - 1 + 1 ELSE 0
        /\ \A i \in 1 .. Len(l) - 1 + 1 : SubSeq(a, 1, Len(l))[i] = a[1 + i - 1]
    BY <2>1, <2>2, SubSeqProperties
  <2>4. p = SubSeq(a, 1, Len(l))
    BY <2>1
  <2> HIDE DEF p
  <2>5. p \in Seq(Args) /\ Len(p) = Len(l) /\ \A i \in 1 .. Len(p) : p[i] = l[i]
    BY <1>1, <1>3, <2>3, <2>4
  <2> QED BY <2>5, SeqEqual
<1>8. q = r
  <2> DEFINE f == Len(l) + 1 + Len(m)
             g == Len(l) + Len(m) + Len(r)
  <2>1. (Len(l) + 1) + Len(m) = f /\ Len(a) = g /\ f \in Int /\ g \in Int
    BY <1>1, <1>2
  <2>2. \A i \in f .. g : a[i] \in Args
    <3>1. \A i \in f .. g : i \in 1 .. Len(a)
      BY <1>1, <1>2
    <3> QED BY <1>2, <3>1, ElementOfSeq
  <2>4. q = SubSeq(a, f, g)
    BY <2>1
  <2> HIDE DEF f, g
  <2>3. /\ SubSeq(a, f, g) \in Seq(Args)
        /\ Len(SubSeq(a, f, g)) = IF f <= g THEN g - f + 1 ELSE 0
        /\ \A i \in 1 .. g - f + 1 : SubSeq(a, f, g)[i] = a[f + i - 1]
    BY <2>1, <2>2, SubSeqProperties
  <2>6. \A i \in 1 .. Len(r) : f + i - 1 = Len(l) + Len(m) + i
    BY <1>1 DEF f
  <2>7. g - f + 1 = Len(r) /\ (IF f <= g THEN g - f + 1 ELSE 0) = Len(r)
    BY <1>1 DEF f, g
  <2> HIDE DEF q
  <2>5. q \in Seq(Args) /\ Len(q) = Len(r) /\ \A i \in 1 .. Len(q) : q[i] = r[i]
    BY <1>6, <2>3, <2>4, <2>6, <2>7
  <2> QED BY <2>5, SeqEqual
<1>9. Without(a, Len(l) + 1, Len(m)) = l \o r
  BY <1>7, <1>8, Zenon DEF Without
<1>10. Len(a) = Len(l) + Len(m) + Len(r)
  BY <1>1, <1>2
<1> QED BY <1>1, <1>3, <1>5, <1>9, <1>10 DEF a, t

\* The first of some words that are the same is eaten.
LEMMA EatAt ==
  ASSUME NEW l \in Seq(Args), NEW r \in Seq(Args), NEW name \in Args,
         Len(l) >= 1, \A k \in 2 .. Len(l) : l[k] # name
  PROVE  EatBoolean(l \o (<<name>> \o r), name) = l \o r
<1> DEFINE m == <<name>>
           a == l \o (m \o r)
           i == Len(l) + 1
<1>1. m \in Seq(Args) /\ Len(m) = 1 /\ m[1] = name
  BY LacksOne
<1>8. a = l \o (<<name>> \o r)
  OBVIOUS
<1> HIDE DEF m
<1>2. /\ Len(a) = Len(l) + Len(m) + Len(r)
      /\ Len(l) \in Nat /\ Len(m) \in Nat /\ Len(r) \in Nat
      /\ \A k \in 1 .. Len(l) : a[k] = l[k]
      /\ \A k \in 1 .. Len(m) : a[Len(l) + k] = m[k]
      /\ Without(a, Len(l) + 1, Len(m)) = l \o r
  BY <1>1, WithoutMiddle
<1> HIDE DEF a
<1>3. Len(a) \in Int /\ i \in 2 .. Len(a) /\ a[i] = name /\ \A j \in 2 .. i - 1 : a[j] # name
  <2>1. Len(a) \in Int /\ i \in 2 .. Len(a)
    BY <1>1, <1>2
  <2>2. 1 \in 1 .. Len(m)
    BY <1>1
  <2>3. a[i] = name
    BY <1>1, <1>2, <2>2
  <2>4. ASSUME NEW j \in 2 .. i - 1 PROVE a[j] # name
    <3>1. j \in 1 .. Len(l) /\ j \in 2 .. Len(l)
      BY <1>2
    <3> QED BY <1>2, <3>1
  <2> QED BY <2>1, <2>3, <2>4
<1> HIDE DEF i
<1>4. PlaceOf(name, a, Len(a)) = i
  BY <1>3, PlaceIs
<1>5. i # 0
  BY <1>3
<1>6. EatBoolean(a, name) = Without(a, i, 1)
  BY <1>4, <1>5, Zenon DEF EatBoolean
<1> QED BY <1>1, <1>2, <1>6, <1>8 DEF i

LEMMA EatNothing ==
  ASSUME NEW args \in Seq(Args), NEW name, \A k \in 2 .. Len(args) : args[k] # name
  PROVE  EatBoolean(args, name) = args
<1>1. Len(args) \in Int
  BY LenProperties
<1>2. PlaceOf(name, args, Len(args)) = 0
  BY <1>1, NoPlace
<1> QED BY <1>2, Zenon DEF EatBoolean

\* A key and the word behind it are eaten together.
LEMMA EatKvAt ==
  ASSUME NEW l \in Seq(Args), NEW r \in Seq(Args), NEW key \in Args, NEW v \in Args,
         Len(l) >= 1, \A k \in 2 .. Len(l) : l[k] # key
  PROVE  EatKv(l \o (<<key, v>> \o r), key) = [args |-> l \o r, value |-> v]
<1> DEFINE m == <<key, v>>
           a == l \o (m \o r)
           i == Len(l) + 1
<1>1. m \in Seq(Args) /\ Len(m) = 2 /\ m[1] = key /\ m[2] = v
  OBVIOUS
<1>8. a = l \o (<<key, v>> \o r)
  OBVIOUS
<1> HIDE DEF m
<1>2. /\ Len(a) = Len(l) + Len(m) + Len(r)
      /\ Len(l) \in Nat /\ Len(m) \in Nat /\ Len(r) \in Nat
      /\ \A k \in 1 .. Len(l) : a[k] = l[k]
      /\ \A k \in 1 .. Len(m) : a[Len(l) + k] = m[k]
      /\ Without(a, Len(l) + 1, Len(m)) = l \o r
  BY <1>1, WithoutMiddle
<1> HIDE DEF a
<1>3. Len(a) - 1 \in Int /\ i \in 2 .. Len(a) - 1 /\ a[i] = key /\ a[i + 1] = v
      /\ \A j \in 2 .. i - 1 : a[j] # key
  <2>1. Len(a) - 1 \in Int /\ i \in 2 .. Len(a) - 1 /\ i + 1 = Len(l) + 2
    BY <1>1, <1>2
  <2>2. 1 \in 1 .. Len(m) /\ 2 \in 1 .. Len(m)
    BY <1>1
  <2>3. a[Len(l) + 1] = key /\ a[Len(l) + 2] = v
    BY <1>1, <1>2, <2>2
  <2>4. ASSUME NEW j \in 2 .. i - 1 PROVE a[j] # key
    <3>1. j \in 1 .. Len(l) /\ j \in 2 .. Len(l)
      BY <1>2
    <3> QED BY <1>2, <3>1
  <2> QED BY <2>1, <2>3, <2>4
<1> HIDE DEF i
<1>4. PlaceOf(key, a, Len(a) - 1) = i
  BY <1>3, PlaceIs
<1>5. i # 0
  BY <1>3
<1>6. EatKv(a, key) = [args |-> Without(a, i, 2), value |-> a[i + 1]]
  BY <1>4, <1>5, Zenon DEF EatKv
<1>7. Without(a, i, 2) = l \o r
  BY <1>1, <1>2 DEF i
<1> QED BY <1>3, <1>6, <1>7, <1>8

LEMMA EatKvNothing ==
  ASSUME NEW args \in Seq(Args), NEW key, \A k \in 2 .. Len(args) : args[k] # key
  PROVE  EatKv(args, key) = [args |-> args, value |-> NoWord]
<1>1. Len(args) - 1 \in Int /\ \A k \in 2 .. Len(args) - 1 : args[k] # key
  <2>1. Len(args) \in Nat
    BY LenProperties
  <2> QED BY <2>1
<1>2. PlaceOf(key, args, Len(args) - 1) = 0
  BY <1>1, NoPlace
<1> QED BY <1>2, Zenon DEF EatKv

\* Around the first of some words that are the same.
LEMMA SplitAtFirst ==
  ASSUME NEW u \in Seq(Args), NEW name, ~ Lacks(u, {name})
  PROVE  /\ name \in Args
         /\ \E p, q \in Seq(Args) : u = p \o (<<name>> \o q) /\ Lacks(p, {name})
<1> DEFINE Here == {k \in 1 .. Len(u) : u[k] = name}
<1>1. Here \in SUBSET Nat /\ Here # {} /\ Len(u) \in Nat
  BY LenProperties DEF Lacks
<1>2. PICK n \in Here : \A k \in Here : n <= k
  <2> HIDE DEF Here
  <2> QED BY <1>1, LeastNatural
<1>3. n \in 1 .. Len(u) /\ u[n] = name /\ \A k \in 1 .. n - 1 : u[k] # name
  BY <1>1, <1>2
<1>4. name \in Args
  BY <1>3, ElementOfSeq
<1> DEFINE p == SubSeq(u, 1, n - 1)
           q == SubSeq(u, n + 1, Len(u))
<1>5. p \in Seq(Args) /\ Len(p) = n - 1 /\ \A k \in 1 .. n - 1 : p[k] = u[k]
  <2>1. 1 \in Int /\ n - 1 \in Int /\ \A i \in 1 .. n - 1 : u[i] \in Args
    BY <1>3, ElementOfSeq
  <2>2. /\ p \in Seq(Args) /\ Len(p) = IF 1 <= n - 1 THEN (n - 1) - 1 + 1 ELSE 0
        /\ \A i \in 1 .. (n - 1) - 1 + 1 : p[i] = u[1 + i - 1]
    BY <2>1, SubSeqProperties
  <2> HIDE DEF p
  <2> QED BY <1>3, <2>2
<1>6. q \in Seq(Args)
  <2>1. n + 1 \in Int /\ Len(u) \in Int /\ \A i \in n + 1 .. Len(u) : u[i] \in Args
    BY <1>1, <1>3, ElementOfSeq
  <2> QED BY <2>1, SubSeqProperties
<1>7. u = p \o (<<name>> \o q)
  <2>1. SubSeq(u, n, Len(u)) = <<u[n]>> \o q
    <3>1. n \in 1 .. Len(u) /\ Len(u) \in n .. Len(u)
      BY <1>1, <1>3
    <3> QED BY <3>1, SubSeqRecursiveFirst
  <2>2. p \o SubSeq(u, n, Len(u)) = u
    <3>1. 1 \in 1 .. Len(u) + 1 /\ n - 1 \in 1 - 1 .. Len(u) /\ Len(u) \in n - 1 .. Len(u) /\ (n - 1) + 1 = n
      BY <1>1, <1>3
    <3>2. SubSeq(u, 1, n - 1) \o SubSeq(u, (n - 1) + 1, Len(u)) = SubSeq(u, 1, Len(u))
      BY <3>1, ConcatAdjacentSubSeq
    <3>3. SubSeq(u, 1, Len(u)) = u
      BY SubSeqFull
    <3> QED BY <3>1, <3>2, <3>3
  <2> QED BY <1>3, <2>1, <2>2
<1>8. Lacks(p, {name})
  <2> HIDE DEF p
  <2> QED BY <1>3, <1>5 DEF Lacks
<1> HIDE DEF p, q
<1> QED BY <1>4, <1>5, <1>6, <1>7, <1>8

LEMMA FirstAndRest ==
  ASSUME NEW x \in Args, NEW t \in Seq(Args)
  PROVE  /\ <<x>> \o t \in Seq(Args) /\ Len(<<x>> \o t) = Len(t) + 1 /\ Len(t) \in Nat
         /\ (<<x>> \o t)[1] = x
         /\ \A k \in 2 .. Len(t) + 1 : (<<x>> \o t)[k] = t[k - 1]
<1> DEFINE m == <<x>>
           a == m \o t
<1>1. m \in Seq(Args) /\ Len(m) = 1 /\ m[1] = x
  BY LacksOne
<1>4. a = <<x>> \o t
  OBVIOUS
<1> HIDE DEF m
<1>2. /\ a \in Seq(Args) /\ Len(a) = Len(m) + Len(t) /\ Len(t) \in Nat
      /\ \A i \in 1 .. Len(m) + Len(t) : a[i] = IF i <= Len(m) THEN m[i] ELSE t[i - Len(m)]
  BY <1>1, ConcatProperties, LenProperties
<1> HIDE DEF a
<1>3. a[1] = x /\ \A k \in 2 .. Len(t) + 1 : a[k] = t[k - 1]
  BY <1>1, <1>2
<1>5. Len(a) = Len(t) + 1
  BY <1>1, <1>2
<1> QED BY <1>2, <1>3, <1>4, <1>5

LEMMA EatInRest ==
  ASSUME NEW x \in Args, NEW p \in Seq(Args), NEW q \in Seq(Args), NEW name \in Args, Lacks(p, {name})
  PROVE  EatBoolean(<<x>> \o (p \o (<<name>> \o q)), name) = <<x>> \o (p \o q)
<1> DEFINE l == <<x>> \o p
           m == <<name>>
<1>1. <<x>> \in Seq(Args) /\ m \in Seq(Args)
  BY LacksOne
<1>2. m \o q \in Seq(Args)
  BY <1>1, ConcatProperties
<1>3. l \in Seq(Args) /\ Len(l) = Len(p) + 1 /\ Len(p) \in Nat /\ \A k \in 2 .. Len(p) + 1 : l[k] = p[k - 1]
  BY FirstAndRest
<1>4. <<x>> \o (p \o (m \o q)) = l \o (m \o q)
  BY <1>1, <1>2, ConcatAssociative
<1>5. <<x>> \o (p \o q) = l \o q
  BY <1>1, ConcatAssociative
<1> HIDE DEF l
<1>6. \A k \in 2 .. Len(l) : l[k] # name
  <2> SUFFICES ASSUME NEW k \in 2 .. Len(l) PROVE l[k] # name
    OBVIOUS
  <2>1. k \in 2 .. Len(p) + 1 /\ k - 1 \in 1 .. Len(p)
    BY <1>3
  <2> QED BY <1>3, <2>1 DEF Lacks
<1>7. Len(l) >= 1
  BY <1>3
<1>8. EatBoolean(l \o (m \o q), name) = l \o q
  BY <1>3, <1>6, <1>7, EatAt
<1> QED BY <1>4, <1>5, <1>8

LEMMA RestLacks ==
  ASSUME NEW x \in Args, NEW t \in Seq(Args), NEW name, Lacks(t, {name})
  PROVE  <<x>> \o t \in Seq(Args) /\ \A k \in 2 .. Len(<<x>> \o t) : (<<x>> \o t)[k] # name
<1> DEFINE a == <<x>> \o t
<1>1. a \in Seq(Args) /\ Len(a) = Len(t) + 1 /\ Len(t) \in Nat /\ \A k \in 2 .. Len(t) + 1 : a[k] = t[k - 1]
  BY FirstAndRest
<1> HIDE DEF a
<1>2. ASSUME NEW k \in 2 .. Len(a) PROVE a[k] # name
  <2>1. k \in 2 .. Len(t) + 1 /\ k - 1 \in 1 .. Len(t)
    BY <1>1
  <2> QED BY <1>1, <2>1 DEF Lacks
<1> QED BY <1>1, <1>2 DEF a

LEMMA EatNoneInRest ==
  ASSUME NEW x \in Args, NEW t \in Seq(Args), NEW name, Lacks(t, {name})
  PROVE  EatBoolean(<<x>> \o t, name) = <<x>> \o t
<1> DEFINE a == <<x>> \o t
<1>1. a \in Seq(Args) /\ \A k \in 2 .. Len(a) : a[k] # name
  BY RestLacks
<1> HIDE DEF a
<1>2. EatBoolean(a, name) = a
  BY <1>1, EatNothing
<1> QED BY <1>2 DEF a

\* The same about a name of its own for two sequences in a row.
Cat(s, t) == s \o t
Only(w) == <<w>>

LEMMA OnlyType ==
  ASSUME NEW w \in Args
  PROVE  Only(w) \in Seq(Args)
BY DEF Only

LEMMA CatType ==
  ASSUME NEW s \in Seq(Args), NEW t \in Seq(Args)
  PROVE  Cat(s, t) \in Seq(Args)
BY ConcatProperties DEF Cat, Only

LEMMA CatAssociative ==
  ASSUME NEW s \in Seq(Args), NEW t \in Seq(Args), NEW u \in Seq(Args)
  PROVE  Cat(Cat(s, t), u) = Cat(s, Cat(t, u))
<1> DEFINE S == Args
<1>1. s \in Seq(S) /\ t \in Seq(S) /\ u \in Seq(S)
  OBVIOUS
<1> HIDE DEF S
<1>2. (s \o t) \o u = s \o (t \o u)
  BY <1>1, ConcatAssociative
<1> QED BY <1>2 DEF Cat, Only

LEMMA CatLacks ==
  ASSUME NEW s \in Seq(Args), NEW t \in Seq(Args), NEW X
  PROVE  Lacks(Cat(s, t), X) <=> Lacks(s, X) /\ Lacks(t, X)
BY LacksParts DEF Cat, Only

LEMMA EatInTheRest ==
  ASSUME NEW x \in Args, NEW p \in Seq(Args), NEW q \in Seq(Args), NEW name \in Args, Lacks(p, {name})
  PROVE  EatBoolean(Cat(Only(x), Cat(p, Cat(Only(name), q))), name) = Cat(Only(x), Cat(p, q))
BY EatInRest, Zenon DEF Cat, Only

LEMMA EatNoneInTheRest ==
  ASSUME NEW x \in Args, NEW t \in Seq(Args), NEW name, Lacks(t, {name})
  PROVE  EatBoolean(Cat(Only(x), t), name) = Cat(Only(x), t)
BY EatNoneInRest, Zenon DEF Cat, Only

LEMMA SplitAtTheFirst ==
  ASSUME NEW u \in Seq(Args), NEW name, ~ Lacks(u, {name})
  PROVE  /\ name \in Args
         /\ \E p, q \in Seq(Args) : u = Cat(p, Cat(Only(name), q)) /\ Lacks(p, {name})
BY SplitAtFirst, Zenon DEF Cat, Only

LEMMA CatFour ==
  ASSUME NEW s \in Seq(Args), NEW t \in Seq(Args), NEW u \in Seq(Args), NEW v \in Seq(Args)
  PROVE  Cat(Cat(s, Cat(t, u)), v) = Cat(s, Cat(t, Cat(u, v)))
<1>1. Cat(t, u) \in Seq(Args)
  BY CatType
<1> QED BY <1>1, CatAssociative

LEMMA CatFive ==
  ASSUME NEW m \in Seq(Args), NEW p \in Seq(Args), NEW w \in Seq(Args), NEW q \in Seq(Args), NEW r \in Seq(Args)
  PROVE  /\ Cat(m, Cat(Cat(p, Cat(w, q)), r)) = Cat(Cat(m, p), Cat(w, Cat(q, r)))
         /\ Cat(m, Cat(Cat(p, q), r)) = Cat(Cat(m, p), Cat(q, r))
<1>1. Cat(Cat(p, Cat(w, q)), r) = Cat(p, Cat(w, Cat(q, r)))
  BY CatFour
<1>2. Cat(q, r) \in Seq(Args) /\ Cat(w, Cat(q, r)) \in Seq(Args)
  BY CatType
<1> QED BY <1>1, <1>2, CatAssociative

\* The words m stand behind u, or in front; no word of X is in the others.
Around(a, b, m, X, x, u, r) ==
  /\ x \in Args /\ u \in Seq(Args) /\ r \in Seq(Args)
  /\ a = Cat(Only(x), Cat(u, Cat(m, r))) /\ b = Cat(Only(x), Cat(m, Cat(u, r)))
  /\ Lacks(u, X) /\ Lacks(r, X)
Moved(a, b, m, X) == \E x, u, r : Around(a, b, m, X, x, u, r)

\* Another word is eaten from both in the same way.
LEMMA MovedEaten ==
  ASSUME NEW m \in Seq(Args), NEW X, NEW a, NEW b, Moved(a, b, m, X), NEW name, Lacks(m, {name})
  PROVE  Moved(EatBoolean(a, name), EatBoolean(b, name), m, X)
<1>1. PICK x, u, r : Around(a, b, m, X, x, u, r)
  BY DEF Moved
<1>2. /\ x \in Args /\ u \in Seq(Args) /\ r \in Seq(Args) /\ Lacks(u, X) /\ Lacks(r, X)
      /\ a = Cat(Only(x), Cat(u, Cat(m, r))) /\ b = Cat(Only(x), Cat(m, Cat(u, r)))
  BY <1>1 DEF Around
<1>3. Cat(m, r) \in Seq(Args) /\ Cat(u, r) \in Seq(Args)
  BY <1>2, CatType
<1>4. ASSUME ~ Lacks(u, {name}) PROVE Moved(EatBoolean(a, name), EatBoolean(b, name), m, X)
  <2>1. name \in Args
    BY <1>2, <1>4, SplitAtTheFirst
  <2>2. PICK p \in Seq(Args), q \in Seq(Args) : u = Cat(p, Cat(Only(name), q)) /\ Lacks(p, {name})
    BY <1>2, <1>4, SplitAtTheFirst
  <2> DEFINE w == Only(name)
             y == Cat(q, Cat(m, r))
             z == Cat(q, r)
             mp == Cat(m, p)
             pq == Cat(p, q)
  <2>3. w \in Seq(Args)
    BY <2>1, OnlyType
  <2>4. y \in Seq(Args) /\ z \in Seq(Args) /\ mp \in Seq(Args) /\ pq \in Seq(Args)
    BY <1>2, <1>3, CatType
  <2>5. Cat(Cat(p, Cat(w, q)), Cat(m, r)) = Cat(p, Cat(w, y))
    <3> DEFINE mr == Cat(m, r)
    <3>1. mr \in Seq(Args)
      BY <1>3
    <3> HIDE DEF mr, w
    <3>2. Cat(Cat(p, Cat(w, q)), mr) = Cat(p, Cat(w, Cat(q, mr)))
      BY <2>3, <3>1, CatFour
    <3> QED BY <3>2 DEF mr
  <2>6. Cat(m, Cat(Cat(p, Cat(w, q)), r)) = Cat(mp, Cat(w, z)) /\ Cat(m, Cat(pq, r)) = Cat(mp, z)
    <3> HIDE DEF w
    <3> QED BY <1>2, <2>3, CatFive
  <2>7. Cat(pq, Cat(m, r)) = Cat(p, y)
    BY <1>3, CatAssociative
  <2>8. a = Cat(Only(x), Cat(p, Cat(Only(name), y))) /\ b = Cat(Only(x), Cat(mp, Cat(Only(name), z)))
    BY <1>2, <2>2, <2>5, <2>6
  <2>9. Lacks(mp, {name})
    BY <2>2, CatLacks
  <2>10. Lacks(pq, X)
    <3> HIDE DEF w
    <3>1. Cat(w, q) \in Seq(Args) /\ u = Cat(p, Cat(w, q))
      BY <2>2, <2>3, CatType DEF w
    <3>2. Lacks(p, X) /\ Lacks(Cat(w, q), X)
      BY <1>2, <3>1, CatLacks
    <3>3. Lacks(q, X)
      BY <2>3, <3>2, CatLacks
    <3> QED BY <3>2, <3>3, CatLacks
  <2> HIDE DEF w, y, z, mp
  <2>11. EatBoolean(a, name) = Cat(Only(x), Cat(p, y)) /\ EatBoolean(b, name) = Cat(Only(x), Cat(mp, z))
    <3>1. EatBoolean(a, name) = Cat(Only(x), Cat(p, y))
      BY <1>2, <2>1, <2>2, <2>4, <2>8, EatInTheRest
    <3>2. EatBoolean(b, name) = Cat(Only(x), Cat(mp, z))
      BY <1>2, <2>1, <2>4, <2>8, <2>9, EatInTheRest
    <3> QED BY <3>1, <3>2
  <2> HIDE DEF pq
  <2>12. Around(EatBoolean(a, name), EatBoolean(b, name), m, X, x, pq, r)
    BY <1>2, <2>4, <2>6, <2>7, <2>10, <2>11 DEF Around
  <2> QED BY <2>12 DEF Moved
<1>5. ASSUME Lacks(u, {name}), ~ Lacks(r, {name}) PROVE Moved(EatBoolean(a, name), EatBoolean(b, name), m, X)
  <2>1. name \in Args
    BY <1>2, <1>5, SplitAtTheFirst
  <2>2. PICK p \in Seq(Args), q \in Seq(Args) : r = Cat(p, Cat(Only(name), q)) /\ Lacks(p, {name})
    BY <1>2, <1>5, SplitAtTheFirst
  <2> DEFINE w == Only(name)
             wq == Cat(w, q)
             f == Cat(u, Cat(m, p))
             g == Cat(m, Cat(u, p))
             pq == Cat(p, q)
  <2>3. w \in Seq(Args)
    BY <2>1, OnlyType
  <2>4. wq \in Seq(Args) /\ pq \in Seq(Args) /\ Cat(m, p) \in Seq(Args) /\ Cat(u, p) \in Seq(Args)
    BY <1>2, <2>3, CatType
  <2>5. f \in Seq(Args) /\ g \in Seq(Args)
    BY <1>2, <2>4, CatType
  <2>6. /\ Cat(f, q) = Cat(u, Cat(m, pq)) /\ Cat(g, q) = Cat(m, Cat(u, pq))
    BY <1>2, CatFour
  <2>7. Cat(f, wq) = Cat(u, Cat(m, Cat(p, wq))) /\ Cat(g, wq) = Cat(m, Cat(u, Cat(p, wq)))
    <3> HIDE DEF wq
    <3> QED BY <1>2, <2>4, CatFour
  <2>8. Lacks(f, {name}) /\ Lacks(g, {name})
    <3>1. Lacks(Cat(m, p), {name}) /\ Lacks(Cat(u, p), {name})
      BY <1>2, <1>5, <2>2, CatLacks
    <3> QED BY <1>2, <1>5, <2>4, <3>1, CatLacks
  <2>9. a = Cat(Only(x), Cat(f, Cat(Only(name), q))) /\ b = Cat(Only(x), Cat(g, Cat(Only(name), q)))
    <3>1. r = Cat(p, wq)
      BY <2>2
    <3> HIDE DEF f, g, wq
    <3>2. a = Cat(Only(x), Cat(f, wq)) /\ b = Cat(Only(x), Cat(g, wq))
      BY <1>2, <2>7, <3>1
    <3> QED BY <3>2 DEF wq
  <2>10. Lacks(pq, X)
    <3> HIDE DEF w, f, g
    <3>1. Cat(w, q) \in Seq(Args) /\ r = Cat(p, Cat(w, q))
      BY <2>2, <2>3, CatType DEF w
    <3>2. Lacks(p, X) /\ Lacks(Cat(w, q), X)
      BY <1>2, <3>1, CatLacks
    <3>3. Lacks(q, X)
      BY <2>3, <3>2, CatLacks
    <3> QED BY <3>2, <3>3, CatLacks
  <2> HIDE DEF w, wq, f, g
  <2>11. EatBoolean(a, name) = Cat(Only(x), Cat(f, q)) /\ EatBoolean(b, name) = Cat(Only(x), Cat(g, q))
    <3>1. EatBoolean(a, name) = Cat(Only(x), Cat(f, q))
      BY <1>2, <2>1, <2>5, <2>8, <2>9, EatInTheRest
    <3>2. EatBoolean(b, name) = Cat(Only(x), Cat(g, q))
      BY <1>2, <2>1, <2>5, <2>8, <2>9, EatInTheRest
    <3> QED BY <3>1, <3>2
  <2> HIDE DEF pq
  <2>12. Around(EatBoolean(a, name), EatBoolean(b, name), m, X, x, u, pq)
    BY <1>2, <2>4, <2>6, <2>10, <2>11 DEF Around
  <2> QED BY <2>12 DEF Moved
<1>6. ASSUME Lacks(u, {name}), Lacks(r, {name}) PROVE Moved(EatBoolean(a, name), EatBoolean(b, name), m, X)
  <2>1. Lacks(Cat(m, r), {name}) /\ Lacks(Cat(u, r), {name})
    BY <1>2, <1>6, CatLacks
  <2>2. Cat(u, Cat(m, r)) \in Seq(Args) /\ Cat(m, Cat(u, r)) \in Seq(Args)
    BY <1>2, <1>3, CatType
  <2>3. Lacks(Cat(u, Cat(m, r)), {name}) /\ Lacks(Cat(m, Cat(u, r)), {name})
    BY <1>2, <1>3, <1>6, <2>1, CatLacks
  <2>4. EatBoolean(a, name) = a /\ EatBoolean(b, name) = b
    BY <1>2, <2>2, <2>3, EatNoneInTheRest
  <2> QED BY <2>4
<1> QED BY <1>4, <1>5, <1>6

LEMMA EatFront ==
  ASSUME NEW x \in Args, NEW q \in Seq(Args), NEW name \in Args
  PROVE  EatBoolean(Cat(Only(x), Cat(Only(name), q)), name) = Cat(Only(x), q)
<1> DEFINE e == <<>>
           y == <<name>> \o q
<1>1. e \in Seq(Args) /\ Lacks(e, {name})
  BY EmptySeq DEF Lacks
<1>2. <<name>> \in Seq(Args)
  BY LacksOne
<1>3. y \in Seq(Args)
  BY <1>2, ConcatProperties
<1>4. e \o q = q
  BY ConcatEmptySeq
<1> HIDE DEF y
<1>5. e \o y = y
  BY <1>3, ConcatEmptySeq
<1> HIDE DEF e
<1>6. EatBoolean(<<x>> \o (e \o y), name) = <<x>> \o (e \o q)
  BY <1>1, EatInRest, Zenon DEF y
<1>7. EatBoolean(<<x>> \o y, name) = <<x>> \o q
  BY <1>4, <1>5, <1>6
<1> QED BY <1>7, Zenon DEF Cat, Only, y

\* The word itself is eaten from both with the same effect.
LEMMA MovedFound ==
  ASSUME NEW w \in Args, NEW a, NEW b, Moved(a, b, Only(w), {w})
  PROVE  EatBoolean(a, w) = EatBoolean(b, w)
<1>1. PICK x, u, r : Around(a, b, Only(w), {w}, x, u, r)
  BY DEF Moved
<1>2. /\ x \in Args /\ u \in Seq(Args) /\ r \in Seq(Args) /\ Lacks(u, {w})
      /\ a = Cat(Only(x), Cat(u, Cat(Only(w), r))) /\ b = Cat(Only(x), Cat(Only(w), Cat(u, r)))
  BY <1>1 DEF Around
<1>3. EatBoolean(a, w) = Cat(Only(x), Cat(u, r))
  BY <1>2, EatInTheRest
<1>4. Cat(u, r) \in Seq(Args)
  BY <1>2, CatType
<1>5. EatBoolean(b, w) = Cat(Only(x), Cat(u, r))
  BY <1>2, <1>4, EatFront
<1> QED BY <1>3, <1>5

\* A key and the word behind it.
Two(key, v) == <<key, v>>

LEMMA TwoType ==
  ASSUME NEW key \in Args, NEW v \in Args
  PROVE  Two(key, v) \in Seq(Args) /\ (\A X : Lacks(Two(key, v), X) <=> key \notin X /\ v \notin X)
<1> DEFINE m == Two(key, v)
<1>1. m \in Seq(Args) /\ Len(m) = 2 /\ m[1] = key /\ m[2] = v
  BY DEF Two
<1> HIDE DEF m
<1>2. \A X : Lacks(m, X) <=> key \notin X /\ v \notin X
  BY <1>1 DEF Lacks
<1> QED BY <1>1, <1>2 DEF m

LEMMA EatKvInTheRest ==
  ASSUME NEW x \in Args, NEW p \in Seq(Args), NEW q \in Seq(Args), NEW key \in Args, NEW v \in Args,
         Lacks(p, {key})
  PROVE  EatKv(Cat(Only(x), Cat(p, Cat(Two(key, v), q))), key) = [args |-> Cat(Only(x), Cat(p, q)), value |-> v]
<1> DEFINE l == <<x>> \o p
           L == Cat(Only(x), p)
           m == Two(key, v)
<1>1. Only(x) \in Seq(Args) /\ m \in Seq(Args)
  BY OnlyType, TwoType
<1>2. Cat(m, q) \in Seq(Args)
  BY <1>1, CatType
<1>3. l \in Seq(Args) /\ Len(l) = Len(p) + 1 /\ Len(p) \in Nat /\ \A k \in 2 .. Len(p) + 1 : l[k] = p[k - 1]
  BY FirstAndRest
<1>9. l = L
  BY DEF Cat, Only
<1> HIDE DEF l
<1>6. \A k \in 2 .. Len(l) : l[k] # key
  <2> SUFFICES ASSUME NEW k \in 2 .. Len(l) PROVE l[k] # key
    OBVIOUS
  <2>1. k \in 2 .. Len(p) + 1 /\ k - 1 \in 1 .. Len(p)
    BY <1>3
  <2> QED BY <1>3, <2>1 DEF Lacks
<1>7. Len(l) >= 1
  BY <1>3
<1>8. EatKv(l \o (<<key, v>> \o q), key) = [args |-> l \o q, value |-> v]
  BY <1>3, <1>6, <1>7, EatKvAt, SMTT(60)
<1>10. EatKv(Cat(l, Cat(m, q)), key) = [args |-> Cat(l, q), value |-> v]
  BY <1>8, Zenon DEF Cat, Two
<1> HIDE DEF m
<1>4. Cat(Only(x), Cat(p, Cat(m, q))) = Cat(L, Cat(m, q))
  BY <1>1, <1>2, CatAssociative
<1>5. Cat(Only(x), Cat(p, q)) = Cat(L, q)
  BY <1>1, CatAssociative
<1> QED BY <1>4, <1>5, <1>9, <1>10 DEF m

LEMMA EatKvFront ==
  ASSUME NEW x \in Args, NEW q \in Seq(Args), NEW key \in Args, NEW v \in Args
  PROVE  EatKv(Cat(Only(x), Cat(Two(key, v), q)), key) = [args |-> Cat(Only(x), q), value |-> v]
<1> DEFINE e == <<>>
           y == Cat(Two(key, v), q)
<1>1. e \in Seq(Args) /\ Lacks(e, {key})
  BY EmptySeq DEF Lacks
<1>2. Two(key, v) \in Seq(Args)
  BY TwoType
<1>3. y \in Seq(Args)
  BY <1>2, CatType
<1>4. Cat(e, q) = q
  BY ConcatEmptySeq DEF Cat
<1> HIDE DEF y
<1>5. Cat(e, y) = y
  BY <1>3, ConcatEmptySeq DEF Cat
<1> HIDE DEF e
<1>6. EatKv(Cat(Only(x), Cat(e, y)), key) = [args |-> Cat(Only(x), Cat(e, q)), value |-> v]
  <2>1. EatKv(Cat(Only(x), Cat(e, Cat(Two(key, v), q))), key) = [args |-> Cat(Only(x), Cat(e, q)), value |-> v]
    BY <1>1, EatKvInTheRest
  <2> QED BY <2>1 DEF y
<1> QED BY <1>4, <1>5, <1>6 DEF y

LEMMA MovedKey ==
  ASSUME NEW key \in Args, NEW v \in Args, NEW X, key \in X, NEW a, NEW b, Moved(a, b, Two(key, v), X)
  PROVE  \E c : EatKv(a, key) = [args |-> c, value |-> v] /\ EatKv(b, key) = [args |-> c, value |-> v]
<1>1. PICK x, u, r : Around(a, b, Two(key, v), X, x, u, r)
  BY DEF Moved
<1>2. /\ x \in Args /\ u \in Seq(Args) /\ r \in Seq(Args) /\ Lacks(u, X)
      /\ a = Cat(Only(x), Cat(u, Cat(Two(key, v), r))) /\ b = Cat(Only(x), Cat(Two(key, v), Cat(u, r)))
  BY <1>1 DEF Around
<1>3. Lacks(u, {key})
  BY <1>2 DEF Lacks
<1>4. EatKv(a, key) = [args |-> Cat(Only(x), Cat(u, r)), value |-> v]
  BY <1>2, <1>3, EatKvInTheRest
<1>5. Cat(u, r) \in Seq(Args)
  BY <1>2, CatType
<1>6. EatKv(b, key) = [args |-> Cat(Only(x), Cat(u, r)), value |-> v]
  BY <1>2, <1>5, EatKvFront
<1> QED BY <1>4, <1>6

LEMMA NoKey ==
  ASSUME NEW x \in Args, NEW t \in Seq(Args), NEW key, Lacks(t, {key})
  PROVE  EatKv(Cat(Only(x), t), key) = [args |-> Cat(Only(x), t), value |-> NoWord]
<1> DEFINE a == <<x>> \o t
<1>1. a \in Seq(Args) /\ \A k \in 2 .. Len(a) : a[k] # key
  BY RestLacks
<1>2. a = Cat(Only(x), t)
  BY DEF Cat, Only
<1> HIDE DEF a
<1>3. EatKv(a, key) = [args |-> a, value |-> NoWord]
  BY <1>1, EatKvNothing
<1> QED BY <1>2, <1>3

LEMMA MovedNoKey ==
  ASSUME NEW m \in Seq(Args), NEW X, NEW a, NEW b, Moved(a, b, m, X), NEW key \in X, Lacks(m, {key})
  PROVE  EatKv(a, key) = [args |-> a, value |-> NoWord] /\ EatKv(b, key) = [args |-> b, value |-> NoWord]
<1>1. PICK x, u, r : Around(a, b, m, X, x, u, r)
  BY DEF Moved
<1>2. /\ x \in Args /\ u \in Seq(Args) /\ r \in Seq(Args) /\ Lacks(u, X) /\ Lacks(r, X)
      /\ a = Cat(Only(x), Cat(u, Cat(m, r))) /\ b = Cat(Only(x), Cat(m, Cat(u, r)))
  BY <1>1 DEF Around
<1>3. Lacks(u, {key}) /\ Lacks(r, {key})
  BY <1>2 DEF Lacks
<1>4. Cat(m, r) \in Seq(Args) /\ Cat(u, r) \in Seq(Args)
  BY <1>2, CatType
<1>5. Cat(u, Cat(m, r)) \in Seq(Args) /\ Cat(m, Cat(u, r)) \in Seq(Args)
  BY <1>2, <1>4, CatType
<1>6. Lacks(Cat(m, r), {key}) /\ Lacks(Cat(u, r), {key})
  BY <1>2, <1>3, CatLacks
<1>7. Lacks(Cat(u, Cat(m, r)), {key}) /\ Lacks(Cat(m, Cat(u, r)), {key})
  BY <1>2, <1>3, <1>4, <1>6, CatLacks
<1> QED BY <1>2, <1>5, <1>7, NoKey

\* Either key eats the same from both.
LEMMA MovedKeys ==
  ASSUME NEW key \in Args, NEW v \in Args, NEW n, NEW al, n # al, key \in {n, al}, v \notin {n, al},
         NEW a, NEW b, Moved(a, b, Two(key, v), {n, al})
  PROVE  EatKvEither(a, n, al) = EatKvEither(b, n, al)
<1> DEFINE X == {n, al}
           m == Two(key, v)
<1>1. m \in Seq(Args) /\ \A Y : Lacks(m, Y) <=> key \notin Y /\ v \notin Y
  BY TwoType
<1>2. key \in X /\ v \notin X /\ Moved(a, b, m, X)
  OBVIOUS
<1> HIDE DEF m, X
<1>3. PICK c : EatKv(a, key) = [args |-> c, value |-> v] /\ EatKv(b, key) = [args |-> c, value |-> v]
  BY <1>2, MovedKey DEF m
<1>4. CASE key = n
  <2>1. EatKv(a, n) = EatKv(b, n)
    BY <1>3, <1>4
  <2> QED BY <2>1, Zenon DEF EatKvEither
<1>5. CASE key = al
  <2>1. n \in X /\ Lacks(m, {n})
    BY <1>1, <1>2, <1>5 DEF X
  <2>2. EatKv(a, n) = [args |-> a, value |-> NoWord] /\ EatKv(b, n) = [args |-> b, value |-> NoWord]
    BY <1>1, <1>2, <2>1, MovedNoKey
  <2>3. EatKv(a, n).args = a /\ EatKv(b, n).args = b /\ EatKv(a, n).value = EatKv(b, n).value
    BY <2>2
  <2>4. EatKv(EatKv(a, n).args, al) = EatKv(EatKv(b, n).args, al)
    BY <1>3, <1>5, <2>3
  <2> QED BY <2>3, <2>4, Zenon DEF EatKvEither
<1> QED BY <1>4, <1>5

-----------------------------------------------------------------------------
(* What eating leaves behind.                                              *)

Has(a, z) == \E k \in 2 .. Len(a) : a[k] = z

LEMMA EatenIs ==
  ASSUME NEW a, Kept(a), NEW name
  PROVE  \/ ~ Has(a, name) /\ EatBoolean(a, name) = a
         \/ \E i \in 2 .. Len(a) : a[i] = name /\ EatBoolean(a, name) = Without(a, i, 1)
<1>1. a \in Seq(Args) /\ Len(a) \in Nat
  BY LenProperties DEF Kept
<1>2. CASE ~ Has(a, name)
  BY <1>1, <1>2, EatNothing DEF Has
<1>3. CASE Has(a, name)
  <2> DEFINE Here == {k \in 2 .. Len(a) : a[k] = name}
  <2>1. Here \in SUBSET Nat /\ Here # {}
    BY <1>3 DEF Has
  <2>2. PICK i \in Here : \A k \in Here : i <= k
    <3> HIDE DEF Here
    <3> QED BY <2>1, LeastNatural
  <2>3. i \in 2 .. Len(a) /\ a[i] = name /\ \A j \in 2 .. i - 1 : a[j] # name
    BY <1>1, <2>2
  <2>4. PlaceOf(name, a, Len(a)) = i
    BY <1>1, <2>3, PlaceIs
  <2>5. i # 0
    BY <2>3
  <2>6. EatBoolean(a, name) = Without(a, i, 1)
    BY <2>4, <2>5, Zenon DEF EatBoolean
  <2> QED BY <2>3, <2>6
<1> QED BY <1>2, <1>3

LEMMA WithoutOne ==
  ASSUME NEW a, Kept(a), NEW i \in 2 .. Len(a)
  PROVE  /\ Len(Without(a, i, 1)) = Len(a) - 1
         /\ \A k \in 1 .. Len(a) - 1 : Without(a, i, 1)[k] = IF k < i THEN a[k] ELSE a[k + 1]
<1> DEFINE l == SubSeq(a, 1, i - 1)
           r == SubSeq(a, i + 1, Len(a))
<1>1. a \in Seq(Args) /\ Len(a) \in Nat /\ \A k \in 1 .. Len(a) : a[k] \in Args
  BY LenProperties DEF Kept
<1>2. l \in Seq(Args) /\ Len(l) = i - 1 /\ \A k \in 1 .. i - 1 : l[k] = a[k]
  <2>1. 1 \in Int /\ i - 1 \in Int /\ \A k \in 1 .. i - 1 : a[k] \in Args
    BY <1>1
  <2>2. /\ l \in Seq(Args) /\ Len(l) = IF 1 <= i - 1 THEN (i - 1) - 1 + 1 ELSE 0
        /\ \A k \in 1 .. (i - 1) - 1 + 1 : l[k] = a[1 + k - 1]
    BY <2>1, SubSeqProperties
  <2> HIDE DEF l
  <2> QED BY <1>1, <2>2
<1>3. r \in Seq(Args) /\ Len(r) = Len(a) - i /\ \A k \in 1 .. Len(a) - i : r[k] = a[i + k]
  <2>1. i + 1 \in Int /\ Len(a) \in Int /\ \A k \in i + 1 .. Len(a) : a[k] \in Args
    BY <1>1
  <2>2. /\ r \in Seq(Args) /\ Len(r) = IF i + 1 <= Len(a) THEN Len(a) - (i + 1) + 1 ELSE 0
        /\ \A k \in 1 .. Len(a) - (i + 1) + 1 : r[k] = a[(i + 1) + k - 1]
    BY <2>1, SubSeqProperties
  <2> HIDE DEF r
  <2> QED BY <1>1, <2>2
<1> HIDE DEF l, r
<1>4. /\ Len(l \o r) = Len(l) + Len(r)
      /\ \A k \in 1 .. Len(l) + Len(r) : (l \o r)[k] = IF k <= Len(l) THEN l[k] ELSE r[k - Len(l)]
  BY <1>2, <1>3, ConcatProperties
<1> DEFINE u == l \o r
<1> HIDE DEF u
<1>5. ASSUME NEW k \in 1 .. Len(a) - 1 PROVE u[k] = IF k < i THEN a[k] ELSE a[k + 1]
  <2>1. u[k] = IF k <= Len(l) THEN l[k] ELSE r[k - Len(l)]
    <3>1. k \in 1 .. Len(l) + Len(r)
      BY <1>1, <1>2, <1>3
    <3> QED BY <1>4, <3>1 DEF u
  <2>2. CASE k < i
    BY <1>1, <1>2, <2>1, <2>2
  <2>3. CASE ~ (k < i)
    <3>1. ~ (k <= Len(l)) /\ k - Len(l) \in 1 .. Len(a) - i /\ i + (k - Len(l)) = k + 1
      BY <1>1, <1>2, <2>3
    <3> QED BY <1>3, <2>1, <2>3, <3>1
  <2> QED BY <2>2, <2>3
<1>6. Len(u) = Len(a) - 1
  BY <1>1, <1>2, <1>3, <1>4 DEF u
<1>7. Without(a, i, 1) = u
  BY Zenon DEF Without, u, l, r
<1> QED BY <1>5, <1>6, <1>7

\* Eating a word takes nothing else away, and shows by the length.
LEMMA EatLeaves ==
  ASSUME NEW a, Kept(a), NEW name
  PROVE  /\ Kept(EatBoolean(a, name))
         /\ Len(EatBoolean(a, name)) = IF Has(a, name) THEN Len(a) - 1 ELSE Len(a)
         /\ ~ Has(a, name) => EatBoolean(a, name) = a
         /\ \A z : z # name => (Has(EatBoolean(a, name), z) <=> Has(a, z))
<1>1. Kept(EatBoolean(a, name))
  BY EatBooleanKeeps
<1>2. CASE ~ Has(a, name) /\ EatBoolean(a, name) = a
  BY <1>1, <1>2
<1>3. ASSUME NEW i \in 2 .. Len(a), a[i] = name, EatBoolean(a, name) = Without(a, i, 1)
      PROVE  /\ Has(a, name) /\ Len(EatBoolean(a, name)) = Len(a) - 1
             /\ \A z : z # name => (Has(EatBoolean(a, name), z) <=> Has(a, z))
  <2> DEFINE u == Without(a, i, 1)
  <2>1. Len(u) = Len(a) - 1 /\ \A k \in 1 .. Len(a) - 1 : u[k] = IF k < i THEN a[k] ELSE a[k + 1]
    BY WithoutOne
  <2>2. Len(a) \in Nat
    BY LenProperties DEF Kept
  <2> HIDE DEF u
  <2>3. ASSUME NEW z, z # name, Has(u, z) PROVE Has(a, z)
    <3>1. PICK k \in 2 .. Len(u) : u[k] = z
      BY <2>3 DEF Has
    <3>2. CASE k < i
      <4>1. k \in 2 .. Len(a) /\ a[k] = z
        BY <2>1, <2>2, <3>1, <3>2
      <4> QED BY <4>1 DEF Has
    <3>3. CASE ~ (k < i)
      <4>1. k + 1 \in 2 .. Len(a) /\ a[k + 1] = z
        BY <2>1, <2>2, <3>1, <3>3
      <4> QED BY <4>1 DEF Has
    <3> QED BY <3>2, <3>3
  <2>4. ASSUME NEW z, z # name, Has(a, z) PROVE Has(u, z)
    <3>1. PICK k \in 2 .. Len(a) : a[k] = z
      BY <2>4 DEF Has
    <3>2. k # i
      BY <1>3, <2>4, <3>1
    <3>3. CASE k < i
      <4>1. k \in 2 .. Len(u) /\ u[k] = z
        BY <2>1, <2>2, <3>1, <3>3
      <4> QED BY <4>1 DEF Has
    <3>4. CASE k > i
      <4>1. k - 1 \in 2 .. Len(u) /\ ~ (k - 1 < i) /\ (k - 1) + 1 = k /\ k - 1 \in 1 .. Len(a) - 1
        BY <2>1, <2>2, <3>1, <3>4
      <4>2. u[k - 1] = z
        BY <2>1, <3>1, <4>1
      <4> QED BY <4>1, <4>2 DEF Has
    <3> QED BY <3>2, <3>3, <3>4
  <2>5. Has(a, name)
    BY <1>3 DEF Has
  <2> QED BY <1>3, <2>1, <2>3, <2>4, <2>5 DEF u
<1> QED BY <1>1, <1>2, <1>3, EatenIs

LEMMA EatEitherLeaves ==
  ASSUME NEW a, Kept(a), NEW n, NEW al, n # al, NEW b, b = EatEither(a, n, al)
  PROVE  /\ Kept(b) /\ Len(b) <= Len(a) /\ (b # a <=> Len(b) # Len(a))
         /\ b # a <=> Has(a, n) \/ Has(a, al)
         /\ \A z : z # n /\ z # al => (Has(b, z) <=> Has(a, z))
<1> DEFINE c == EatBoolean(a, n)
<1>1. /\ Kept(c) /\ Len(c) = IF Has(a, n) THEN Len(a) - 1 ELSE Len(a)
      /\ ~ Has(a, n) => c = a
      /\ \A z : z # n => (Has(c, z) <=> Has(a, z))
  BY EatLeaves
<1>2. b = EatBoolean(c, al)
  BY DEF EatEither
<1> HIDE DEF c
<1>3. /\ Kept(b) /\ Len(b) = IF Has(c, al) THEN Len(c) - 1 ELSE Len(c)
      /\ ~ Has(c, al) => b = c
      /\ \A z : z # al => (Has(b, z) <=> Has(c, z))
  BY <1>1, <1>2, EatLeaves
<1>4. Len(a) \in Nat /\ Len(b) \in Nat /\ Len(c) \in Nat
  BY <1>1, <1>3, LenProperties DEF Kept
<1>5. Has(c, al) <=> Has(a, al)
  BY <1>1
<1>6. Len(b) <= Len(a) /\ (Has(a, n) \/ Has(a, al) => Len(b) # Len(a))
  BY <1>1, <1>3, <1>4, <1>5
<1>7. ~ (Has(a, n) \/ Has(a, al)) => b = a
  BY <1>1, <1>3, <1>5
<1> QED BY <1>1, <1>3, <1>6, <1>7

LEMMA CatLength ==
  ASSUME NEW s \in Seq(Args), NEW t \in Seq(Args)
  PROVE  Len(Cat(s, t)) = Len(s) + Len(t) /\ Len(s) \in Nat /\ Len(t) \in Nat
BY ConcatProperties, LenProperties DEF Cat

LEMMA MovedLength ==
  ASSUME NEW m \in Seq(Args), NEW X, NEW a, NEW b, Moved(a, b, m, X)
  PROVE  Kept(a) /\ Kept(b) /\ Len(a) = Len(b)
<1>1. PICK x, u, r : Around(a, b, m, X, x, u, r)
  BY DEF Moved
<1>2. /\ x \in Args /\ u \in Seq(Args) /\ r \in Seq(Args)
      /\ a = Cat(Only(x), Cat(u, Cat(m, r))) /\ b = Cat(Only(x), Cat(m, Cat(u, r)))
  BY <1>1 DEF Around
<1>3. Only(x) \in Seq(Args) /\ Len(Only(x)) = 1
  BY <1>2 DEF Only
<1>4. Cat(m, r) \in Seq(Args) /\ Cat(u, r) \in Seq(Args)
  BY <1>2, CatType
<1>5. Cat(u, Cat(m, r)) \in Seq(Args) /\ Cat(m, Cat(u, r)) \in Seq(Args)
  BY <1>2, <1>4, CatType
<1>6. a \in Seq(Args) /\ b \in Seq(Args)
  BY <1>2, <1>3, <1>5, CatType
<1>7. /\ Len(Cat(m, r)) = Len(m) + Len(r) /\ Len(Cat(u, r)) = Len(u) + Len(r)
      /\ Len(m) \in Nat /\ Len(u) \in Nat /\ Len(r) \in Nat
  BY <1>2, CatLength
<1>8. Len(Cat(u, Cat(m, r))) = Len(u) + (Len(m) + Len(r)) /\ Len(Cat(m, Cat(u, r))) = Len(m) + (Len(u) + Len(r))
  BY <1>2, <1>4, <1>7, CatLength
<1>9. Len(a) = 1 + (Len(u) + (Len(m) + Len(r))) /\ Len(b) = 1 + (Len(m) + (Len(u) + Len(r)))
  <2>1. Len(a) = Len(Only(x)) + Len(Cat(u, Cat(m, r)))
    BY <1>2, <1>3, <1>5, CatLength
  <2>2. Len(b) = Len(Only(x)) + Len(Cat(m, Cat(u, r)))
    BY <1>2, <1>3, <1>5, CatLength
  <2> QED BY <1>3, <1>8, <2>1, <2>2
<1> QED BY <1>6, <1>7, <1>9 DEF Kept

\* Whether a word was found shows by the length.
LEMMA FoundByLength ==
  ASSUME NEW a, Kept(a), NEW b, Kept(b), Len(a) = Len(b), NEW n, NEW al, n # al,
         NEW c, NEW d, c = EatEither(a, n, al), d = EatEither(b, n, al), Len(c) = Len(d)
  PROVE  c # a <=> d # b
<1>1. c # a <=> Len(c) # Len(a)
  BY EatEitherLeaves
<1>2. d # b <=> Len(d) # Len(b)
  BY EatEitherLeaves
<1> QED BY <1>1, <1>2

\* Two command lines that differ by the place of the switch w at most.
Together(a, b, w) == Kept(a) /\ Kept(b) /\ Len(a) = Len(b) /\ (a = b \/ Moved(a, b, Only(w), {w}))

LEMMA TogetherEaten ==
  ASSUME NEW w \in Args, NEW a, NEW b, Together(a, b, w), NEW name
  PROVE  /\ Together(EatBoolean(a, name), EatBoolean(b, name), w)
         /\ w = name => EatBoolean(a, name) = EatBoolean(b, name)
         /\ EatBoolean(a, name) # a <=> EatBoolean(b, name) # b
<1> DEFINE c == EatBoolean(a, name)
           d == EatBoolean(b, name)
<1>1. Kept(a) /\ Kept(b) /\ Len(a) = Len(b)
  BY DEF Together
<1>2. /\ Kept(c) /\ Len(c) = (IF Has(a, name) THEN Len(a) - 1 ELSE Len(a)) /\ (~ Has(a, name) => c = a)
      /\ Kept(d) /\ Len(d) = (IF Has(b, name) THEN Len(b) - 1 ELSE Len(b)) /\ (~ Has(b, name) => d = b)
  BY <1>1, EatLeaves
<1>3. Only(w) \in Seq(Args) /\ (w # name => Lacks(Only(w), {name}))
  BY OnlyType DEF Only, Lacks
<1>4. Together(c, d, w) /\ (w = name => c = d)
  <2>1. CASE a = b
    BY <1>2, <2>1 DEF Together
  <2>2. CASE Moved(a, b, Only(w), {w}) /\ w = name
    <3>1. c = d
      BY <2>2, MovedFound
    <3> QED BY <1>2, <3>1 DEF Together
  <2>3. CASE Moved(a, b, Only(w), {w}) /\ w # name
    <3>1. Moved(c, d, Only(w), {w})
      BY <1>3, <2>3, MovedEaten
    <3> HIDE DEF c, d
    <3>2. Len(c) = Len(d)
      BY <1>3, <3>1, MovedLength
    <3> QED BY <1>2, <2>3, <3>1, <3>2 DEF Together
  <2> QED BY <2>1, <2>2, <2>3 DEF Together
<1>5. Len(a) \in Nat /\ Len(b) \in Nat /\ Len(c) = Len(d)
  BY <1>1, <1>4, LenProperties DEF Kept, Together
<1> HIDE DEF c, d
<1>6. c # a <=> d # b
  BY <1>1, <1>2, <1>5
<1> QED BY <1>4, <1>6 DEF c, d

LEMMA TogetherEither ==
  ASSUME NEW w \in Args, NEW a, NEW b, Together(a, b, w), NEW n, NEW al, n # al,
         NEW c, NEW d, c = EatEither(a, n, al), d = EatEither(b, n, al)
  PROVE  /\ Together(c, d, w) /\ Len(c) = Len(d)
         /\ w \in {n, al} => c = d
         /\ c # a <=> d # b
<1> DEFINE e == EatBoolean(a, n)
           f == EatBoolean(b, n)
<1>1. Together(e, f, w) /\ (w = n => e = f)
  BY TogetherEaten
<1>2. c = EatBoolean(e, al) /\ d = EatBoolean(f, al)
  BY Zenon DEF EatEither
<1> HIDE DEF e, f
<1>3. Together(c, d, w) /\ (w = al => c = d)
  BY <1>1, <1>2, TogetherEaten
<1>4. Kept(a) /\ Kept(b) /\ Len(a) = Len(b) /\ Len(c) = Len(d)
  BY <1>3 DEF Together
<1>5. c # a <=> d # b
  BY <1>4, FoundByLength
<1> QED BY <1>1, <1>2, <1>3, <1>4, <1>5

-----------------------------------------------------------------------------
(* What is decided depends on what was found, and on what is left.         *)

ReadAs(quiet, dried, fed, listed, number) ==
  LET given == number.value # NoWord
      threads == IF given THEN ValueOf[number.value] ELSE Concurrency
  IN IF \/ given /\ number.value \notin Numerals
        \/ threads > MaxThreads
        \/ Len(number.args) # 2
     THEN Refuse
     ELSE [Nothing(IF dried THEN "dry_run" ELSE IF listed THEN "list" ELSE "unpack")
             EXCEPT !.quiet = quiet, !.from_stdin = fed, !.threads = threads,
                    !.files = <<number.args[2]>>]

Differs(s, t) == s # t

AsksToUnpack(args, dry, stdin, list, rest) == rest # list \/ (list = stdin /\ dry = args)

NumberOf(args, dry, stdin, list, rest) ==
  IF AsksToUnpack(args, dry, stdin, list, rest) THEN EatKvEither(rest, "--num-threads", "-n")
  ELSE [args |-> rest, value |-> NoWord]

Read(args, quiet, dry, stdin, list, rest) ==
  ReadAs(quiet, Differs(dry, args), Differs(stdin, dry), Differs(list, stdin),
         NumberOf(args, dry, stdin, list, rest))

\* The stages at which a command line is an archive's to read.
Stages(args, dry, stdin, list, rest) ==
  /\ dry = EatEither(args, "--dry-run", "-d")
  /\ stdin = EatEither(dry, "--stdin", "-s")
  /\ list = EatEither(stdin, "--list", "-l")
  /\ rest = EatBoolean(list, "--unpack")


\* The same switches were found.
FoundAlike(a, ad, as, al, b, bd, bs, bl) ==
  /\ Differs(ad, a) <=> Differs(bd, b)
  /\ Differs(as, ad) <=> Differs(bs, bd)
  /\ Differs(al, as) <=> Differs(bl, bs)

LEMMA DecideReadIs ==
  ASSUME NEW args, NEW quiet, NEW dry, NEW stdin, NEW list, NEW rest, Stages(args, dry, stdin, list, rest)
  PROVE  DecideRead(args, quiet) = Read(args, quiet, dry, stdin, list, rest)
BY Zenon DEF DecideRead, Read, ReadAs, NumberOf, Stages, AsksToUnpack, Differs

\* A switch that is looked for when an archive is read.
ForReading(w) == w \in {"--dry-run", "-d", "--stdin", "-s", "--list", "-l", "--unpack"}

LEMMA ReadSwitch ==
  ASSUME NEW w \in Args, NEW a, NEW b, Together(a, b, w), NEW quiet, ForReading(w)
  PROVE  DecideRead(a, quiet) = DecideRead(b, quiet)
<1>1. PICK ad, as, al, ar : Stages(a, ad, as, al, ar)
  BY Zenon DEF Stages
<1>2. PICK bd, bs, bl, br : Stages(b, bd, bs, bl, br)
  BY Zenon DEF Stages
<1>3. /\ Together(ad, bd, w)
      /\ w \in {"--dry-run", "-d"} => ad = bd
      /\ ad # a <=> bd # b
  BY <1>1, <1>2, TogetherEither DEF Stages
<1>4. /\ Together(as, bs, w)
      /\ w \in {"--stdin", "-s"} => as = bs
      /\ as # ad <=> bs # bd
  BY <1>1, <1>2, <1>3, TogetherEither DEF Stages
<1>5. /\ Together(al, bl, w)
      /\ w \in {"--list", "-l"} => al = bl
      /\ al # as <=> bl # bs
  BY <1>1, <1>2, <1>4, TogetherEither DEF Stages
<1>6. /\ w = "--unpack" => ar = br
      /\ ar # al <=> br # bl
  BY <1>1, <1>2, <1>5, TogetherEaten DEF Stages
<1>7. /\ ad = bd => as = bs
      /\ as = bs => al = bl
      /\ al = bl => ar = br
  BY <1>1, <1>2, Zenon DEF Stages
<1>8. ar = br
  BY <1>3, <1>4, <1>5, <1>6, <1>7 DEF ForReading
<1>9. AsksToUnpack(a, ad, as, al, ar) <=> AsksToUnpack(b, bd, bs, bl, br)
  BY <1>3, <1>5, <1>6 DEF AsksToUnpack
<1>10. AsksToUnpack(a, ad, as, al, ar) = AsksToUnpack(b, bd, bs, bl, br)
  BY <1>9, Zenon DEF AsksToUnpack
<1>11. NumberOf(a, ad, as, al, ar) = NumberOf(b, bd, bs, bl, br)
  BY <1>8, <1>10, Zenon DEF NumberOf
<1>12. FoundAlike(a, ad, as, al, b, bd, bs, bl)
  BY <1>3, <1>4, <1>5 DEF FoundAlike, Differs
<1>13. Read(a, quiet, ad, as, al, ar) = Read(b, quiet, bd, bs, bl, br)
  <2>1. Differs(ad, a) = Differs(bd, b) /\ Differs(as, ad) = Differs(bs, bd) /\ Differs(al, as) = Differs(bl, bs)
    BY <1>12, Zenon DEF FoundAlike, Differs
  <2> QED BY <1>11, <2>1, Zenon DEF Read
<1>14. DecideRead(a, quiet) = Read(a, quiet, ad, as, al, ar)
  BY <1>1, DecideReadIs, Zenon
<1>15. DecideRead(b, quiet) = Read(b, quiet, bd, bs, bl, br)
  BY <1>2, DecideReadIs, Zenon
<1> QED BY <1>13, <1>14, <1>15

Chosen(args, help, warning, pack) ==
  IF Differs(help, args) \/ Len(help) = 1 THEN Nothing("help")
  ELSE IF Differs(pack, warning) THEN DecidePack(pack, Differs(warning, help))
  ELSE DecideRead(pack, Differs(warning, help))

\* The stages every command line goes through.
FirstStages(args, help, warning, pack) ==
  /\ help = EatEither(args, "--help", "-h")
  /\ warning = EatEither(help, "--disable-warning", "-W")
  /\ pack = EatEither(warning, "--pack", "p")

LEMMA DecideIs ==
  ASSUME NEW args, args # <<>>, NEW help, NEW warning, NEW pack, FirstStages(args, help, warning, pack)
  PROVE  Decide(args) = Chosen(args, help, warning, pack)
BY Zenon DEF Decide, Chosen, FirstStages, Differs

\* Two command lines are decided alike when they are alike before the last step.
StartAlike(a, ah, aw, ap, b, bh, bw, bp) ==
  /\ Differs(ah, a) <=> Differs(bh, b)
  /\ Differs(aw, ah) <=> Differs(bw, bh)
  /\ Differs(ap, aw) <=> Differs(bp, bw)
  /\ Len(ah) = Len(bh)

LEMMA DecideAlike ==
  ASSUME NEW a, NEW ah, NEW aw, NEW ap, NEW b, NEW bh, NEW bw, NEW bp, a # <<>>, b # <<>>,
         FirstStages(a, ah, aw, ap), FirstStages(b, bh, bw, bp), StartAlike(a, ah, aw, ap, b, bh, bw, bp),
         Differs(ap, aw) => DecidePack(ap, Differs(aw, ah)) = DecidePack(bp, Differs(aw, ah)),
         ~ Differs(ap, aw) => DecideRead(ap, Differs(aw, ah)) = DecideRead(bp, Differs(aw, ah))
  PROVE  Decide(a) = Decide(b)
<1>1. /\ Differs(ah, a) = Differs(bh, b) /\ Differs(aw, ah) = Differs(bw, bh) /\ Differs(ap, aw) = Differs(bp, bw)
      /\ Len(ah) = Len(bh)
  BY Zenon DEF StartAlike, Differs
<1>2. Decide(a) = Chosen(a, ah, aw, ap)
  BY DecideIs, Zenon
<1>3. Decide(b) = Chosen(b, bh, bw, bp)
  BY DecideIs, Zenon
<1>4. Chosen(a, ah, aw, ap) = Chosen(b, bh, bw, bp)
  <2>1. CASE Differs(ap, aw)
    <3>1. Differs(bp, bw)
      BY <1>1, <2>1, Zenon
    <3>2. DecidePack(ap, Differs(aw, ah)) = DecidePack(bp, Differs(bw, bh))
      BY <1>1, <2>1, Zenon
    <3> QED BY <1>1, <2>1, <3>1, <3>2, Zenon DEF Chosen
  <2>2. CASE ~ Differs(ap, aw)
    <3>1. ~ Differs(bp, bw)
      BY <1>1, <2>2, Zenon
    <3>2. DecideRead(ap, Differs(aw, ah)) = DecideRead(bp, Differs(bw, bh))
      BY <1>1, <2>2, Zenon
    <3> QED BY <1>1, <2>2, <3>1, <3>2, Zenon DEF Chosen
  <2> QED BY <2>1, <2>2
<1> QED BY <1>2, <1>3, <1>4

\* A switch that every command line is searched for.
ForAll(w) == w \in {"--help", "-h", "--disable-warning", "-W", "--pack", "p"}

\* Nothing is found that is not there.
LEMMA FoundThere ==
  ASSUME NEW a, Kept(a), NEW ah, NEW aw, NEW ap, FirstStages(a, ah, aw, ap)
  PROVE  /\ Kept(ah) /\ Kept(aw) /\ Kept(ap)
         /\ Differs(ap, aw) <=> Has(a, "--pack") \/ Has(a, "p")
         /\ \A z : ~ ForAll(z) => (Has(ap, z) <=> Has(a, z))
<1>1. /\ Kept(ah)
      /\ \A z : z # "--help" /\ z # "-h" => (Has(ah, z) <=> Has(a, z))
  BY EatEitherLeaves DEF FirstStages
<1>2. /\ Kept(aw)
      /\ \A z : z # "--disable-warning" /\ z # "-W" => (Has(aw, z) <=> Has(ah, z))
  BY <1>1, EatEitherLeaves DEF FirstStages
<1>3. /\ Kept(ap)
      /\ ap # aw <=> Has(aw, "--pack") \/ Has(aw, "p")
      /\ \A z : z # "--pack" /\ z # "p" => (Has(ap, z) <=> Has(aw, z))
  BY <1>2, EatEitherLeaves DEF FirstStages
<1>4. \A z : ~ ForAll(z) => (Has(ap, z) <=> Has(a, z))
  BY <1>1, <1>2, <1>3 DEF ForAll
<1>5. /\ Has(aw, "--pack") <=> Has(a, "--pack")
      /\ Has(aw, "p") <=> Has(a, "p")
  BY <1>1, <1>2
<1> QED BY <1>1, <1>2, <1>3, <1>4, <1>5 DEF Differs

LEMMA SwitchAnywhere ==
  ASSUME NEW w \in Args, NEW a, NEW b, Together(a, b, w), a # <<>>, b # <<>>,
         ForAll(w) \/ (ForReading(w) /\ ~ Has(a, "--pack") /\ ~ Has(a, "p"))
  PROVE  Decide(a) = Decide(b)
<1>1. PICK ah, aw, ap : FirstStages(a, ah, aw, ap)
  BY Zenon DEF FirstStages
<1>2. PICK bh, bw, bp : FirstStages(b, bh, bw, bp)
  BY Zenon DEF FirstStages
<1>3. /\ Together(ah, bh, w) /\ Len(ah) = Len(bh)
      /\ w \in {"--help", "-h"} => ah = bh
      /\ ah # a <=> bh # b
  BY <1>1, <1>2, TogetherEither DEF FirstStages
<1>4. /\ Together(aw, bw, w)
      /\ w \in {"--disable-warning", "-W"} => aw = bw
      /\ aw # ah <=> bw # bh
  BY <1>1, <1>2, <1>3, TogetherEither DEF FirstStages
<1>5. /\ Together(ap, bp, w)
      /\ w \in {"--pack", "p"} => ap = bp
      /\ ap # aw <=> bp # bw
  BY <1>1, <1>2, <1>4, TogetherEither DEF FirstStages
<1>6. StartAlike(a, ah, aw, ap, b, bh, bw, bp)
  BY <1>3, <1>4, <1>5 DEF StartAlike, Differs
<1>7. /\ Differs(ap, aw) => DecidePack(ap, Differs(aw, ah)) = DecidePack(bp, Differs(aw, ah))
      /\ ~ Differs(ap, aw) => DecideRead(ap, Differs(aw, ah)) = DecideRead(bp, Differs(aw, ah))
  <2>1. CASE ForAll(w)
    <3>1. (ah = bh => aw = bw) /\ (aw = bw => ap = bp)
      BY <1>1, <1>2, Zenon DEF FirstStages
    <3>2. ap = bp
      BY <1>3, <1>4, <1>5, <2>1, <3>1 DEF ForAll
    <3> QED BY <3>2
  <2>2. CASE ForReading(w) /\ ~ Has(a, "--pack") /\ ~ Has(a, "p")
    <3>1. Kept(a)
      BY DEF Together
    <3>2. ~ Differs(ap, aw)
      BY <1>1, <2>2, <3>1, FoundThere
    <3>3. ForReading(w)
      BY <2>2
    <3>4. DecideRead(ap, Differs(aw, ah)) = DecideRead(bp, Differs(aw, ah))
      <4> DEFINE quiet == Differs(aw, ah)
      <4> HIDE DEF quiet
      <4>1. Together(ap, bp, w)
        BY <1>5
      <4>2. DecideRead(ap, quiet) = DecideRead(bp, quiet)
        BY <3>3, <4>1, ReadSwitch
      <4> QED BY <4>2 DEF quiet
    <3> QED BY <3>2, <3>4, Zenon
  <2> QED BY <2>1, <2>2
<1> QED BY <1>1, <1>2, <1>6, <1>7, DecideAlike, Zenon

-----------------------------------------------------------------------------
(* Where a key stands.                                                     *)

LEMMA MovedEither ==
  ASSUME NEW m \in Seq(Args), NEW X, NEW a, NEW b, Moved(a, b, m, X),
         NEW n, NEW al, n # al, Lacks(m, {n}), Lacks(m, {al}),
         NEW c, NEW d, c = EatEither(a, n, al), d = EatEither(b, n, al)
  PROVE  /\ Moved(c, d, m, X) /\ Len(c) = Len(d)
         /\ c # a <=> d # b
<1> DEFINE e == EatBoolean(a, n)
           f == EatBoolean(b, n)
<1>1. Moved(e, f, m, X)
  BY MovedEaten
<1>2. c = EatBoolean(e, al) /\ d = EatBoolean(f, al)
  BY Zenon DEF EatEither
<1> HIDE DEF e, f
<1>3. Moved(c, d, m, X)
  BY <1>1, <1>2, MovedEaten
<1>4. Kept(a) /\ Kept(b) /\ Len(a) = Len(b) /\ Len(c) = Len(d)
  BY <1>3, MovedLength
<1>5. c # a <=> d # b
  BY <1>4, FoundByLength
<1> QED BY <1>3, <1>4, <1>5

LEMMA PackKey ==
  ASSUME NEW key \in Args, NEW v \in Args, key \in {"--output", "-o"}, v \notin {"--output", "-o"},
         NEW a, NEW b, Moved(a, b, Two(key, v), {"--output", "-o"}), NEW quiet
  PROVE  DecidePack(a, quiet) = DecidePack(b, quiet)
<1>1. EatKvEither(a, "--output", "-o") = EatKvEither(b, "--output", "-o")
  BY MovedKeys
<1> QED BY <1>1, Zenon DEF DecidePack

\* What is unpacked, rather than listed.
MayUnpack(a) ==
  \/ Has(a, "--unpack")
  \/ ~ Has(a, "--dry-run") /\ ~ Has(a, "-d") /\ ~ Has(a, "--list") /\ ~ Has(a, "-l")

LEMMA UnpacksWhenAsked ==
  ASSUME NEW a, Kept(a), MayUnpack(a), NEW ad, NEW as, NEW al, NEW ar, Stages(a, ad, as, al, ar)
  PROVE  AsksToUnpack(a, ad, as, al, ar)
<1>1. /\ Kept(ad)
      /\ ad # a <=> Has(a, "--dry-run") \/ Has(a, "-d")
      /\ \A z : z # "--dry-run" /\ z # "-d" => (Has(ad, z) <=> Has(a, z))
  BY EatEitherLeaves DEF Stages
<1>2. /\ Kept(as)
      /\ \A z : z # "--stdin" /\ z # "-s" => (Has(as, z) <=> Has(ad, z))
  BY <1>1, EatEitherLeaves DEF Stages
<1>3. /\ Kept(al)
      /\ al # as <=> Has(as, "--list") \/ Has(as, "-l")
      /\ \A z : z # "--list" /\ z # "-l" => (Has(al, z) <=> Has(as, z))
  BY <1>2, EatEitherLeaves DEF Stages
<1>4. /\ Has(al, "--unpack") <=> Has(a, "--unpack")
      /\ Has(as, "--list") <=> Has(a, "--list")
      /\ Has(as, "-l") <=> Has(a, "-l")
  BY <1>1, <1>2, <1>3
<1>5. Has(al, "--unpack") => ar # al
  <2>1. Len(al) \in Nat /\ (Has(al, "--unpack") => Len(EatBoolean(al, "--unpack")) = Len(al) - 1)
    BY <1>3, EatLeaves, LenProperties DEF Kept
  <2>2. ar = EatBoolean(al, "--unpack")
    BY DEF Stages
  <2> QED BY <2>1, <2>2
<1> QED BY <1>1, <1>3, <1>4, <1>5 DEF MayUnpack, AsksToUnpack

LEMMA ReadKey ==
  ASSUME NEW key \in Args, NEW v \in Args, key \in {"--num-threads", "-n"}, v \notin {"--num-threads", "-n"},
         ~ ForReading(v), NEW a, NEW b, Moved(a, b, Two(key, v), {"--num-threads", "-n"}), MayUnpack(a), NEW quiet
  PROVE  DecideRead(a, quiet) = DecideRead(b, quiet)
<1> DEFINE m == Two(key, v)
           X == {"--num-threads", "-n"}
<1>1. m \in Seq(Args) /\ \A Y : Lacks(m, Y) <=> key \notin Y /\ v \notin Y
  BY TwoType
<1>2. Moved(a, b, m, X)
  OBVIOUS
<1>3. /\ Lacks(m, {"--dry-run"}) /\ Lacks(m, {"-d"}) /\ Lacks(m, {"--stdin"}) /\ Lacks(m, {"-s"})
      /\ Lacks(m, {"--list"}) /\ Lacks(m, {"-l"}) /\ Lacks(m, {"--unpack"})
  <2>1. \A z : ForReading(z) => Lacks(m, {z})
    <3> HIDE DEF m
    <3> QED BY <1>1 DEF ForReading
  <2> HIDE DEF m
  <2> QED BY <2>1 DEF ForReading
<1> HIDE DEF m, X
<1>4. PICK ad, as, al, ar : Stages(a, ad, as, al, ar)
  BY Zenon DEF Stages
<1>5. PICK bd, bs, bl, br : Stages(b, bd, bs, bl, br)
  BY Zenon DEF Stages
<1>6. Moved(ad, bd, m, X) /\ (ad # a <=> bd # b)
  BY <1>1, <1>2, <1>3, <1>4, <1>5, MovedEither DEF Stages
<1>7. Moved(as, bs, m, X) /\ (as # ad <=> bs # bd)
  BY <1>1, <1>3, <1>4, <1>5, <1>6, MovedEither DEF Stages
<1>8. Moved(al, bl, m, X) /\ (al # as <=> bl # bs)
  BY <1>1, <1>3, <1>4, <1>5, <1>7, MovedEither DEF Stages
<1>9. Moved(ar, br, m, X)
  BY <1>1, <1>3, <1>4, <1>5, <1>8, MovedEaten DEF Stages
<1>10. AsksToUnpack(a, ad, as, al, ar)
  <2>1. Kept(a)
    BY <1>1, <1>2, MovedLength
  <2> QED BY <1>4, <2>1, UnpacksWhenAsked
<1>11. AsksToUnpack(b, bd, bs, bl, br)
  <2>1. ar # al => br # bl
    <3>1. Kept(al) /\ Kept(bl) /\ Len(al) = Len(bl) /\ Len(ar) = Len(br)
      BY <1>1, <1>8, <1>9, MovedLength
    <3>2. /\ Len(ar) = (IF Has(al, "--unpack") THEN Len(al) - 1 ELSE Len(al)) /\ (~ Has(al, "--unpack") => ar = al)
          /\ Len(br) = (IF Has(bl, "--unpack") THEN Len(bl) - 1 ELSE Len(bl)) /\ (~ Has(bl, "--unpack") => br = bl)
      BY <1>4, <1>5, <3>1, EatLeaves DEF Stages
    <3>3. Len(al) \in Nat
      BY <3>1, LenProperties DEF Kept
    <3>4. ASSUME ar # al, br = bl PROVE FALSE
      <4>1. Has(al, "--unpack")
        BY <3>2, <3>4
      <4>2. Len(ar) = Len(al) - 1 /\ Len(br) = Len(bl)
        BY <3>2, <3>4, <4>1
      <4>3. \A k \in Nat : k - 1 # k
        OBVIOUS
      <4>4. Len(al) - 1 = Len(al)
        BY <3>1, <4>2, Zenon
      <4> QED BY <3>3, <4>3, <4>4
    <3> QED BY <3>4
  <2> QED BY <1>6, <1>8, <1>10, <2>1 DEF AsksToUnpack
<1>12. NumberOf(a, ad, as, al, ar) = NumberOf(b, bd, bs, bl, br)
  <2>1. EatKvEither(ar, "--num-threads", "-n") = EatKvEither(br, "--num-threads", "-n")
    BY <1>9, MovedKeys DEF m, X
  <2> QED BY <1>10, <1>11, <2>1, Zenon DEF NumberOf
<1>13. Read(a, quiet, ad, as, al, ar) = Read(b, quiet, bd, bs, bl, br)
  <2>1. Differs(ad, a) = Differs(bd, b) /\ Differs(as, ad) = Differs(bs, bd) /\ Differs(al, as) = Differs(bl, bs)
    BY <1>6, <1>7, <1>8, Zenon DEF Differs
  <2> QED BY <1>12, <2>1, Zenon DEF Read
<1>14. DecideRead(a, quiet) = Read(a, quiet, ad, as, al, ar)
  BY <1>4, DecideReadIs, Zenon
<1>15. DecideRead(b, quiet) = Read(b, quiet, bd, bs, bl, br)
  BY <1>5, DecideReadIs, Zenon
<1> QED BY <1>13, <1>14, <1>15

LEMMA StartMoved ==
  ASSUME NEW key \in Args, NEW v \in Args, ~ ForAll(key), ~ ForAll(v), NEW X, NEW a, NEW b, Moved(a, b, Two(key, v), X),
         NEW ah, NEW aw, NEW ap, FirstStages(a, ah, aw, ap), NEW bh, NEW bw, NEW bp, FirstStages(b, bh, bw, bp)
  PROVE  Moved(ap, bp, Two(key, v), X) /\ StartAlike(a, ah, aw, ap, b, bh, bw, bp)
<1> DEFINE m == Two(key, v)
<1>1. m \in Seq(Args) /\ \A Y : Lacks(m, Y) <=> key \notin Y /\ v \notin Y
  BY TwoType
<1>2. Moved(a, b, m, X)
  OBVIOUS
<1> HIDE DEF m
<1>3. /\ Lacks(m, {"--help"}) /\ Lacks(m, {"-h"}) /\ Lacks(m, {"--disable-warning"}) /\ Lacks(m, {"-W"})
      /\ Lacks(m, {"--pack"}) /\ Lacks(m, {"p"})
  <2>1. \A z : ForAll(z) => Lacks(m, {z})
    BY <1>1 DEF ForAll
  <2> QED BY <2>1 DEF ForAll
<1>4. Moved(ah, bh, m, X) /\ Len(ah) = Len(bh) /\ (ah # a <=> bh # b)
  BY <1>1, <1>2, <1>3, MovedEither DEF FirstStages
<1>5. Moved(aw, bw, m, X) /\ (aw # ah <=> bw # bh)
  BY <1>1, <1>3, <1>4, MovedEither DEF FirstStages
<1>6. Moved(ap, bp, m, X) /\ (ap # aw <=> bp # bw)
  BY <1>1, <1>3, <1>5, MovedEither DEF FirstStages
<1> QED BY <1>4, <1>5, <1>6 DEF StartAlike, Differs, m

ForOutput(key) == key \in {"--output", "-o"}
ForThreads(key) == key \in {"--num-threads", "-n"}

LEMMA PackKeyAnywhere ==
  ASSUME NEW key \in Args, NEW v \in Args, ForOutput(key), ~ ForOutput(v), ~ ForAll(v),
         NEW a, NEW b, Moved(a, b, Two(key, v), {"--output", "-o"}), a # <<>>, b # <<>>,
         Has(a, "--pack") \/ Has(a, "p")
  PROVE  Decide(a) = Decide(b)
<1>1. PICK ah, aw, ap : FirstStages(a, ah, aw, ap)
  BY Zenon DEF FirstStages
<1>2. PICK bh, bw, bp : FirstStages(b, bh, bw, bp)
  BY Zenon DEF FirstStages
<1>3. ~ ForAll(key)
  BY DEF ForOutput, ForAll
<1>4. Moved(ap, bp, Two(key, v), {"--output", "-o"}) /\ StartAlike(a, ah, aw, ap, b, bh, bw, bp)
  BY <1>1, <1>2, <1>3, StartMoved
<1>5. Differs(ap, aw)
  <2>1. Two(key, v) \in Seq(Args)
    BY TwoType
  <2>2. Kept(a)
    BY <2>1, MovedLength
  <2> QED BY <1>1, <2>2, FoundThere
<1>6. DecidePack(ap, Differs(aw, ah)) = DecidePack(bp, Differs(aw, ah))
  <2> DEFINE quiet == Differs(aw, ah)
  <2> HIDE DEF quiet
  <2>1. DecidePack(ap, quiet) = DecidePack(bp, quiet)
    BY <1>4, PackKey DEF ForOutput
  <2> QED BY <2>1 DEF quiet
<1> QED BY <1>1, <1>2, <1>4, <1>5, <1>6, DecideAlike, Zenon

LEMMA ReadKeyAnywhere ==
  ASSUME NEW key \in Args, NEW v \in Args, ForThreads(key), ~ ForThreads(v), ~ ForAll(v), ~ ForReading(v),
         NEW a, NEW b, Moved(a, b, Two(key, v), {"--num-threads", "-n"}), a # <<>>, b # <<>>,
         ~ Has(a, "--pack"), ~ Has(a, "p"), MayUnpack(a)
  PROVE  Decide(a) = Decide(b)
<1>1. PICK ah, aw, ap : FirstStages(a, ah, aw, ap)
  BY Zenon DEF FirstStages
<1>2. PICK bh, bw, bp : FirstStages(b, bh, bw, bp)
  BY Zenon DEF FirstStages
<1>3. ~ ForAll(key)
  BY DEF ForThreads, ForAll
<1>4. Moved(ap, bp, Two(key, v), {"--num-threads", "-n"}) /\ StartAlike(a, ah, aw, ap, b, bh, bw, bp)
  BY <1>1, <1>2, <1>3, StartMoved
<1>5. ~ Differs(ap, aw) /\ MayUnpack(ap)
  <2>1. Two(key, v) \in Seq(Args)
    BY TwoType
  <2>2. Kept(a)
    BY <2>1, MovedLength
  <2>3. ~ Differs(ap, aw) /\ \A z : ~ ForAll(z) => (Has(ap, z) <=> Has(a, z))
    BY <1>1, <2>2, FoundThere
  <2> QED BY <2>3 DEF MayUnpack, ForAll
<1>6. DecideRead(ap, Differs(aw, ah)) = DecideRead(bp, Differs(aw, ah))
  <2> DEFINE quiet == Differs(aw, ah)
  <2> HIDE DEF quiet
  <2>1. DecideRead(ap, quiet) = DecideRead(bp, quiet)
    BY <1>4, <1>5, ReadKey DEF ForThreads
  <2> QED BY <2>1 DEF quiet
<1> QED BY <1>1, <1>2, <1>4, <1>5, <1>6, DecideAlike, Zenon

-----------------------------------------------------------------------------
(* The command line that has an option in front.                           *)

Piece(a, f, g) == SubSeq(a, f, g)

LEMMA PieceType ==
  ASSUME NEW a \in Seq(Args), NEW f \in 1 .. Len(a) + 1, NEW g \in f - 1 .. Len(a)
  PROVE  /\ Piece(a, f, g) \in Seq(Args) /\ Len(Piece(a, f, g)) = g - f + 1
         /\ \A k \in 1 .. g - f + 1 : Piece(a, f, g)[k] = a[f + k - 1]
<1>1. Len(a) \in Nat /\ \A k \in 1 .. Len(a) : a[k] \in Args
  BY LenProperties
<1>2. f \in Int /\ g \in Int /\ \A k \in f .. g : k \in 1 .. Len(a)
  BY <1>1
<1>3. \A k \in f .. g : a[k] \in Args
  BY <1>1, <1>2
<1>4. /\ SubSeq(a, f, g) \in Seq(Args) /\ Len(SubSeq(a, f, g)) = IF f <= g THEN g - f + 1 ELSE 0
      /\ \A k \in 1 .. g - f + 1 : SubSeq(a, f, g)[k] = a[f + k - 1]
  BY <1>2, <1>3, SubSeqProperties
<1>5. (IF f <= g THEN g - f + 1 ELSE 0) = g - f + 1
  BY <1>1, <1>2
<1> QED BY <1>4, <1>5 DEF Piece

LEMMA PiecesJoin ==
  ASSUME NEW a \in Seq(Args), NEW g \in 0 .. Len(a), NEW f \in 0 .. g, NEW h, h = f + 1
  PROVE  Cat(Piece(a, 1, f), Piece(a, h, g)) = Piece(a, 1, g)
BY CutInTwo DEF Cat, Piece

LEMMA WholePiece ==
  ASSUME NEW a, Kept(a)
  PROVE  Piece(a, 1, Len(a)) = a /\ Piece(a, 1, 1) = Only(a[1])
<1>1. a \in Seq(Args) /\ Len(a) \in Nat /\ Len(a) >= 1 /\ a[1] \in Args
  BY LenProperties DEF Kept
<1>2. Piece(a, 1, Len(a)) = a
  <2> DEFINE p == Piece(a, 1, Len(a))
  <2>1. 1 \in 1 .. Len(a) + 1 /\ Len(a) \in 1 - 1 .. Len(a) /\ Len(a) - 1 + 1 = Len(a)
    BY <1>1
  <2>2. p \in Seq(Args) /\ Len(p) = Len(a) - 1 + 1 /\ \A k \in 1 .. Len(a) - 1 + 1 : p[k] = a[1 + k - 1]
    BY <1>1, <2>1, PieceType
  <2> HIDE DEF p
  <2>3. Len(p) = Len(a) /\ \A k \in 1 .. Len(p) : p[k] = a[k]
    BY <1>1, <2>2
  <2>4. p = a
    BY <1>1, <2>2, <2>3, SeqEqual
  <2> QED BY <2>4 DEF p
<1>3. Piece(a, 1, 1) = Only(a[1])
  <2> DEFINE p == Piece(a, 1, 1)
             o == Only(a[1])
  <2>1. 1 \in 1 .. Len(a) + 1 /\ 1 \in 1 - 1 .. Len(a)
    BY <1>1
  <2>2. p \in Seq(Args) /\ Len(p) = 1 - 1 + 1 /\ \A k \in 1 .. 1 - 1 + 1 : p[k] = a[1 + k - 1]
    BY <1>1, <2>1, PieceType
  <2>3. o \in Seq(Args) /\ Len(o) = 1 /\ o[1] = a[1]
    BY <1>1 DEF Only
  <2> HIDE DEF p, o
  <2>4. Len(p) = Len(o) /\ \A k \in 1 .. Len(p) : p[k] = o[k]
    BY <2>2, <2>3
  <2>5. p = o
    BY <2>2, <2>3, <2>4, SeqEqual
  <2> QED BY <2>5 DEF p, o
<1> QED BY <1>2, <1>3

LEMMA TailOfRest ==
  ASSUME NEW x \in Args, NEW t \in Seq(Args)
  PROVE  Tail(Cat(Only(x), t)) = t
<1> DEFINE c == Cat(Only(x), t)
<1>1. c \in Seq(Args) /\ Len(c) = Len(t) + 1 /\ Len(t) \in Nat /\ \A k \in 2 .. Len(t) + 1 : c[k] = t[k - 1]
  BY FirstAndRest, Zenon DEF Cat, Only
<1> HIDE DEF c
<1>2. c # <<>>
  BY <1>1, EmptySeq
<1>3. Tail(c) \in Seq(Args) /\ Len(Tail(c)) = Len(c) - 1 /\ \A i \in 1 .. Len(Tail(c)) : Tail(c)[i] = c[i + 1]
  BY <1>1, <1>2, HeadTailProperties
<1> DEFINE u == Tail(c)
<1> HIDE DEF u
<1>4. u \in Seq(Args) /\ Len(u) = Len(t) /\ \A k \in 1 .. Len(u) : u[k] = t[k]
  <2>1. u \in Seq(Args) /\ Len(u) = Len(t)
    BY <1>1, <1>3 DEF u
  <2>2. ASSUME NEW k \in 1 .. Len(t) PROVE u[k] = t[k]
    <3>1. k + 1 \in 2 .. Len(t) + 1 /\ (k + 1) - 1 = k
      BY <1>1
    <3>2. u[k] = c[k + 1]
      BY <1>3, <2>1 DEF u
    <3> QED BY <1>1, <3>1, <3>2
  <2> QED BY <2>1, <2>2
<1>5. u = t
  BY <1>4, SeqEqual
<1> QED BY <1>5 DEF u, c

\* A command line with the arguments from the i-th to the j-th in front.
Fronted(a, i, n) == <<a[1]>> \o SubSeq(a, i, i + n - 1) \o Tail(Without(a, i, n))

LEMMA FrontedIsMoved ==
  ASSUME NEW a, Kept(a), NEW i \in 2 .. Len(a), NEW n \in 1 .. 2, i + n - 1 <= Len(a), NEW X,
         \A k \in 2 .. Len(a) : k < i \/ k > i + n - 1 => a[k] \notin X
  PROVE  Moved(a, Fronted(a, i, n), Piece(a, i, i + n - 1), X)
<1> DEFINE j == i + n - 1
           x == a[1]
           u == Piece(a, 2, i - 1)
           m == Piece(a, i, j)
           r == Piece(a, j + 1, Len(a))
           b == Fronted(a, i, n)
<1>1. a \in Seq(Args) /\ Len(a) \in Nat /\ Len(a) >= 1 /\ x \in Args
  BY LenProperties DEF Kept
<1>2. i \in Nat /\ i >= 2 /\ i <= Len(a) /\ j \in i .. Len(a) /\ j + 1 = i + n
  BY <1>1
<1> HIDE DEF j
<1>3. /\ u \in Seq(Args) /\ Len(u) = i - 1 - 2 + 1 /\ \A k \in 1 .. i - 1 - 2 + 1 : u[k] = a[2 + k - 1]
      /\ r \in Seq(Args) /\ Len(r) = Len(a) - (j + 1) + 1 /\ \A k \in 1 .. Len(a) - (j + 1) + 1 : r[k] = a[(j + 1) + k - 1]
      /\ m \in Seq(Args)
  <2>1. 2 \in 1 .. Len(a) + 1 /\ i - 1 \in 2 - 1 .. Len(a)
    BY <1>1, <1>2
  <2>2. j + 1 \in 1 .. Len(a) + 1 /\ Len(a) \in (j + 1) - 1 .. Len(a)
    BY <1>1, <1>2
  <2>3. i \in 1 .. Len(a) + 1 /\ j \in i - 1 .. Len(a)
    BY <1>1, <1>2
  <2> QED BY <1>1, <2>1, <2>2, <2>3, PieceType
<1>4. Piece(a, 1, i - 1) = Cat(Only(x), u)
  <2>1. i - 1 \in 0 .. Len(a) /\ 1 \in 0 .. i - 1 /\ 2 = 1 + 1
    BY <1>1, <1>2
  <2>2. Cat(Piece(a, 1, 1), Piece(a, 2, i - 1)) = Piece(a, 1, i - 1)
    BY <1>1, <2>1, PiecesJoin
  <2> QED BY <2>2, WholePiece
<1>5. Piece(a, 1, j) = Cat(Piece(a, 1, i - 1), m)
  <2>1. j \in 0 .. Len(a) /\ i - 1 \in 0 .. j /\ i = (i - 1) + 1
    BY <1>1, <1>2
  <2> QED BY <1>1, <2>1, PiecesJoin
<1>6. a = Cat(Piece(a, 1, j), r)
  <2>1. Len(a) \in 0 .. Len(a) /\ j \in 0 .. Len(a) /\ j + 1 = j + 1
    BY <1>1, <1>2
  <2>2. Cat(Piece(a, 1, j), Piece(a, j + 1, Len(a))) = Piece(a, 1, Len(a))
    BY <1>1, <2>1, PiecesJoin
  <2> QED BY <2>2, WholePiece
<1>7. Without(a, i, n) = Cat(Cat(Only(x), u), r)
  <2>1. Without(a, i, n) = Cat(Piece(a, 1, i - 1), Piece(a, i + n, Len(a)))
    BY Zenon DEF Without, Cat, Piece
  <2> QED BY <1>2, <1>4, <2>1
<1>8. b = Cat(Cat(Only(x), m), Tail(Without(a, i, n)))
  BY Zenon DEF Fronted, Cat, Only, Piece, j
<1> HIDE DEF u, m, r, x, b
<1>9. Only(x) \in Seq(Args) /\ Cat(m, r) \in Seq(Args) /\ Cat(u, r) \in Seq(Args)
  BY <1>1, <1>3, CatType, OnlyType
<1>10. a = Cat(Only(x), Cat(u, Cat(m, r)))
  <2>1. a = Cat(Cat(Cat(Only(x), u), m), r)
    BY <1>4, <1>5, <1>6
  <2>2. Cat(Only(x), u) \in Seq(Args)
    BY <1>3, <1>9, CatType
  <2>3. Cat(Cat(Cat(Only(x), u), m), r) = Cat(Cat(Only(x), u), Cat(m, r))
    BY <1>3, <2>2, CatAssociative
  <2>4. Cat(Cat(Only(x), u), Cat(m, r)) = Cat(Only(x), Cat(u, Cat(m, r)))
    BY <1>3, <1>9, CatAssociative
  <2> QED BY <2>1, <2>3, <2>4
<1>11. b = Cat(Only(x), Cat(m, Cat(u, r)))
  <2>1. Without(a, i, n) = Cat(Only(x), Cat(u, r))
    BY <1>3, <1>7, <1>9, CatAssociative
  <2>2. Tail(Without(a, i, n)) = Cat(u, r)
    BY <1>1, <1>9, <2>1, TailOfRest
  <2>3. b = Cat(Cat(Only(x), m), Cat(u, r))
    BY <1>8, <2>2
  <2>4. Cat(Cat(Only(x), m), Cat(u, r)) = Cat(Only(x), Cat(m, Cat(u, r)))
    BY <1>3, <1>9, CatAssociative
  <2> QED BY <2>3, <2>4
<1>12. Lacks(u, X)
  <2> SUFFICES ASSUME NEW k \in 1 .. Len(u) PROVE u[k] \notin X
    BY DEF Lacks
  <2>3. k \in 1 .. i - 1 - 2 + 1
    BY <1>3
  <2>1. k \in 1 .. i - 1 - 2 + 1 /\ 2 + k - 1 \in 2 .. Len(a) /\ 2 + k - 1 < i
    BY <1>1, <1>2, <2>3
  <2>2. u[k] = a[2 + k - 1]
    BY <1>3, <2>1
  <2> QED BY <2>1, <2>2
<1>13. Lacks(r, X)
  <2> SUFFICES ASSUME NEW k \in 1 .. Len(r) PROVE r[k] \notin X
    BY DEF Lacks
  <2>1. k \in 1 .. Len(a) - (j + 1) + 1 /\ (j + 1) + k - 1 \in 2 .. Len(a) /\ (j + 1) + k - 1 > j
    BY <1>1, <1>2, <1>3
  <2>2. r[k] = a[(j + 1) + k - 1]
    BY <1>3, <2>1
  <2> QED BY <2>1, <2>2 DEF j
<1>14. Around(a, b, m, X, x, u, r)
  BY <1>1, <1>3, <1>10, <1>11, <1>12, <1>13 DEF Around
<1>15. Moved(a, b, m, X)
  BY <1>14 DEF Moved
<1> QED BY <1>15 DEF b, m, j

\* A word that stands once stands nowhere else.
LEMMA OnceIsUnique ==
  ASSUME argv \in Seq(Args), NEW i \in 1 .. Len(argv), Once(argv[i])
  PROVE  \A k \in 1 .. Len(argv) : k # i => argv[k] # argv[i]
<1> DEFINE S == {k \in DOMAIN argv : argv[k] = argv[i]}
<1>1. Len(argv) \in Nat /\ DOMAIN argv = 1 .. Len(argv)
  BY LenProperties
<1>2. IsFiniteSet(S)
  <2>1. IsFiniteSet(1 .. Len(argv))
    BY <1>1, FS_Interval
  <2>2. S \in SUBSET (1 .. Len(argv))
    BY <1>1
  <2> HIDE DEF S
  <2> QED BY <2>1, <2>2, FS_Subset
<1>3. Cardinality(S) = 1
  BY Zenon DEF Once
<1>4. PICK x : S = {x}
  <2> HIDE DEF S
  <2> QED BY <1>2, <1>3, FS_Singleton
<1> QED BY <1>1, <1>4

LEMMA OnlyPiece ==
  ASSUME NEW a, Kept(a), NEW i \in 2 .. Len(a)
  PROVE  /\ a[i] \in Args /\ Piece(a, i, i + 1 - 1) = Only(a[i])
         /\ i < Len(a) => a[i + 1] \in Args /\ Piece(a, i, i + 2 - 1) = Two(a[i], a[i + 1])
<1>1. a \in Seq(Args) /\ Len(a) \in Nat /\ \A k \in 1 .. Len(a) : a[k] \in Args
  BY LenProperties DEF Kept
<1>2. Piece(a, i, i + 1 - 1) = Only(a[i])
  <2> DEFINE p == Piece(a, i, i + 1 - 1)
             o == Only(a[i])
  <2>1. i \in 1 .. Len(a) + 1 /\ i + 1 - 1 \in i - 1 .. Len(a) /\ (i + 1 - 1) - i + 1 = 1 /\ i + 1 - 1 = i
    BY <1>1
  <2>2. p \in Seq(Args) /\ Len(p) = 1 /\ \A k \in 1 .. 1 : p[k] = a[i + k - 1]
    BY <1>1, <2>1, PieceType
  <2>3. o \in Seq(Args) /\ Len(o) = 1 /\ o[1] = a[i]
    BY <1>1 DEF Only
  <2> HIDE DEF p, o
  <2>4. Len(p) = Len(o) /\ \A k \in 1 .. Len(p) : p[k] = o[k]
    BY <1>1, <2>2, <2>3
  <2>5. p = o
    BY <2>2, <2>3, <2>4, SeqEqual
  <2> QED BY <2>5 DEF p, o
<1>3. ASSUME i < Len(a) PROVE a[i + 1] \in Args /\ Piece(a, i, i + 2 - 1) = Two(a[i], a[i + 1])
  <2> DEFINE p == Piece(a, i, i + 2 - 1)
             o == Two(a[i], a[i + 1])
  <2>6. a[i] \in Args /\ a[i + 1] \in Args
    BY <1>1, <1>3
  <2>1. i \in 1 .. Len(a) + 1 /\ i + 2 - 1 \in i - 1 .. Len(a) /\ (i + 2 - 1) - i + 1 = 2
    BY <1>1, <1>3
  <2>2. p \in Seq(Args) /\ Len(p) = 2 /\ \A k \in 1 .. 2 : p[k] = a[i + k - 1]
    BY <1>1, <2>1, PieceType
  <2>3. o \in Seq(Args) /\ Len(o) = 2 /\ o[1] = a[i] /\ o[2] = a[i + 1]
    BY <2>6 DEF Two
  <2> HIDE DEF p, o
  <2>4. Len(p) = Len(o) /\ \A k \in 1 .. Len(p) : p[k] = o[k]
    <3>1. p[1] = a[i] /\ p[2] = a[i + 1]
      BY <1>1, <2>2
    <3>2. \A k \in 1 .. 2 : k = 1 \/ k = 2
      OBVIOUS
    <3> QED BY <2>2, <2>3, <3>1, <3>2
  <2>5. p = o
    BY <2>2, <2>3, <2>4, SeqEqual
  <2> QED BY <2>5, <2>6 DEF p, o
<1> QED BY <1>1, <1>2, <1>3

\* What was chosen is what the command line says, until it is looked at.
DecidedInv == pc = "main" => argv \in CommandLines /\ choice = Decide(argv)

LEMMA DecidedInit == Init => DecidedInv
BY DEF Init, DecidedInv

LEMMA DecidedNext == DecidedInv /\ [Next]_vars => DecidedInv'
<1> SUFFICES ASSUME DecidedInv, [Next]_vars PROVE DecidedInv'
  OBVIOUS
<1>1. CASE Step
  <2>1. pc' # "main"
    <3>1. CASE Main
      BY <3>1 DEF Main, Exit, GoOn
    <3>2. CASE Open
      BY <3>2 DEF Open, GoOnWith, GoOn
    <3>3. CASE OpenFails
      BY <3>3 DEF OpenFails, Exit
    <3>4. CASE Measure
      BY <3>4 DEF Measure, EnsureRead, GoOnWith, GoOn
    <3>5. CASE ReadSome
      BY <3>5 DEF ReadSome
    <3>6. CASE ReadOn
      BY <3>6 DEF ReadOn, EnsureNext, EnsureRead, GoOnWith, GoOn
    <3>7. CASE Loaded
      BY <3>7 DEF Loaded, GoOnWith, GoOn
    <3>8. CASE ReadFails
      BY <3>8 DEF ReadFails, Exit
    <3>9. CASE PackWrites
      BY <3>9 DEF PackWrites, Exit
    <3>10. CASE OutputCannotBeOpened
      BY <3>10 DEF OutputCannotBeOpened, Exit
    <3>11. CASE RunUnpack
      BY <3>11 DEF RunUnpack, Exit, GoOn
    <3>12. CASE RunOther
      BY <3>12 DEF RunOther, Exit
    <3> QED BY <1>1, <3>1, <3>2, <3>3, <3>4, <3>5, <3>6, <3>7, <3>8, <3>9, <3>10, <3>11, <3>12 DEF Step
  <2> QED BY <2>1 DEF DecidedInv
<1>2. CASE Feed
  BY <1>2 DEF Feed, Reading, DecidedInv
<1>3. CASE HangUp
  BY <1>3 DEF HangUp, Reading, DecidedInv
<1>4. CASE UNCHANGED vars
  BY <1>4 DEF vars, DecidedInv
<1> QED BY <1>1, <1>2, <1>3, <1>4 DEF Next

\* The words of the property, by where they are looked for.
LEMMA WordsOf ==
  /\ \A z : z \in Given <=> Has(argv, z)
  /\ Packs <=> Has(argv, "--pack") \/ Has(argv, "p")
  /\ Unpacks <=> MayUnpack(argv)
  /\ \A z : z \in Switches <=> ForAll(z) \/ (ForReading(z) /\ ~ Packs)
  /\ Packs => \A z : z \in Keys <=> ForOutput(z)
  /\ ~ Packs /\ Unpacks => \A z : z \in Keys <=> ForThreads(z)
  /\ ~ Packs /\ ~ Unpacks => Keys = {}
<1>1. \A z : z \in Given <=> Has(argv, z)
  BY DEF Given, Has
<1> USE <1>1
<1>2. Packs <=> Has(argv, "--pack") \/ Has(argv, "p")
  BY DEF Packs
<1>3. Unpacks <=> MayUnpack(argv)
  BY DEF Unpacks, MayUnpack
<1>4. \A z : z \in Switches <=> ForAll(z) \/ (ForReading(z) /\ ~ Packs)
  BY DEF Switches, ForAll, ForReading
<1>5. Packs => \A z : z \in Keys <=> ForOutput(z)
  BY DEF Keys, ForOutput
<1>6. ~ Packs /\ Unpacks => \A z : z \in Keys <=> ForThreads(z)
  BY DEF Keys, ForThreads
<1>7. ~ Packs /\ ~ Unpacks => Keys = {}
  BY DEF Keys
<1> QED BY <1>1, <1>2, <1>3, <1>4, <1>5, <1>6, <1>7

LEMMA SwitchStandsAnywhere ==
  ASSUME Kept(argv), NEW i \in 2 .. Len(argv), Once(argv[i]), argv[i] \in Switches
  PROVE  Decide(ToTheFront(i, 1)) = Decide(argv)
<1> DEFINE w == argv[i]
           b == Fronted(argv, i, 1)
<1>1. argv \in Seq(Args) /\ Len(argv) \in Nat
  BY LenProperties DEF Kept
<1>2. \A k \in 2 .. Len(argv) : k < i \/ k > i + 1 - 1 => argv[k] \notin {w}
  BY <1>1, OnceIsUnique
<1>3. w \in Args /\ Piece(argv, i, i + 1 - 1) = Only(w)
  BY OnlyPiece
<1>4. Moved(argv, b, Only(w), {w})
  <2> DEFINE X == {w}
  <2>1. \A k \in 2 .. Len(argv) : k < i \/ k > i + 1 - 1 => argv[k] \notin X
    BY <1>2
  <2> HIDE DEF X
  <2>2. 1 \in 1 .. 2 /\ i + 1 - 1 <= Len(argv)
    BY <1>1
  <2>3. Moved(argv, Fronted(argv, i, 1), Piece(argv, i, i + 1 - 1), X)
    BY <2>1, <2>2, FrontedIsMoved
  <2> QED BY <1>3, <2>3 DEF X
<1>5. ForAll(w) \/ (ForReading(w) /\ ~ Has(argv, "--pack") /\ ~ Has(argv, "p"))
  BY WordsOf
<1> HIDE DEF w, b
<1>6. Only(w) \in Seq(Args)
  BY <1>3, OnlyType
<1>7. Kept(b) /\ Len(argv) = Len(b)
  BY <1>4, <1>6, MovedLength
<1>8. argv # <<>> /\ b # <<>>
  BY <1>7, EmptySeq DEF Kept
<1>9. Together(argv, b, w)
  BY <1>4, <1>7 DEF Together
<1>10. Decide(argv) = Decide(b)
  BY <1>3, <1>5, <1>8, <1>9, SwitchAnywhere
<1>11. ToTheFront(i, 1) = b
  BY Zenon DEF ToTheFront, Fronted, b
<1> QED BY <1>10, <1>11

LEMMA KeyStandsAnywhere ==
  ASSUME Kept(argv), NEW i \in 2 .. Len(argv), Once(argv[i]), Given \cap Keys = {argv[i]}, i < Len(argv),
         argv[i + 1] \notin Switches
  PROVE  Decide(ToTheFront(i, 2)) = Decide(argv)
<1> DEFINE key == argv[i]
           v == argv[i + 1]
           b == Fronted(argv, i, 2)
<1>1. argv \in Seq(Args) /\ Len(argv) \in Nat
  BY LenProperties DEF Kept
<1>2. /\ key \in Keys /\ \A z \in Keys : Has(argv, z) => z = key
  BY WordsOf
<1>3. \A k \in 2 .. Len(argv) : k # i => argv[k] \notin Keys
  <2> SUFFICES ASSUME NEW k \in 2 .. Len(argv), k # i, argv[k] \in Keys PROVE FALSE
    OBVIOUS
  <2>1. Has(argv, argv[k])
    BY DEF Has
  <2>2. argv[k] = key
    BY <1>2, <2>1
  <2>3. argv[k] # key
    BY <1>1, OnceIsUnique
  <2> QED BY <2>2, <2>3
<1>4. key \in Args /\ v \in Args /\ Piece(argv, i, i + 2 - 1) = Two(key, v)
  BY OnlyPiece
<1>5. v \notin Keys
  <2>1. i + 1 \in 2 .. Len(argv) /\ i + 1 # i
    BY <1>1
  <2> QED BY <1>3, <2>1
<1>6. Moved(argv, b, Two(key, v), Keys)
  <2> DEFINE X == Keys
  <2>1. \A k \in 2 .. Len(argv) : k < i \/ k > i + 2 - 1 => argv[k] \notin X
    BY <1>1, <1>3
  <2> HIDE DEF X
  <2>2. 2 \in 1 .. 2 /\ i + 2 - 1 <= Len(argv)
    BY <1>1
  <2>3. Moved(argv, Fronted(argv, i, 2), Piece(argv, i, i + 2 - 1), X)
    BY <2>1, <2>2, FrontedIsMoved
  <2> QED BY <1>4, <2>3 DEF X
<1>7. v \notin Switches
  OBVIOUS
<1> HIDE DEF key, v, b
<1>8. Two(key, v) \in Seq(Args)
  BY <1>4, TwoType
<1>9. Kept(b) /\ Len(argv) = Len(b)
  BY <1>6, <1>8, MovedLength
<1>10. argv # <<>> /\ b # <<>>
  BY <1>9, EmptySeq DEF Kept
<1>11. Decide(argv) = Decide(b)
  <2>1. CASE Packs
    <3>1. Keys = {"--output", "-o"}
      BY <2>1 DEF Keys
    <3>2. ForOutput(key) /\ ~ ForOutput(v) /\ ~ ForAll(v)
      BY <1>2, <1>5, <1>7, <2>1, WordsOf
    <3>3. Has(argv, "--pack") \/ Has(argv, "p")
      BY <2>1, WordsOf
    <3>4. Moved(argv, b, Two(key, v), {"--output", "-o"})
      BY <1>6, <3>1
    <3> QED BY <1>4, <1>10, <3>2, <3>3, <3>4, PackKeyAnywhere
  <2>2. CASE ~ Packs
    <3>1. Unpacks
      BY <1>2, <2>2 DEF Keys
    <3>2. Keys = {"--num-threads", "-n"}
      BY <2>2, <3>1 DEF Keys
    <3>3. ForThreads(key) /\ ~ ForThreads(v) /\ ~ ForAll(v) /\ ~ ForReading(v)
      BY <1>2, <1>5, <1>7, <2>2, <3>1, WordsOf
    <3>4. ~ Has(argv, "--pack") /\ ~ Has(argv, "p") /\ MayUnpack(argv)
      BY <2>2, <3>1, WordsOf
    <3>5. Moved(argv, b, Two(key, v), {"--num-threads", "-n"})
      BY <1>6, <3>2
    <3> QED BY <1>4, <1>10, <3>3, <3>4, <3>5, ReadKeyAnywhere
  <2> QED BY <2>1, <2>2
<1>12. ToTheFront(i, 2) = b
  BY Zenon DEF ToTheFront, Fronted, b
<1> QED BY <1>11, <1>12

LEMMA DecidedIsAnywhere == DecidedInv => OptionsStandAnywhere
<1> SUFFICES ASSUME DecidedInv, pc = "main", NEW i \in 2 .. Len(argv), Once(argv[i])
             PROVE  /\ argv[i] \in Switches => Decide(ToTheFront(i, 1)) = choice
                    /\ Given \cap Keys = {argv[i]} /\ i < Len(argv) /\ argv[i + 1] \notin Switches
                         => Decide(ToTheFront(i, 2)) = choice
  BY DEF OptionsStandAnywhere
<1>1. argv \in CommandLines /\ choice = Decide(argv)
  BY DEF DecidedInv
<1>2. argv # <<>>
  BY EmptySeq
<1>3. Kept(argv)
  BY <1>1, <1>2, LineIsKept
<1>4. argv[i] \in Switches => Decide(ToTheFront(i, 1)) = choice
  BY <1>1, <1>3, SwitchStandsAnywhere
<1>5. Given \cap Keys = {argv[i]} /\ i < Len(argv) /\ argv[i + 1] \notin Switches
        => Decide(ToTheFront(i, 2)) = choice
  BY <1>1, <1>3, KeyStandsAnywhere
<1> QED BY <1>4, <1>5

\* A switch means the same wherever it stands on any command line of any
\* words, and so does a key with its value (eat_boolean, eat_kv, and the order
\* in which textunpack_main calls them).
THEOREM OptionsTheorem == Spec => []OptionsStandAnywhere
<1>1. Spec => []DecidedInv
  BY DecidedInit, DecidedNext, PTL DEF Spec
<1> QED BY <1>1, DecidedIsAnywhere, PTL
=============================================================================
