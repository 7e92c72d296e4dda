---------------------------- MODULE CommandLine ----------------------------
(***************************************************************************)
(* ix_CmdArgsEater, and what textunpack_main makes of the arguments before *)
(* it touches a file.  Arguments are words; argument 1 is the program.     *)
(* Every option that is found is taken out of the sequence, and what is    *)
(* left names files.                                                       *)
(***************************************************************************)
EXTENDS Integers, Sequences

CONSTANTS
  Numerals,      \* the words that ix_string_convert accepts
  ValueOf,       \* [Numerals -> Nat]
  MaxThreads,    \* 1024
  Concurrency    \* ix_hardware_concurrency()

ASSUME CommandLineAssumption ==
  /\ ValueOf \in [Numerals -> Nat]
  /\ MaxThreads \in Nat /\ Concurrency \in 1 .. MaxThreads

NoWord == "nullptr"

\* The first place from 2 to `last' where the word stands, 0 if there is none.
PlaceOf(word, args, last) ==
  LET places == {i \in 2 .. last : args[i] = word}
  IN IF places = {} THEN 0 ELSE CHOOSE i \in places : \A j \in places : i <= j

\* ix_Vector_erase of n arguments from the i-th
Without(args, i, n) == SubSeq(args, 1, i - 1) \o SubSeq(args, i + n, Len(args))

\* Mutant: the last argument is not looked at.
EatBooleanNotLast(args, name) ==
  LET i == PlaceOf(name, args, Len(args) - 1)
  IN IF i = 0 THEN args ELSE Without(args, i, 1)

EatBoolean(args, name) ==
  LET i == PlaceOf(name, args, Len(args))
  IN IF i = 0 THEN args ELSE Without(args, i, 1)

\* Each of the names is eaten once; the option is given if any of them was.
EatEither(args, name, alias) == EatBoolean(EatBoolean(args, name), alias)

\* The last argument has no value behind it and is not looked at.
EatKv(args, key) ==
  LET i == PlaceOf(key, args, Len(args) - 1)
  IN IF i = 0 THEN [args |-> args, value |-> NoWord]
     ELSE [args |-> Without(args, i, 2), value |-> args[i + 1]]

\* Both are eaten, and the value of the alias is preferred.
EatKvEither(args, key, alias) ==
  LET first == EatKv(args, key)
      second == EatKv(first.args, alias)
  IN IF second.value = NoWord THEN [second EXCEPT !.value = first.value] ELSE second

-----------------------------------------------------------------------------
(* What textunpack_main decides: to do nothing but print (a message, or    *)
(* the help text), to pack, or to read an archive.                         *)

Nothing(mode) ==
  [mode |-> mode, quiet |-> FALSE, from_stdin |-> FALSE, threads |-> Concurrency,
   output |-> NoWord, files |-> <<>>]

Refuse == Nothing("refuse")

DecidePack(args, quiet) ==
  LET output == EatKvEither(args, "--output", "-o")
  IN IF Len(output.args) = 1 THEN Refuse
     ELSE [Nothing("pack") EXCEPT !.quiet = quiet, !.output = output.value,
                                  !.files = Tail(output.args)]

\* Of --dry-run, --list and unpacking, the first that applies is done; the
\* number of threads is looked at whenever unpacking applies.
DecideRead(args, quiet) ==
  LET dry == EatEither(args, "--dry-run", "-d")
      stdin == EatEither(dry, "--stdin", "-s")
      list == EatEither(stdin, "--list", "-l")
      rest == EatBoolean(list, "--unpack")
      unpack == rest # list \/ (list = stdin /\ dry = args)
      number == IF unpack THEN EatKvEither(rest, "--num-threads", "-n")
                ELSE [args |-> rest, value |-> NoWord]
      given == number.value # NoWord
      threads == IF given THEN ValueOf[number.value] ELSE Concurrency
  IN IF \/ given /\ number.value \notin Numerals
        \/ threads > MaxThreads
        \/ Len(number.args) # 2
     THEN Refuse
     ELSE [Nothing(IF dry # args THEN "dry_run" ELSE IF list # stdin THEN "list" ELSE "unpack")
             EXCEPT !.quiet = quiet, !.from_stdin = (stdin # dry), !.threads = threads,
                    !.files = <<number.args[2]>>]

Decide(args) ==
  IF args = <<>> THEN Refuse
  ELSE LET help == EatEither(args, "--help", "-h")
           warning == EatEither(help, "--disable-warning", "-W")
           pack == EatEither(warning, "--pack", "p")
       IN IF help # args \/ Len(help) = 1 THEN Nothing("help")
          ELSE IF pack # warning THEN DecidePack(pack, warning # help)
          ELSE DecideRead(pack, warning # help)
=============================================================================
