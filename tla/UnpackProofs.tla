---------------------------- MODULE UnpackProofs ----------------------------
(***************************************************************************)
(* What textunpack_unpack leaves behind, proved for every archive, every   *)
(* number of workers and every size of the writers' buffers.               *)
(***************************************************************************)
EXTENDS Unpack, ProofLemmas, FiniteSetTheorems

-----------------------------------------------------------------------------
(* The inductive invariant.                                                *)

PCs == {"idle", "open", "check", "mkdir", "reopen", "fail", "lock", "report",
        "unlock", "write", "flush", "close"}

Writes == {"write", "flush", "close"}
Fails == {"fail", "lock", "report", "unlock"}

\* A byte of a piece, or a hole that a write beyond the end leaves.
Bytes == (Nat \X Nat \X Nat) \cup {<<>>}

JobSet == [pc : PCs, entry : Nat, n : Nat, file : Paths \cup {NoFile}, offset : Nat]

TypeOK ==
  /\ input \in Inputs
  /\ added \in 0 .. Len(Path)
  /\ pending \in SUBSET (1 .. added)
  /\ job \in [Workers -> JobSet]
  /\ buffer \in [Workers -> Seq(Bytes)]
  /\ files \in [Paths -> Seq(Bytes) \cup {Absent}]
  /\ failed \in Nat
  /\ mutex \in Workers \cup {-1}
  /\ stderr \in Seq({"failed", "unterminated"} \X Nat)
  /\ result \in Nat \cup {-1}

\* Only what leads to a file of the archive is made a directory; only a file of
\* the archive keeps one from being made.
DirsInv ==
  /\ <<>> \in dirs
  /\ \A d \in dirs : d = <<>> \/ \E p \in Paths : Len(d) < Len(p) /\ SubSeq(p, 1, Len(d)) = d
  /\ \A e \in handleless : e \in Entries /\ Obstructed(e)

\* What a worker's place says of its entry.
PlaceInv(w) ==
  LET me == job[w]
      e == me.entry
  IN  /\ me.pc = "idle" => me = Idle
      /\ me.pc # "idle" => e \in 1 .. added /\ e \notin pending
      /\ me.file # NoFile => me.pc \in Writes /\ me.file = Path[e]
      /\ me.file # NoFile => files[me.file] # Absent
      /\ me.pc = "mkdir" => /\ me.n \in 1 .. Len(Path[e]) - 1
                            /\ me.n = 1 \/ Exists(SubSeq(Path[e], 1, me.n - 1))
      /\ me.pc = "reopen" => Directory(Path[e]) \in dirs \/ Obstructed(e)
      /\ me.pc \in Fails => Blocked(e)
      /\ me.pc \in Writes /\ me.file = NoFile => e \in handleless
      /\ me.pc \notin {"write", "flush"} => buffer[w] = <<>>
      /\ me.pc = "write" => me.n \in 1 .. Len(input.fragments[e]) + 1

\* No entry is in the hands of two workers.
DistinctInv ==
  \A w, v \in Workers : job[w].entry = job[v].entry /\ job[w].entry # 0 => w = v

Reported(e) == \E i \in DOMAIN stderr : stderr[i] = <<"failed", e>>

\* An entry is reported once, by the worker that has it, on its way out.
ReportInv ==
  /\ \A e \in Entries : \A i, k \in DOMAIN stderr :
       stderr[i] = <<"failed", e>> /\ stderr[k] = <<"failed", e>> => i = k
  /\ \A e \in Entries : Reported(e) =>
       /\ e \in 1 .. added /\ e \notin pending
       /\ \A w \in Workers : job[w].entry = e => job[w].pc = "unlock"
  /\ \A w \in Workers : job[w].pc = "unlock" => Reported(job[w].entry)
  /\ \A e \in Entries : Reported(e) => Blocked(e)

\* The counter is ahead of the messages by the workers between the two.
Counted == {w \in Workers : job[w].pc \in {"lock", "report"}}
CountInv ==
  failed = Cardinality({e \in Entries : Reported(e)}) + Cardinality(Counted)

ResultInv ==
  Returned => /\ added = Len(Path) /\ pending = {} /\ result = failed
              /\ \A w \in Workers : job[w].pc = "idle"

ReportsInv ==
  /\ TypeOK /\ DirsInv
  /\ \A w \in Workers : PlaceInv(w)
  /\ DistinctInv /\ ReportInv /\ CountInv /\ ResultInv

\* No file has two writers at a time.
Solo(in) ==
  in.exclusive \/ \A e, f \in DOMAIN in.path : in.path[e] = in.path[f] => e = f

\* No write but those of e fails.
OnlyCut(e) == \A f : f # e => (f \in cut' <=> f \in cut)

HoldersInv ==
  \A w, v \in Workers : job[w].file = job[v].file /\ job[w].file # NoFile => w = v

\* What is kept of the first n pieces of an entry: all of them, unless a write
\* of it failed.
Kept(s, e, n) == InOrder(s, e, n) /\ (e \notin cut => s = Beginning(e)[n])

\* The file and the buffer together hold what the worker has written so far.
WriterInv(w) ==
  LET me == job[w]
      e == me.entry
  IN  /\ me.pc \in {"open", "check", "mkdir", "reopen"} => me.offset = 0
      /\ me.file # NoFile =>
           /\ me.pc = "write" => Kept(files[me.file] \o buffer[w], e, me.n - 1)
           /\ me.pc = "flush" =>
                Kept(files[me.file] \o buffer[w], e, Len(input.fragments[e]))
           /\ me.pc \in {"write", "flush"} => me.offset = Len(files[me.file])
           /\ me.pc = "close" => Kept(files[me.file], e, Len(input.fragments[e]))

Done(e) == e \in 1 .. added /\ e \notin pending /\ \A w \in Workers : job[w].entry # e

\* The file p holds what is kept of f.
Holds(p, f) == Kept(files[p], f, Len(input.fragments[f]))

\* A file nobody writes holds what its last writer kept.
DiskInv ==
  \A p \in Paths : files[p] # Absent =>
    \/ \E w \in Workers : job[w].file = p
    \/ \E f \in Entries : Path[f] = p /\ Done(f) /\ ~Reported(f) /\ Holds(p, f)

\* Whoever is finished without report has left a file, or never had one.
DoneInv ==
  \A e \in Entries : Done(e) => Reported(e) \/ e \in handleless \/ files[Path[e]] # Absent

ContentsInv ==
  /\ Solo(input)
  /\ HoldersInv /\ DiskInv /\ DoneInv
  /\ \A w \in Workers : WriterInv(w)

-----------------------------------------------------------------------------
(* The bytes of an entry.                                                  *)

\* What the assumptions say of the archive at hand.
LEMMA ArchiveTypes ==
  ASSUME input \in Inputs
  PROVE  /\ Path \in Seq(Seq(STRING) \ {<<>>}) /\ Len(Path) \in Nat
         /\ Entries = 1 .. Len(Path)
         /\ \A e \in Entries :
              /\ Path[e] \in Paths /\ Path[e] \in Seq(STRING) /\ Path[e] # <<>>
              /\ input.fragments[e] \in Seq(Nat \ {0})
              /\ Len(input.fragments[e]) \in Nat
         /\ \A p \in Paths : p \in Seq(STRING) /\ p # <<>> /\ p # NoFile /\ Len(p) \in Nat
<1>1. Path \in Seq(Seq(STRING) \ {<<>>})
  BY InputsAssumption DEF Path
<1>2. Len(Path) \in Nat /\ Entries = 1 .. Len(Path)
  BY <1>1, LenProperties DEF Entries
<1>3. ASSUME NEW e \in Entries
      PROVE  /\ Path[e] \in Paths /\ Path[e] \in Seq(STRING) /\ Path[e] # <<>>
             /\ input.fragments[e] \in Seq(Nat \ {0})
             /\ Len(input.fragments[e]) \in Nat
  <2>1. Path[e] \in Paths
    BY DEF Paths
  <2>2. Path[e] \in Seq(STRING) /\ Path[e] # <<>>
    BY <1>1, <1>2, ElementOfSeq
  <2>3. input.fragments[e] \in Seq(Nat \ {0})
    BY InputsAssumption DEF Entries, Path
  <2>4. Len(input.fragments[e]) \in Nat
    BY <2>3, LenProperties
  <2>5. QED
    BY <2>1, <2>2, <2>3, <2>4
<1>4. ASSUME NEW p \in Paths
      PROVE  p \in Seq(STRING) /\ p # <<>> /\ p # NoFile /\ Len(p) \in Nat
  <2>1. p \in Seq(STRING) /\ p # <<>>
    BY <1>3 DEF Paths
  <2>2. QED
    BY <2>1, LenProperties, MarkersAssumption
<1>5. QED
  BY <1>1, <1>2, <1>3, <1>4

\* A piece is a sequence of bytes.
LEMMA PieceType ==
  ASSUME input \in Inputs, NEW e \in Entries, NEW n \in 1 .. Len(input.fragments[e])
  PROVE  Piece(e, n) \in Seq(Bytes) /\ Len(Piece(e, n)) = input.fragments[e][n]
<1>1. e \in Nat /\ n \in Nat /\ input.fragments[e][n] \in Nat
  <2>1. e \in Nat /\ input.fragments[e] \in Seq(Nat \ {0}) /\ Len(input.fragments[e]) \in Nat
    BY ArchiveTypes
  <2>2. QED
    BY <2>1, ElementOfSeq
<1>2. Piece(e, n) \in [1 .. input.fragments[e][n] -> Bytes]
  BY <1>1 DEF Piece, Bytes
<1>3. QED
  BY <1>1, <1>2, FunctionIsSequence

Pieces(e) == [n \in 1 .. Len(input.fragments[e]) |-> Piece(e, n)]

\* The recursion in Beginning has a solution, so it is one.
LEMMA BeginningAccumulates ==
  ASSUME input \in Inputs, NEW e \in Entries
  PROVE  Accumulates(Beginning(e), Len(input.fragments[e]), Pieces(e))
<1> DEFINE N == Len(input.fragments[e])
           Solves(f) == f = [n \in 0 .. N |-> IF n = 0 THEN <<>> ELSE f[n - 1] \o Piece(e, n)]
<1>1. N \in Nat
  BY ArchiveTypes
<1> HIDE DEF N
<1>2. Pieces(e) = [n \in 1 .. N |-> Piece(e, n)]
  BY DEF Pieces, N
<1>3. \A n \in 0 .. N : n # 0 => n \in 1 .. N
  BY <1>1
<1>4. \A n \in 0 .. N : n # 0 => Pieces(e)[n] = Piece(e, n)
  BY <1>2, <1>3
<1>5. ASSUME NEW f
      PROVE  Accumulates(f, N, Pieces(e)) <=> Solves(f)
  <2>1. \A n \in 0 .. N : (IF n = 0 THEN <<>> ELSE f[n - 1] \o Pieces(e)[n])
                           = (IF n = 0 THEN <<>> ELSE f[n - 1] \o Piece(e, n))
    BY <1>4
  <2>2. [n \in 0 .. N |-> IF n = 0 THEN <<>> ELSE f[n - 1] \o Pieces(e)[n]]
        = [n \in 0 .. N |-> IF n = 0 THEN <<>> ELSE f[n - 1] \o Piece(e, n)]
    BY <2>1, Zenon
  <2>3. QED
    BY <2>2 DEF Accumulates
<1>6. \E f : Solves(f)
  BY <1>1, <1>5, AccumulationExists
<1>7. Beginning(e) = CHOOSE f : Solves(f)
  BY Zenon DEF Beginning, N
<1> HIDE DEF Solves
<1>8. Solves(Beginning(e))
  BY <1>6, <1>7, Zenon
<1>9. QED
  BY <1>5, <1>8 DEF N

\* What the beginnings of an entry are.
LEMMA Beginnings ==
  ASSUME input \in Inputs, NEW e \in Entries
  PROVE  LET N == Len(input.fragments[e])
         IN  /\ Beginning(e)[0] = <<>>
             /\ \A n \in 1 .. N : Beginning(e)[n] = Beginning(e)[n - 1] \o Piece(e, n)
             /\ \A n \in 0 .. N : Beginning(e)[n] \in Seq(Bytes)
             /\ \A n \in 0 .. N : Prefix(Beginning(e)[n], Content(e))
             /\ Content(e) \in Seq(Bytes)
<1> DEFINE N == Len(input.fragments[e])
           f == Beginning(e)
           piece == Pieces(e)
<1>1. N \in Nat /\ Accumulates(f, N, piece)
  BY ArchiveTypes, BeginningAccumulates
<1>2. \A n \in 1 .. N : piece[n] = Piece(e, n)
  BY DEF Pieces
<1>3. \A n \in 1 .. N : piece[n] \in Seq(Bytes)
  BY <1>2, PieceType
<1> HIDE DEF N, f, piece
<1>4. /\ f[0] = <<>>
      /\ \A n \in 1 .. N : f[n] = f[n - 1] \o piece[n]
      /\ \A n \in 0 .. N : f[n] \in Seq(Bytes)
  BY <1>1, <1>3, AccumulationSteps, Zenon
<1>5. ASSUME NEW n \in 0 .. N PROVE Prefix(f[n], f[N])
  <2>1. N \in n .. N
    BY <1>1
  <2>2. QED
    BY <1>1, <1>3, <2>1, AccumulationGrows, Zenon
<1>6. Content(e) = f[N] /\ N \in 0 .. N
  BY <1>1 DEF Content, f, N
<1>7. QED
  BY <1>2, <1>4, <1>5, <1>6 DEF f, N

\* A write at the end of what is there appends.
LEMMA WrittenAtEnd ==
  ASSUME NEW old \in Seq(Bytes), NEW data \in Seq(Bytes)
  PROVE  WrittenAt(old, Len(old), data) = old \o data
<1> DEFINE new == WrittenAt(old, Len(old), data)
           total == Len(old) + Len(data)
<1>1. /\ Len(old) \in Nat /\ Len(data) \in Nat /\ total \in Nat
      /\ \A k \in 1 .. Len(old) : old[k] \in Bytes
      /\ \A k \in 1 .. Len(data) : data[k] \in Bytes
  BY LenProperties
<1>2. (IF total > Len(old) THEN total ELSE Len(old)) = total
  BY <1>1
<1>3. new = [k \in 1 .. total |-> IF k \in Len(old) + 1 .. total THEN data[k - Len(old)]
                                 ELSE IF k <= Len(old) THEN old[k] ELSE <<>>]
  BY <1>2 DEF WrittenAt
<1>4. \A k \in 1 .. total : new[k] = IF k <= Len(old) THEN old[k] ELSE data[k - Len(old)]
  BY <1>1, <1>3
<1>5. \A k \in 1 .. total : new[k] \in Bytes
  BY <1>1, <1>4
<1>6. new \in [1 .. total -> Bytes]
  BY <1>3, <1>5
<1>7. new \in Seq(Bytes) /\ Len(new) = total
  BY <1>1, <1>6, FunctionIsSequence
<1> HIDE DEF new
<1>8. /\ old \o data \in Seq(Bytes) /\ Len(old \o data) = total
      /\ \A k \in 1 .. total :
           (old \o data)[k] = IF k <= Len(old) THEN old[k] ELSE data[k - Len(old)]
  BY ConcatProperties
<1>9. new = old \o data
  BY <1>4, <1>7, <1>8, SeqEqual
<1>10. QED
  BY <1>9 DEF new

-----------------------------------------------------------------------------
(* What one worker's step leaves of the invariant of the others.           *)

\* Whatever only depends on the archive stays.
LEMMA InputSame ==
  ASSUME input' = input
  PROVE  /\ Path' = Path /\ Entries' = Entries /\ Paths' = Paths /\ JobSet' = JobSet
         /\ \A e : Obstructed(e)' = Obstructed(e) /\ Blocked(e)' = Blocked(e)
         /\ \A e : Beginning(e)' = Beginning(e) /\ Content(e)' = Content(e)
         /\ \A s, e, n : InOrder(s, e, n)' = InOrder(s, e, n)
<1>1. /\ Path' = Path /\ Entries' = Entries /\ Paths' = Paths
  BY DEF Path, Entries, Paths
<1>2. \A e : Obstructed(e)' = Obstructed(e)
  BY <1>1 DEF Obstructed
<1>3. \A e : Blocked(e)' = Blocked(e)
  BY <1>1, <1>2 DEF Blocked
<1>4. \A e, n : Piece(e, n)' = Piece(e, n)
  BY DEF Piece
<1>5. \A e : Beginning(e)' = Beginning(e)
  BY <1>4 DEF Beginning
<1>6. \A e : Content(e)' = Content(e)
  BY <1>5 DEF Content
<1>7. JobSet' = JobSet
  BY <1>1 DEF JobSet
<1>8. \A e, n : BytesOf(e, n)' = BytesOf(e, n)
  BY DEF BytesOf
<1>9. \A s, e, n : InOrder(s, e, n)' = InOrder(s, e, n)
  BY <1>8 DEF InOrder
<1>10. QED
  BY <1>1, <1>2, <1>3, <1>5, <1>6, <1>7, <1>9

\* What exists stays, and so does what a worker's place says.
LEMMA PlaceStable ==
  ASSUME TypeOK, NEW v \in Workers, PlaceInv(v),
         input' = input, job'[v] = job[v], buffer'[v] = buffer[v],
         added' \in Nat, added <= added',
         job[v].pc # "idle" => job[v].entry \notin pending',
         dirs \subseteq dirs', handleless \subseteq handleless',
         \A p \in Paths : files[p] # Absent => files'[p] # Absent
  PROVE  PlaceInv(v)'
<1>1. /\ Path' = Path /\ Paths' = Paths
      /\ \A e : Obstructed(e)' = Obstructed(e) /\ Blocked(e)' = Blocked(e)
  BY InputSame
<1>2. \A p : Exists(p) => Exists(p)'
  BY <1>1 DEF Exists
<1>3. \A e : e \in 1 .. added => e \in 1 .. added'
  BY ArchiveTypes DEF TypeOK
<1> DEFINE me == job[v]
           e == me.entry
<1>4. /\ me.pc = "idle" => me = Idle
      /\ me.pc # "idle" => e \in 1 .. added' /\ e \notin pending'
      /\ me.file # NoFile => me.pc \in Writes /\ me.file = Path[e]
      /\ me.file # NoFile => files'[me.file] # Absent
  BY <1>3 DEF PlaceInv, TypeOK, JobSet
<1>5. /\ me.pc = "mkdir" => /\ me.n \in 1 .. Len(Path[e]) - 1
                            /\ me.n = 1 \/ Exists(SubSeq(Path[e], 1, me.n - 1))'
      /\ me.pc = "reopen" => Directory(Path[e]) \in dirs' \/ Obstructed(e)
  BY <1>1, <1>2 DEF PlaceInv
<1>6. /\ me.pc \in Fails => Blocked(e)
      /\ me.pc \in Writes /\ me.file = NoFile => e \in handleless
      /\ me.pc \notin {"write", "flush"} => buffer[v] = <<>>
      /\ me.pc = "write" => me.n \in 1 .. Len(input.fragments[e]) + 1
  BY DEF PlaceInv
<1>7. QED
  BY <1>1, <1>4, <1>5, <1>6 DEF PlaceInv, Directory

\* A step of a busy worker keeps the invariant if it keeps its own part of it
\* and the part about the reports.
LEMMA WorkerStep ==
  ASSUME ReportsInv, NEW w \in Workers, job[w].pc # "idle",
         UNCHANGED <<input, added, pending, result>>,
         job' \in [Workers -> JobSet],
         \A v \in Workers : v # w => job'[v] = job[v] /\ buffer'[v] = buffer[v],
         job'[w].entry \in {job[w].entry, 0},
         buffer' \in [Workers -> Seq(Bytes)],
         files' \in [Paths -> Seq(Bytes) \cup {Absent}],
         \A p \in Paths : files[p] # Absent => files'[p] # Absent,
         dirs \subseteq dirs', handleless \subseteq handleless', DirsInv',
         failed' \in Nat, mutex' \in Workers \cup {-1},
         stderr' \in Seq({"failed", "unterminated"} \X Nat),
         PlaceInv(w)', ReportInv', CountInv'
  PROVE  ReportsInv'
<1>1. /\ TypeOK /\ DistinctInv /\ ResultInv
      /\ \A v \in Workers : PlaceInv(v)
  BY DEF ReportsInv
<1>2. Path' = Path /\ Paths' = Paths /\ JobSet' = JobSet
  BY InputSame
<1>3. TypeOK'
  BY <1>1, <1>2 DEF TypeOK, Workers
<1>4. ASSUME NEW v \in Workers, v # w PROVE PlaceInv(v)'
  <2>1. PlaceInv(v) /\ job'[v] = job[v] /\ buffer'[v] = buffer[v]
    BY <1>1, <1>4
  <2>2. added' \in Nat /\ added <= added'
    BY <1>1, ArchiveTypes DEF TypeOK
  <2>3. job[v].pc # "idle" => job[v].entry \notin pending'
    BY <2>1 DEF PlaceInv
  <2>4. QED
    BY <1>1, <2>1, <2>2, <2>3, PlaceStable
<1>5. DistinctInv'
  BY <1>1 DEF DistinctInv, Workers
<1>6. ResultInv'
  BY <1>1 DEF ResultInv, Returned
<1>7. \A v \in Workers : PlaceInv(v)'
  BY <1>4
<1>8. Workers' = Workers
  BY DEF Workers
<1>9. QED
  BY <1>3, <1>5, <1>6, <1>7, <1>8 DEF ReportsInv

\* Without a new message, an unreported worker keeps the part about messages.
LEMMA MessagesSame ==
  ASSUME ReportsInv, NEW w \in Workers,
         UNCHANGED <<input, added, pending, stderr>>,
         \A v \in Workers : v # w => job'[v] = job[v],
         job'[w].entry \in {job[w].entry, 0},
         job[w].pc # "unlock", job'[w].pc # "unlock"
  PROVE  ReportInv' /\ {e \in Entries : Reported(e)}' = {e \in Entries : Reported(e)}
<1>1. TypeOK /\ ReportInv
  BY DEF ReportsInv
<1>2. /\ Entries' = Entries /\ \A e : Blocked(e)' = Blocked(e)
      /\ \A e \in Entries : e # 0
  BY <1>1, InputSame, ArchiveTypes DEF TypeOK
<1>3. Workers' = Workers /\ \A e : Reported(e)' = Reported(e)
  BY DEF Workers, Reported
<1>4. \A e \in Entries' : \A i, k \in DOMAIN stderr' :
        stderr'[i] = <<"failed", e>> /\ stderr'[k] = <<"failed", e>> => i = k
  BY <1>1, <1>2 DEF ReportInv
<1>5. \A e \in Entries' : Reported(e)' =>
        /\ e \in 1 .. added' /\ e \notin pending'
        /\ \A v \in Workers : job'[v].entry = e => job'[v].pc = "unlock"
  BY <1>1, <1>2, <1>3 DEF ReportInv
<1>6. \A v \in Workers : job'[v].pc = "unlock" => Reported(job'[v].entry)
  BY <1>1 DEF ReportInv
<1>7. \A e \in Entries' : Reported(e)' => Blocked(e)'
  BY <1>1, <1>2, <1>3 DEF ReportInv
<1>8. ReportInv'
  BY <1>3, <1>4, <1>5, <1>6, <1>7 DEF ReportInv
<1>9. QED
  BY <1>2, <1>3, <1>8

\* A step that is not about reports keeps the part about them.
LEMMA QuietReports ==
  ASSUME ReportsInv, NEW w \in Workers,
         UNCHANGED <<input, added, pending, failed, stderr>>,
         \A v \in Workers : v # w => job'[v] = job[v],
         job'[w].entry \in {job[w].entry, 0},
         job[w].pc # "unlock", job'[w].pc # "unlock",
         job'[w].pc \in {"lock", "report"} <=> job[w].pc \in {"lock", "report"}
  PROVE  ReportInv' /\ CountInv'
<1>1. CountInv
  BY DEF ReportsInv
<1>2. ReportInv' /\ {e \in Entries : Reported(e)}' = {e \in Entries : Reported(e)}
  BY MessagesSame
<1>3. Counted' = Counted
  BY DEF Counted, Workers
<1>4. QED
  BY <1>1, <1>2, <1>3 DEF CountInv

\* The entry a busy worker has.
LEMMA Mine ==
  ASSUME ReportsInv, NEW w \in Workers, job[w].pc # "idle"
  PROVE  /\ TypeOK /\ DirsInv /\ PlaceInv(w)
         /\ job \in [Workers -> JobSet] /\ job[w] \in JobSet
         /\ buffer \in [Workers -> Seq(Bytes)] /\ buffer[w] \in Seq(Bytes)
         /\ MyEntry(w) = job[w].entry /\ MyPath(w) = Path[MyEntry(w)]
         /\ MyEntry(w) \in Entries /\ MyEntry(w) # 0 /\ MyEntry(w) \in Nat
         /\ MyEntry(w) \in 1 .. added /\ MyEntry(w) \notin pending
         /\ MyPath(w) \in Paths /\ MyPath(w) \in Seq(STRING)
         /\ MyPath(w) # NoFile /\ Len(MyPath(w)) \in Nat \ {0}
         /\ input.fragments[MyEntry(w)] \in Seq(Nat \ {0})
         /\ Len(input.fragments[MyEntry(w)]) \in Nat
<1>1. TypeOK /\ DirsInv /\ PlaceInv(w)
  BY DEF ReportsInv
<1>2. /\ job \in [Workers -> JobSet] /\ job[w] \in JobSet
      /\ buffer \in [Workers -> Seq(Bytes)] /\ buffer[w] \in Seq(Bytes)
  BY <1>1 DEF TypeOK
<1> DEFINE e == job[w].entry
<1>3. e \in 1 .. added /\ e \notin pending
  BY <1>1 DEF PlaceInv
<1>4. e \in Entries /\ e # 0 /\ e \in Nat
  BY <1>1, <1>3, ArchiveTypes DEF TypeOK
<1>5. /\ Path[e] \in Paths /\ Path[e] \in Seq(STRING) /\ Path[e] # <<>>
      /\ Path[e] # NoFile /\ Len(Path[e]) \in Nat
      /\ input.fragments[e] \in Seq(Nat \ {0}) /\ Len(input.fragments[e]) \in Nat
  BY <1>1, <1>4, ArchiveTypes DEF TypeOK
<1>6. Len(Path[e]) # 0
  BY <1>5, EmptySeq
<1>7. QED
  BY <1>1, <1>2, <1>3, <1>4, <1>5, <1>6 DEF MyEntry, MyPath

\* A worker that only goes on to another place.
LEMMA GotoFacts ==
  ASSUME TypeOK, NEW w \in Workers, NEW pc \in PCs, Goto(w, pc)
  PROVE  /\ job' \in [Workers -> JobSet]
         /\ job'[w] = [job[w] EXCEPT !.pc = pc]
         /\ \A v \in Workers : v # w => job'[v] = job[v]
<1>1. job \in [Workers -> JobSet] /\ job[w] \in JobSet
  BY DEF TypeOK
<1>2. job' = [job EXCEPT ![w] = [job[w] EXCEPT !.pc = pc]]
  BY DEF Goto
<1>3. [job[w] EXCEPT !.pc = pc] \in JobSet
  BY <1>1 DEF JobSet
<1>4. QED
  BY <1>1, <1>2, <1>3

\* A step of a busy worker that touches nothing but its own place.
LEMMA LocalStep ==
  ASSUME ReportsInv, NEW w \in Workers, job[w].pc # "idle",
         UNCHANGED <<disk, driver, buffer, failed, stderr>>,
         mutex' \in Workers \cup {-1},
         job' \in [Workers -> JobSet],
         \A v \in Workers : v # w => job'[v] = job[v],
         job'[w].entry = job[w].entry,
         job[w].pc # "unlock", job'[w].pc # "unlock",
         job'[w].pc \in {"lock", "report"} <=> job[w].pc \in {"lock", "report"},
         PlaceInv(w)'
  PROVE  ReportsInv'
<1>1. /\ UNCHANGED <<input, added, pending, result, buffer, files, dirs, handleless, failed, stderr>>
      /\ TypeOK /\ DirsInv
  BY DEF disk, driver, ReportsInv
<1>2. ReportInv' /\ CountInv'
  BY <1>1, QuietReports
<1>3. DirsInv'
  BY <1>1, InputSame DEF DirsInv
<1>4. /\ buffer' \in [Workers -> Seq(Bytes)]
      /\ files' \in [Paths -> Seq(Bytes) \cup {Absent}]
      /\ failed' \in Nat
      /\ stderr' \in Seq({"failed", "unterminated"} \X Nat)
  BY <1>1 DEF TypeOK
<1>5. /\ dirs \subseteq dirs' /\ \A p \in Paths : files[p] # Absent => files'[p] # Absent
      /\ \A v \in Workers : v # w => job'[v] = job[v] /\ buffer'[v] = buffer[v]
  BY <1>1
<1>6. QED
  BY <1>1, <1>2, <1>3, <1>4, <1>5, WorkerStep

-----------------------------------------------------------------------------
(* ix_create_directories_and_file                                          *)

\* Why a file cannot be opened: what is in its way was there for another entry.
LEMMA CannotOpen ==
  ASSUME ReportsInv, NEW w \in Workers, job[w].pc = "reopen", ~CanOpen(MyPath(w))
  PROVE  Blocked(MyEntry(w))
<1> DEFINE e == MyEntry(w)
           path == MyPath(w)
<1>1. /\ TypeOK /\ DirsInv /\ PlaceInv(w) /\ e = job[w].entry /\ path = Path[e]
      /\ e \in Entries /\ e # 0 /\ path \in Paths /\ path \in Seq(STRING) /\ path # NoFile
      /\ Len(path) \in Nat \ {0}
  BY Mine
<1>2. CASE Directory(path) \notin dirs
  BY <1>1, <1>2 DEF PlaceInv, Blocked
<1>3. CASE path \in dirs
  <2>1. path # <<>>
    BY <1>1, EmptySeq
  <2>2. PICK p \in Paths : Len(path) < Len(p) /\ SubSeq(p, 1, Len(path)) = path
    BY <1>1, <1>3, <2>1 DEF DirsInv
  <2>3. Len(p) > Len(path)
    BY <1>1, <2>2, ArchiveTypes DEF TypeOK
  <2>4. QED
    BY <1>1, <2>2, <2>3 DEF Blocked
<1>4. CASE input.exclusive /\ HolderOf(path) # {}
  <2>1. PICK v \in Workers : job[v].file = path
    BY <1>4 DEF HolderOf
  <2>2. PlaceInv(v) /\ job[v].pc \in Writes /\ Path[job[v].entry] = path /\ job[v].pc # "idle"
    BY <1>1, <2>1 DEF ReportsInv, PlaceInv, Writes
  <2>3. job[v].entry \in Entries
    BY <2>2, Mine
  <2>4. job[v].entry # e
    <3>1. v # w
      BY <2>2 DEF Writes
    <3>2. QED
      BY <1>1, <3>1 DEF ReportsInv, DistinctInv
  <2>5. QED
    BY <1>1, <1>4, <2>2, <2>3, <2>4 DEF Blocked
<1>5. QED
  BY <1>2, <1>3, <1>4 DEF CanOpen

\* The file is there and the worker writes it.
LEMMA OpenedReports ==
  ASSUME ReportsInv, NEW w \in Workers, job[w].pc \in {"open", "reopen"}, Opened(w)
  PROVE  ReportsInv'
<1>1. /\ job[w].pc # "idle" /\ job[w].pc \notin {"lock", "report", "unlock"}
      /\ UNCHANGED <<input, added, pending, result, buffer, dirs, handleless, failed, mutex, stderr>>
      /\ files' = [files EXCEPT ![MyPath(w)] = <<>>]
  BY DEF Opened, driver, reports
<1>2. /\ TypeOK /\ DirsInv /\ PlaceInv(w) /\ job \in [Workers -> JobSet] /\ job[w] \in JobSet
      /\ buffer \in [Workers -> Seq(Bytes)]
      /\ MyPath(w) \in Paths /\ MyEntry(w) = job[w].entry /\ MyPath(w) = Path[MyEntry(w)]
      /\ MyPath(w) # NoFile /\ Len(input.fragments[MyEntry(w)]) \in Nat
  BY <1>1, Mine
<1> DEFINE r == [job[w] EXCEPT !.pc = "write", !.n = 1, !.file = MyPath(w)]
<1>3. job' = [job EXCEPT ![w] = r]
  BY DEF Opened
<1>4. r \in JobSet
  BY <1>2 DEF JobSet, PCs
<1>5. r.pc = "write" /\ r.n = 1 /\ r.file = MyPath(w) /\ r.entry = job[w].entry
  BY <1>2 DEF JobSet
<1> HIDE DEF r
<1>6. /\ job' \in [Workers -> JobSet] /\ job'[w] = r
      /\ \A v \in Workers : v # w => job'[v] = job[v]
  BY <1>2, <1>3, <1>4
<1>7. /\ files' \in [Paths -> Seq(Bytes) \cup {Absent}]
      /\ \A p \in Paths : files[p] # Absent => files'[p] # Absent
      /\ files'[MyPath(w)] # Absent
  <2>1. <<>> \in Seq(Bytes) /\ <<>> # Absent
    BY EmptySeq, MarkersAssumption DEF Bytes
  <2>2. files \in [Paths -> Seq(Bytes) \cup {Absent}]
    BY <1>2 DEF TypeOK
  <2>3. QED
    BY <1>1, <1>2, <2>1, <2>2
<1>8. PlaceInv(w)'
  <2>1. Path' = Path /\ input' = input
    BY <1>1, InputSame
  <2>2. job[w].pc # "idle" => job[w].entry \in 1 .. added /\ job[w].entry \notin pending
    BY <1>2 DEF PlaceInv
  <2>3. QED
    BY <1>1, <1>2, <1>5, <1>6, <1>7, <2>1, <2>2 DEF PlaceInv, Writes, Fails
<1>9. ReportInv' /\ CountInv'
  BY <1>1, <1>5, <1>6, QuietReports
<1>10. DirsInv'
  BY <1>1, <1>2, InputSame DEF DirsInv
<1>11. buffer' \in [Workers -> Seq(Bytes)] /\ failed' \in Nat /\ mutex' \in Workers \cup {-1}
       /\ stderr' \in Seq({"failed", "unterminated"} \X Nat)
  BY <1>1, <1>2 DEF TypeOK
<1>12. QED
  BY <1>1, <1>5, <1>6, <1>7, <1>8, <1>9, <1>10, <1>11, WorkerStep

\* The first attempt to open the file.
LEMMA OpenFirstReports ==
  ASSUME ReportsInv, NEW w \in Workers, OpenFirst(w) PROVE ReportsInv'
<1>1. job[w].pc = "open"
  BY DEF OpenFirst, At
<1>2. CASE Opened(w)
  BY <1>1, <1>2, OpenedReports
<1>3. CASE Goto(w, "check") /\ UNCHANGED <<disk, driver, buffer, reports>>
  <2>1. /\ TypeOK /\ PlaceInv(w) /\ job[w] \in JobSet
        /\ input' = input /\ UNCHANGED <<added, pending, failed, mutex, stderr, buffer>>
    BY <1>1, <1>3, Mine DEF disk, driver, reports
  <2>2. /\ job' \in [Workers -> JobSet] /\ job'[w] = [job[w] EXCEPT !.pc = "check"]
        /\ \A v \in Workers : v # w => job'[v] = job[v]
    BY <1>3, <2>1, GotoFacts DEF PCs
  <2>3. /\ job'[w].pc = "check" /\ job'[w].entry = job[w].entry
        /\ job'[w].file = job[w].file
    BY <2>1, <2>2 DEF JobSet
  <2>4. PlaceInv(w)'
    BY <1>1, <2>1, <2>3, InputSame DEF PlaceInv, Writes, Fails
  <2>5. mutex' \in Workers \cup {-1}
    BY <2>1 DEF TypeOK
  <2>6. QED
    BY <1>1, <1>3, <2>1, <2>2, <2>3, <2>4, <2>5, LocalStep DEF reports
<1>4. QED
  BY <1>2, <1>3 DEF OpenFirst

\* Is there a directory to make?
LEMMA CheckDirectoryReports ==
  ASSUME ReportsInv, NEW w \in Workers, CheckDirectory(w) PROVE ReportsInv'
<1> DEFINE path == MyPath(w)
           pc == IF Directory(path) \in dirs THEN "reopen" ELSE "mkdir"
           r == [job[w] EXCEPT !.pc = pc, !.n = 1]
<1>1. /\ job[w].pc = "check" /\ job[w].pc # "idle"
      /\ UNCHANGED <<disk, driver, buffer, reports>>
      /\ input' = input /\ UNCHANGED <<added, pending, failed, mutex, stderr, buffer, dirs, handleless>>
      /\ job' = [job EXCEPT ![w] = r]
  BY DEF CheckDirectory, At, disk, driver, reports
<1>2. /\ TypeOK /\ DirsInv /\ PlaceInv(w) /\ job \in [Workers -> JobSet] /\ job[w] \in JobSet
      /\ path = Path[job[w].entry] /\ path \in Seq(STRING) /\ Len(path) \in Nat \ {0}
  BY <1>1, Mine
<1>3. /\ r \in JobSet /\ r.pc = pc /\ r.n = 1 /\ r.entry = job[w].entry /\ r.file = job[w].file
  BY <1>2 DEF JobSet, PCs
<1>4. pc = "mkdir" => 1 \in 1 .. Len(path) - 1
  <2>1. ASSUME Len(path) = 1 PROVE Directory(path) \in dirs
    <3>1. Len(path) - 1 = 0
      BY <2>1
    <3>2. SubSeq(path, 1, 0) = <<>>
      BY <1>2, SubSeqEmpty
    <3>3. QED
      BY <1>2, <3>1, <3>2 DEF Directory, DirsInv
  <2>2. pc = "mkdir" => Len(path) # 1
    BY <2>1
  <2>3. \A k \in Nat \ {0} : k # 1 => 1 \in 1 .. k - 1
    OBVIOUS
  <2>4. QED
    BY <1>2, <2>2, <2>3
<1> HIDE DEF r
<1>5. /\ job' \in [Workers -> JobSet] /\ job'[w] = r
      /\ \A v \in Workers : v # w => job'[v] = job[v]
  BY <1>1, <1>2, <1>3
<1>6. PlaceInv(w)'
  <2>1. Path' = Path
    BY <1>1, InputSame
  <2>2. pc = "reopen" => Directory(path) \in dirs
    OBVIOUS
  <2>3. pc \in {"reopen", "mkdir"}
    OBVIOUS
  <2> HIDE DEF pc
  <2>4. QED
    BY <1>1, <1>2, <1>3, <1>4, <1>5, <2>1, <2>2, <2>3 DEF PlaceInv, Writes, Fails, Directory
<1>7. mutex' \in Workers \cup {-1} /\ job'[w].pc \notin {"lock", "report", "unlock"}
  BY <1>1, <1>2, <1>3, <1>5 DEF TypeOK
<1>8. QED
  BY <1>1, <1>3, <1>5, <1>6, <1>7, LocalStep DEF reports

\* One mkdir: the walk goes on from a directory, or from a file in the way.
LEMMA MakeDirectoryReports ==
  ASSUME ReportsInv, NEW w \in Workers, MakeDirectory(w) PROVE ReportsInv'
<1>0. PICK e, path, n : e = job[w].entry /\ path = MyPath(w) /\ n = job[w].n
  OBVIOUS
<1> DEFINE p == SubSeq(path, 1, n)
           pc == IF n + 1 < Len(path) THEN "mkdir" ELSE "reopen"
           r == [job[w] EXCEPT !.n = n + 1, !.pc = pc]
<1>1. /\ job[w].pc = "mkdir" /\ job[w].pc # "idle" /\ n < Len(path)
      /\ UNCHANGED <<input, files, added, pending, result, buffer, failed, mutex, stderr, handleless>>
      /\ dirs' = (IF Exists(p) THEN dirs ELSE dirs \cup {p})
      /\ job' = [job EXCEPT ![w] = r]
  BY <1>0 DEF MakeDirectory, At, driver, reports
<1>2. /\ TypeOK /\ DirsInv /\ PlaceInv(w) /\ job \in [Workers -> JobSet] /\ job[w] \in JobSet
      /\ path = Path[e] /\ path \in Seq(STRING) /\ Len(path) \in Nat \ {0}
      /\ path \in Paths /\ e \in Entries /\ n \in Nat
      /\ buffer \in [Workers -> Seq(Bytes)]
  BY <1>0, <1>1, Mine DEF JobSet
<1>3. n \in 1 .. Len(path) - 1 /\ n + 1 \in Nat
  BY <1>0, <1>1, <1>2 DEF PlaceInv
<1>4. Len(p) = n /\ p \in Seq(STRING) /\ SubSeq(path, 1, Len(p)) = p /\ Len(p) < Len(path)
  <2>1. n \in 0 .. Len(path)
    BY <1>2, <1>3
  <2>2. QED
    BY <1>1, <1>2, <2>1, CutTwice
<1>5. pc \in {"mkdir", "reopen"} /\ pc \in PCs
  BY DEF PCs
<1>6. (pc = "mkdir" => n + 1 < Len(path)) /\ (pc = "reopen" => n = Len(path) - 1)
  <2>1. \A k \in Nat \ {0} : n < k /\ ~(n + 1 < k) => n = k - 1
    BY <1>2
  <2>2. QED
    BY <1>1, <1>2, <2>1
<1> HIDE DEF pc
<1>7. /\ r \in JobSet /\ r.pc = pc /\ r.n = n + 1 /\ r.entry = e /\ r.file = job[w].file
  BY <1>0, <1>2, <1>3, <1>5 DEF JobSet
<1> HIDE DEF r
<1>8. /\ job' \in [Workers -> JobSet] /\ job'[w] = r
      /\ \A v \in Workers : v # w => job'[v] = job[v]
  BY <1>1, <1>2, <1>7
<1>9. /\ Path' = Path /\ Paths' = Paths /\ Entries' = Entries
      /\ \A f : Obstructed(f)' = Obstructed(f) /\ Blocked(f)' = Blocked(f)
  BY <1>1, InputSame
<1>10. dirs \subseteq dirs' /\ DirsInv'
  <2>1. /\ dirs \subseteq dirs' /\ <<>> \in dirs'
        /\ \A d \in dirs' : d = <<>> \/ \E q \in Paths' : Len(d) < Len(q) /\ SubSeq(q, 1, Len(d)) = d
    BY <1>1, <1>2, <1>4, <1>9 DEF DirsInv
  <2>2. \A f \in handleless' : f \in Entries' /\ Obstructed(f)'
    BY <1>1, <1>2, <1>9 DEF DirsInv
  <2>3. QED
    BY <2>1, <2>2 DEF DirsInv
<1>11. Exists(p)' /\ (p \in dirs' \/ Obstructed(e))
  <2>1. CASE p \in dirs'
    BY <2>1 DEF Exists
  <2>2. CASE p \notin dirs'
    <3>1. Exists(p) /\ p \in Paths /\ files[p] # Absent
      BY <1>1, <2>2 DEF Exists
    <3>2. Exists(p)'
      BY <1>1, <1>9, <3>1 DEF Exists
    <3>3. Obstructed(e)
      BY <1>2, <1>4, <3>1 DEF Obstructed
    <3>4. QED
      BY <3>2, <3>3
  <2>3. QED
    BY <2>1, <2>2
<1>12. PlaceInv(w)'
  <2>1. pc = "mkdir" => n + 1 \in 1 .. Len(path) - 1
    BY <1>2, <1>3, <1>6
  <2>2. pc = "reopen" => Directory(path)' \in dirs' \/ Obstructed(e)
    BY <1>6, <1>11 DEF Directory
  <2>3. job[w].file = NoFile /\ buffer[w] = <<>> /\ e \in 1 .. added /\ e \notin pending
    BY <1>0, <1>1, <1>2 DEF PlaceInv, Writes
  <2>4. /\ job'[w].pc = pc /\ job'[w].n = n + 1 /\ job'[w].entry = e
        /\ job'[w].file = NoFile /\ Path'[e] = path
    BY <1>2, <1>7, <1>8, <1>9, <2>3
  <2>5. job'[w].pc = "mkdir" =>
          /\ job'[w].n \in 1 .. Len(Path'[job'[w].entry]) - 1
          /\ Exists(SubSeq(Path[job[w].entry], 1, job[w].n - 1))'
    <3>1. pc = "mkdir" => job'[w].n \in 1 .. Len(Path'[job'[w].entry]) - 1
      BY <2>1, <2>4
    <3>2. job'[w].n - 1 = n
      BY <1>2, <2>4
    <3>3. Exists(SubSeq(Path[job[w].entry], 1, job[w].n - 1))'
      BY <1>11, <2>4, <3>2 DEF Exists
    <3>4. QED
      BY <2>4, <3>1, <3>3
  <2>6. job'[w].pc = "reopen" =>
          Directory(Path[job[w].entry])' \in dirs' \/ Obstructed(job[w].entry)'
    BY <1>9, <2>2, <2>4 DEF Directory
  <2>7. /\ job'[w].pc \in {"mkdir", "reopen"} /\ job'[w].file = NoFile
        /\ job'[w].entry \in 1 .. added' /\ job'[w].entry \notin pending' /\ buffer'[w] = <<>>
    BY <1>1, <1>5, <2>3, <2>4
  <2>8. QED
    BY <2>5, <2>6, <2>7 DEF PlaceInv, Writes, Fails
<1>13. ReportInv' /\ CountInv'
  BY <1>0, <1>1, <1>5, <1>7, <1>8, QuietReports
<1>14. /\ buffer' \in [Workers -> Seq(Bytes)] /\ failed' \in Nat
       /\ mutex' \in Workers \cup {-1}
       /\ stderr' \in Seq({"failed", "unterminated"} \X Nat)
       /\ files' \in [Paths -> Seq(Bytes) \cup {Absent}]
  BY <1>1, <1>2 DEF TypeOK
<1>15. QED
  BY <1>0, <1>1, <1>7, <1>8, <1>10, <1>12, <1>13, <1>14, WorkerStep

\* A directory cannot be made only where a file of the archive is in the way.
LEMMA DirectoryFailsReports ==
  ASSUME ReportsInv, NEW w \in Workers, DirectoryFails(w) PROVE ReportsInv'
<1>0. PICK e, path, n : e = job[w].entry /\ path = MyPath(w) /\ n = job[w].n
  OBVIOUS
<1> DEFINE p == SubSeq(path, 1, n)
           r == [job[w] EXCEPT !.pc = "write", !.n = 1]
<1>1. /\ job[w].pc = "mkdir" /\ job[w].pc # "idle" /\ Directory(p) \notin dirs
      /\ UNCHANGED <<input, files, dirs, added, pending, result, failed, mutex, stderr, buffer>>
      /\ handleless' = handleless \cup {e}
      /\ job' = [job EXCEPT ![w] = r]
  BY <1>0 DEF DirectoryFails, At, driver, reports, MyEntry
<1>2. /\ TypeOK /\ DirsInv /\ PlaceInv(w) /\ job \in [Workers -> JobSet] /\ job[w] \in JobSet
      /\ path = Path[e] /\ path \in Seq(STRING) /\ Len(path) \in Nat \ {0}
      /\ path \in Paths /\ e \in Entries /\ n \in Nat
      /\ Len(input.fragments[e]) \in Nat
  BY <1>0, <1>1, Mine DEF JobSet
<1>3. n \in 1 .. Len(path) - 1 /\ (n = 1 \/ Exists(SubSeq(path, 1, n - 1)))
  BY <1>0, <1>1, <1>2 DEF PlaceInv
<1>4. Directory(p) = SubSeq(path, 1, n - 1) /\ Len(SubSeq(path, 1, n - 1)) = n - 1
      /\ SubSeq(path, 1, Len(SubSeq(path, 1, n - 1))) = SubSeq(path, 1, n - 1)
  <2>1. n \in 0 .. Len(path) /\ n - 1 \in 0 .. n /\ n - 1 \in 0 .. Len(path)
    BY <1>2, <1>3
  <2>2. Len(p) = n /\ SubSeq(p, 1, n - 1) = SubSeq(path, 1, n - 1)
    BY <1>2, <2>1, CutTwice
  <2>3. Len(SubSeq(path, 1, n - 1)) = n - 1
    BY <1>2, <2>1, CutTwice
  <2>4. QED
    BY <2>2, <2>3 DEF Directory
<1>5. n # 1
  <2> SUFFICES ASSUME n = 1 PROVE FALSE
    OBVIOUS
  <2>1. SubSeq(path, 1, 0) = <<>>
    BY <1>2, SubSeqEmpty
  <2>2. QED
    BY <1>1, <1>2, <1>4, <2>1 DEF DirsInv
<1>6. Obstructed(e)
  <2> DEFINE q == SubSeq(path, 1, n - 1)
  <2>1. q \in Paths
    BY <1>1, <1>3, <1>4, <1>5 DEF Exists
  <2>2. Len(q) < Len(path) /\ SubSeq(path, 1, Len(q)) = q
    <3>1. \A k \in Nat \ {0} : n \in 1 .. k - 1 => n - 1 < k
      BY <1>2
    <3>2. QED
      BY <1>2, <1>3, <1>4, <3>1
  <2> HIDE DEF q
  <2>3. QED
    BY <1>2, <2>1, <2>2 DEF Obstructed
<1>7. /\ r \in JobSet /\ r.pc = "write" /\ r.n = 1 /\ r.entry = e
      /\ r.file = job[w].file
  BY <1>0, <1>2 DEF JobSet, PCs
<1> HIDE DEF r
<1>8. /\ job' \in [Workers -> JobSet] /\ job'[w] = r
      /\ \A v \in Workers : v # w => job'[v] = job[v]
  BY <1>1, <1>2, <1>7
<1>9. PlaceInv(w)'
  <2>1. Path' = Path /\ Obstructed(e)'
    BY <1>1, <1>6, InputSame
  <2>2. QED
    BY <1>0, <1>1, <1>2, <1>7, <1>8, <2>1 DEF PlaceInv, Writes, Fails
<1>10. DirsInv' /\ handleless \subseteq handleless'
  BY <1>1, <1>2, <1>6, InputSame DEF DirsInv
<1>11. ReportInv' /\ CountInv'
  BY <1>0, <1>1, <1>7, <1>8, QuietReports
<1>12. /\ buffer' \in [Workers -> Seq(Bytes)] /\ failed' \in Nat
       /\ mutex' \in Workers \cup {-1}
       /\ stderr' \in Seq({"failed", "unterminated"} \X Nat)
       /\ files' \in [Paths -> Seq(Bytes) \cup {Absent}]
  BY <1>1, <1>2 DEF TypeOK
<1>13. dirs \subseteq dirs' /\ \A q \in Paths : files[q] # Absent => files'[q] # Absent
  BY <1>1
<1>14. QED
  BY <1>0, <1>1, <1>7, <1>8, <1>9, <1>10, <1>11, <1>12, <1>13, WorkerStep

\* The second attempt to open the file.
LEMMA OpenAgainReports ==
  ASSUME ReportsInv, NEW w \in Workers, OpenAgain(w) PROVE ReportsInv'
<1>1. job[w].pc = "reopen"
  BY DEF OpenAgain, At
<1>2. CASE Opened(w)
  BY <1>1, <1>2, OpenedReports
<1>3. CASE ~CanOpen(MyPath(w)) /\ Goto(w, "fail") /\ UNCHANGED <<disk, driver, buffer, reports>>
  <2>1. /\ TypeOK /\ PlaceInv(w) /\ job[w] \in JobSet /\ MyEntry(w) = job[w].entry
        /\ input' = input /\ UNCHANGED <<added, pending, failed, mutex, stderr, buffer>>
    BY <1>1, <1>3, Mine DEF disk, driver, reports
  <2>2. /\ job' \in [Workers -> JobSet] /\ job'[w] = [job[w] EXCEPT !.pc = "fail"]
        /\ \A v \in Workers : v # w => job'[v] = job[v]
    BY <1>3, <2>1, GotoFacts DEF PCs
  <2>3. /\ job'[w].pc = "fail" /\ job'[w].entry = job[w].entry
        /\ job'[w].file = job[w].file
    BY <2>1, <2>2 DEF JobSet
  <2>4. Blocked(job[w].entry) /\ \A e : Blocked(e)' = Blocked(e)
    BY <1>1, <1>3, <2>1, CannotOpen, InputSame
  <2>5. PlaceInv(w)'
    BY <1>1, <2>1, <2>3, <2>4, InputSame DEF PlaceInv, Writes, Fails
  <2>6. mutex' \in Workers \cup {-1}
    BY <2>1 DEF TypeOK
  <2>7. QED
    BY <1>1, <1>3, <2>1, <2>2, <2>3, <2>5, <2>6, LocalStep DEF reports
<1>4. QED
  BY <1>2, <1>3 DEF OpenAgain

-----------------------------------------------------------------------------
(* Counting and reporting a failed entry.                                  *)

\* Both sets that are counted are finite.
LEMMA CountedFinite ==
  ASSUME TypeOK
  PROVE  /\ IsFiniteSet(Counted) /\ Cardinality(Counted) \in Nat
         /\ IsFiniteSet({e \in Entries : Reported(e)})
         /\ Cardinality({e \in Entries : Reported(e)}) \in Nat
<1>1. Entries = 1 .. Len(Path) /\ Len(Path) \in Nat
  BY ArchiveTypes DEF TypeOK
<1>2. IsFiniteSet(Entries)
  BY <1>1, FS_Interval
<1>3. IsFiniteSet(Workers)
  BY WorkersAssumption, FS_Interval DEF Workers
<1>4. Counted \subseteq Workers /\ {e \in Entries : Reported(e)} \subseteq Entries
  BY DEF Counted
<1>5. IsFiniteSet(Counted) /\ IsFiniteSet({e \in Entries : Reported(e)})
  BY <1>2, <1>3, <1>4, FS_Subset
<1>6. QED
  BY <1>5, FS_CardinalityType

\* The counter is raised before the message is written.
LEMMA FailReports ==
  ASSUME ReportsInv, NEW w \in Workers, Fail(w) PROVE ReportsInv'
<1>1. /\ job[w].pc = "fail" /\ job[w].pc # "idle"
      /\ UNCHANGED <<input, added, pending, result, files, dirs, handleless, buffer, mutex, stderr>>
      /\ failed' = failed + 1 /\ Goto(w, "lock") /\ "lock" \in PCs
  BY DEF Fail, At, disk, driver, PCs
<1>2. /\ TypeOK /\ DirsInv /\ PlaceInv(w) /\ CountInv /\ job[w] \in JobSet
      /\ buffer \in [Workers -> Seq(Bytes)]
  BY <1>1, Mine DEF ReportsInv
<1>3. /\ job' \in [Workers -> JobSet] /\ job'[w] = [job[w] EXCEPT !.pc = "lock"]
      /\ \A v \in Workers : v # w => job'[v] = job[v]
  BY <1>1, <1>2, GotoFacts
<1>4. job'[w].pc = "lock" /\ job'[w].entry = job[w].entry /\ job'[w].file = job[w].file
  BY <1>2, <1>3 DEF JobSet
<1>5. PlaceInv(w)'
  BY <1>1, <1>2, <1>4, InputSame DEF PlaceInv, Writes, Fails
<1>6. ReportInv' /\ {e \in Entries : Reported(e)}' = {e \in Entries : Reported(e)}
  BY <1>1, <1>3, <1>4, MessagesSame
<1>7. CountInv'
  <2>1. Counted' = Counted \cup {w} /\ w \notin Counted
    BY <1>1, <1>3, <1>4 DEF Counted, Workers
  <2>2. Cardinality(Counted') = Cardinality(Counted) + 1
    BY <1>2, <2>1, CountedFinite, FS_AddElement
  <2> DEFINE R == {e \in Entries : Reported(e)}
  <2>3. /\ Cardinality(R) \in Nat /\ Cardinality(Counted) \in Nat
        /\ failed = Cardinality(R) + Cardinality(Counted) /\ R' = R
    BY <1>2, <1>6, CountedFinite DEF CountInv
  <2> HIDE DEF R
  <2>4. failed' = Cardinality(R') + Cardinality(Counted')
    BY <1>1, <2>2, <2>3
  <2>5. QED
    BY <2>4 DEF CountInv, R
<1>8. DirsInv'
  BY <1>1, <1>2, InputSame DEF DirsInv
<1>9. /\ buffer' \in [Workers -> Seq(Bytes)] /\ failed' \in Nat
      /\ mutex' \in Workers \cup {-1}
      /\ stderr' \in Seq({"failed", "unterminated"} \X Nat)
      /\ files' \in [Paths -> Seq(Bytes) \cup {Absent}]
  BY <1>1, <1>2 DEF TypeOK
<1>10. QED
  BY <1>1, <1>3, <1>4, <1>5, <1>6, <1>7, <1>8, <1>9, WorkerStep

\* The mutex of the standard error.
LEMMA LockReports ==
  ASSUME ReportsInv, NEW w \in Workers, Lock(w) PROVE ReportsInv'
<1>1. /\ job[w].pc = "lock" /\ job[w].pc # "idle"
      /\ UNCHANGED <<disk, driver, buffer, failed, stderr>>
      /\ input' = input /\ UNCHANGED <<added, pending, buffer>>
      /\ mutex' = w /\ Goto(w, "report") /\ "report" \in PCs
  BY DEF Lock, At, disk, driver, PCs
<1>2. TypeOK /\ PlaceInv(w) /\ job[w] \in JobSet
  BY <1>1, Mine
<1>3. /\ job' \in [Workers -> JobSet] /\ job'[w] = [job[w] EXCEPT !.pc = "report"]
      /\ \A v \in Workers : v # w => job'[v] = job[v]
  BY <1>1, <1>2, GotoFacts
<1>4. job'[w].pc = "report" /\ job'[w].entry = job[w].entry /\ job'[w].file = job[w].file
  BY <1>2, <1>3 DEF JobSet
<1>5. PlaceInv(w)'
  BY <1>1, <1>2, <1>4, InputSame DEF PlaceInv, Writes, Fails
<1>6. QED
  BY <1>1, <1>3, <1>4, <1>5, LocalStep

\* One more message.
LEMMA Message ==
  ASSUME TypeOK, NEW m \in {"failed", "unterminated"} \X Nat, stderr' = Append(stderr, m)
  PROVE  /\ stderr' \in Seq({"failed", "unterminated"} \X Nat)
         /\ Len(stderr) \in Nat /\ DOMAIN stderr = 1 .. Len(stderr)
         /\ DOMAIN stderr' = 1 .. Len(stderr) + 1
         /\ stderr'[Len(stderr) + 1] = m
         /\ \A i \in DOMAIN stderr : stderr'[i] = stderr[i]
         /\ \A e : Reported(e)' <=> Reported(e) \/ m = <<"failed", e>>
<1>1. stderr \in Seq({"failed", "unterminated"} \X Nat)
  BY DEF TypeOK
<1>2. Len(stderr) \in Nat /\ DOMAIN stderr = 1 .. Len(stderr)
  BY <1>1, LenProperties
<1>3. /\ stderr' \in Seq({"failed", "unterminated"} \X Nat)
      /\ Len(stderr') = Len(stderr) + 1
      /\ \A i \in 1 .. Len(stderr) : stderr'[i] = stderr[i]
      /\ stderr'[Len(stderr) + 1] = m
  BY <1>1, AppendProperties
<1>4. DOMAIN stderr' = 1 .. Len(stderr) + 1
  BY <1>3, LenProperties
<1>5. \A i : i \in DOMAIN stderr' <=> i \in DOMAIN stderr \/ i = Len(stderr) + 1
  BY <1>2, <1>4
<1>6. \A e : Reported(e)' <=> Reported(e) \/ m = <<"failed", e>>
  BY <1>2, <1>3, <1>5 DEF Reported
<1>7. QED
  BY <1>2, <1>3, <1>4, <1>6

\* The message is written by the only worker that has the entry, once.
LEMMA ReportReports ==
  ASSUME ReportsInv, NEW w \in Workers, Report(w) PROVE ReportsInv'
<1>0. PICK e : e = MyEntry(w)
  OBVIOUS
<1>1. /\ job[w].pc = "report" /\ job[w].pc # "idle"
      /\ UNCHANGED <<input, added, pending, result, files, dirs, handleless, buffer, failed, mutex>>
      /\ stderr' = Append(stderr, <<"failed", e>>)
      /\ Goto(w, "unlock") /\ "unlock" \in PCs
  BY <1>0 DEF Report, At, disk, driver, PCs
<1>2. /\ TypeOK /\ DirsInv /\ PlaceInv(w) /\ CountInv /\ ReportInv /\ DistinctInv
      /\ job[w] \in JobSet
      /\ buffer \in [Workers -> Seq(Bytes)] /\ e = job[w].entry
      /\ e \in Entries /\ e # 0 /\ e \in Nat /\ e \in 1 .. added /\ e \notin pending
  BY <1>0, <1>1, Mine DEF ReportsInv
<1>3. /\ job' \in [Workers -> JobSet] /\ job'[w] = [job[w] EXCEPT !.pc = "unlock"]
      /\ \A v \in Workers : v # w => job'[v] = job[v]
  BY <1>1, <1>2, GotoFacts
<1>4. job'[w].pc = "unlock" /\ job'[w].entry = e /\ job'[w].file = job[w].file
  BY <1>2, <1>3 DEF JobSet
<1>5. <<"failed", e>> \in {"failed", "unterminated"} \X Nat
  BY <1>2
<1>6. /\ stderr' \in Seq({"failed", "unterminated"} \X Nat)
      /\ Len(stderr) \in Nat /\ DOMAIN stderr = 1 .. Len(stderr)
      /\ DOMAIN stderr' = 1 .. Len(stderr) + 1
      /\ stderr'[Len(stderr) + 1] = <<"failed", e>>
      /\ \A i \in DOMAIN stderr : stderr'[i] = stderr[i]
      /\ \A f : Reported(f)' <=> Reported(f) \/ f = e
  BY <1>1, <1>2, <1>5, Message
<1>7. ~Reported(e)
  BY <1>1, <1>2 DEF ReportInv
<1>8. /\ Entries' = Entries /\ \A f : Blocked(f)' = Blocked(f)
  BY <1>1, InputSame
<1>9. Blocked(e)
  BY <1>1, <1>2 DEF PlaceInv, Fails
<1>10. PlaceInv(w)'
  BY <1>1, <1>2, <1>4, <1>8, <1>9, InputSame DEF PlaceInv, Writes, Fails
<1>11. ReportInv'
  <2>1. ASSUME NEW f \in Entries, NEW i \in DOMAIN stderr', NEW k \in DOMAIN stderr',
               stderr'[i] = <<"failed", f>>, stderr'[k] = <<"failed", f>>
        PROVE  i = k
    <3>1. \A j \in DOMAIN stderr' : j \in DOMAIN stderr \/ j = Len(stderr) + 1
      BY <1>6
    <3>2. CASE f = e
      <4>1. i \notin DOMAIN stderr /\ k \notin DOMAIN stderr
        BY <1>6, <1>7, <2>1, <3>2 DEF Reported
      <4>2. QED
        BY <3>1, <4>1
    <3>3. CASE f # e
      <4>1. i \in DOMAIN stderr /\ k \in DOMAIN stderr
        BY <1>6, <2>1, <3>1, <3>3
      <4>2. QED
        BY <1>2, <1>6, <2>1, <4>1 DEF ReportInv
    <3>4. QED
      BY <3>2, <3>3
  <2>2. ASSUME NEW f \in Entries, Reported(f)'
        PROVE  /\ f \in 1 .. added' /\ f \notin pending'
               /\ \A v \in Workers : job'[v].entry = f => job'[v].pc = "unlock"
    <3>1. CASE f = e
      BY <1>1, <1>2, <1>3, <1>4, <3>1 DEF DistinctInv
    <3>2. CASE f # e
      <4>1. Reported(f)
        BY <1>6, <2>2, <3>2
      <4>2. /\ f \in 1 .. added /\ f \notin pending
            /\ \A v \in Workers : job[v].entry = f => job[v].pc = "unlock"
        BY <1>2, <4>1 DEF ReportInv
      <4>3. ASSUME NEW v \in Workers, job'[v].entry = f PROVE job'[v].pc = "unlock"
        <5>1. v # w
          BY <1>4, <3>2, <4>3
        <5>2. QED
          BY <1>3, <4>2, <4>3, <5>1
      <4>4. QED
        BY <1>1, <4>2, <4>3
    <3>3. QED
      BY <3>1, <3>2
  <2>3. \A v \in Workers : job'[v].pc = "unlock" => Reported(job[v].entry)'
    <3>1. Reported(job[w].entry)'
      BY <1>2, <1>4, <1>6 DEF Reported
    <3>2. ASSUME NEW v \in Workers, v # w, job'[v].pc = "unlock"
          PROVE  Reported(job[v].entry)'
      <4>1. job'[v] = job[v] /\ Reported(job[v].entry)
        BY <1>2, <1>3, <3>2 DEF ReportInv
      <4>2. QED
        BY <1>6, <4>1 DEF Reported
    <3>3. QED
      BY <3>1, <3>2
  <2>4. \A f \in Entries : Reported(f)' => Blocked(f)'
    BY <1>2, <1>6, <1>8, <1>9 DEF ReportInv
  <2>5. Workers' = Workers
    BY DEF Workers
  <2>6. QED
    BY <1>8, <2>1, <2>2, <2>3, <2>4, <2>5 DEF ReportInv
<1>12. CountInv'
  <2> DEFINE R == {f \in Entries : Reported(f)}
  <2>1. R' = R \cup {e} /\ e \notin R
    BY <1>2, <1>6, <1>7, <1>8
  <2>2. Counted' = Counted \ {w} /\ w \in Counted
    BY <1>1, <1>3, <1>4 DEF Counted, Workers
  <2>3. /\ IsFiniteSet(R) /\ Cardinality(R) \in Nat
        /\ IsFiniteSet(Counted) /\ Cardinality(Counted) \in Nat
    BY <1>2, CountedFinite
  <2>4. failed = Cardinality(R) + Cardinality(Counted)
    BY <1>2 DEF CountInv
  <2> HIDE DEF R
  <2>5. Cardinality(R') = Cardinality(R) + 1
    BY <2>1, <2>3, FS_AddElement
  <2>6. Cardinality(Counted') = Cardinality(Counted) - 1
    BY <2>2, <2>3, FS_RemoveElement
  <2>7. failed' = Cardinality(R') + Cardinality(Counted')
    BY <1>1, <2>3, <2>4, <2>5, <2>6
  <2>8. QED
    BY <2>7 DEF CountInv, R
<1>13. DirsInv'
  BY <1>1, <1>2, InputSame DEF DirsInv
<1>14. /\ buffer' \in [Workers -> Seq(Bytes)] /\ failed' \in Nat
       /\ mutex' \in Workers \cup {-1}
       /\ files' \in [Paths -> Seq(Bytes) \cup {Absent}]
  BY <1>1, <1>2 DEF TypeOK
<1>15. QED
  BY <1>1, <1>2, <1>3, <1>4, <1>6, <1>10, <1>11, <1>12, <1>13, <1>14, WorkerStep

\* A worker that has finished with its entry.
LEMMA IdleFacts ==
  ASSUME TypeOK, NEW w \in Workers, job' = [job EXCEPT ![w] = Idle]
  PROVE  /\ job' \in [Workers -> JobSet]
         /\ job'[w] = Idle /\ job'[w].pc = "idle" /\ job'[w].entry = 0 /\ job'[w].file = NoFile
         /\ \A v \in Workers : v # w => job'[v] = job[v]
<1>1. Idle \in JobSet /\ Idle.pc = "idle" /\ Idle.entry = 0 /\ Idle.file = NoFile
  BY DEF Idle, JobSet, PCs
<1>2. job \in [Workers -> JobSet]
  BY DEF TypeOK
<1>3. QED
  BY <1>1, <1>2

\* The mutex is given back and the worker is free.
LEMMA UnlockReports ==
  ASSUME ReportsInv, NEW w \in Workers, Unlock(w) PROVE ReportsInv'
<1>1. /\ job[w].pc = "unlock" /\ job[w].pc # "idle"
      /\ UNCHANGED <<input, added, pending, result, files, dirs, handleless, buffer, failed, stderr>>
      /\ mutex' = -1 /\ job' = [job EXCEPT ![w] = Idle]
  BY DEF Unlock, At, disk, driver
<1>2. /\ TypeOK /\ DirsInv /\ PlaceInv(w) /\ CountInv /\ ReportInv
      /\ buffer \in [Workers -> Seq(Bytes)] /\ buffer[w] = <<>>
  BY <1>1, Mine DEF ReportsInv, PlaceInv
<1>3. /\ job' \in [Workers -> JobSet]
      /\ job'[w] = Idle /\ job'[w].pc = "idle" /\ job'[w].entry = 0 /\ job'[w].file = NoFile
      /\ \A v \in Workers : v # w => job'[v] = job[v]
  BY <1>1, <1>2, IdleFacts
<1>4. PlaceInv(w)'
  BY <1>1, <1>2, <1>3 DEF PlaceInv, Writes, Fails, Idle
<1>5. /\ Entries' = Entries /\ Workers' = Workers
      /\ \A e : Blocked(e)' = Blocked(e)
      /\ \A e : Reported(e)' = Reported(e)
      /\ \A e \in Entries : e # 0
  BY <1>1, <1>2, InputSame, ArchiveTypes DEF Workers, Reported, TypeOK
<1>6. ReportInv'
  <2>1. \A e \in Entries' : \A i, k \in DOMAIN stderr' :
          stderr'[i] = <<"failed", e>> /\ stderr'[k] = <<"failed", e>> => i = k
    BY <1>1, <1>2, <1>5 DEF ReportInv
  <2>2. \A e \in Entries' : Reported(e)' =>
          /\ e \in 1 .. added' /\ e \notin pending'
          /\ \A v \in Workers : job'[v].entry = e => job'[v].pc = "unlock"
    BY <1>1, <1>2, <1>3, <1>5 DEF ReportInv
  <2>3. \A v \in Workers : job'[v].pc = "unlock" => Reported(job[v].entry)'
    BY <1>1, <1>2, <1>3 DEF ReportInv, Reported
  <2>4. \A e \in Entries' : Reported(e)' => Blocked(e)'
    BY <1>2, <1>5 DEF ReportInv
  <2>5. QED
    BY <1>5, <2>1, <2>2, <2>3, <2>4 DEF ReportInv
<1>7. CountInv'
  <2>1. Counted' = Counted
    BY <1>1, <1>3, <1>5 DEF Counted
  <2>2. QED
    BY <1>1, <1>2, <1>5, <2>1 DEF CountInv
<1>8. DirsInv'
  BY <1>1, <1>2, InputSame DEF DirsInv
<1>9. /\ failed' \in Nat /\ mutex' \in Workers \cup {-1}
      /\ buffer' \in [Workers -> Seq(Bytes)]
      /\ stderr' \in Seq({"failed", "unterminated"} \X Nat)
      /\ files' \in [Paths -> Seq(Bytes) \cup {Absent}]
  BY <1>1, <1>2 DEF TypeOK
<1>10. QED
  BY <1>1, <1>2, <1>3, <1>4, <1>6, <1>7, <1>8, <1>9, WorkerStep

-----------------------------------------------------------------------------
(* Writing an entry.                                                       *)

\* What is written is made of bytes and holes, wherever it goes.
LEMMA WrittenType ==
  ASSUME NEW old \in Seq(Bytes), NEW data \in Seq(Bytes), NEW offset \in Nat
  PROVE  WrittenAt(old, offset, data) \in Seq(Bytes)
<1> DEFINE end == offset + Len(data)
           n == IF end > Len(old) THEN end ELSE Len(old)
           new == WrittenAt(old, offset, data)
<1>1. /\ Len(old) \in Nat /\ Len(data) \in Nat /\ n \in Nat
      /\ \A k \in 1 .. Len(old) : old[k] \in Bytes
      /\ \A k \in 1 .. Len(data) : data[k] \in Bytes
      /\ <<>> \in Bytes
  BY LenProperties DEF Bytes
<1>2. new = [k \in 1 .. n |-> IF k \in offset + 1 .. end THEN data[k - offset]
                             ELSE IF k <= Len(old) THEN old[k] ELSE <<>>]
  BY DEF WrittenAt
<1>3. \A k \in 1 .. n : new[k] \in Bytes
  <2> TAKE k \in 1 .. n
  <2>1. CASE k \in offset + 1 .. end
    BY <1>1, <1>2, <2>1
  <2>2. CASE k \notin offset + 1 .. end
    BY <1>1, <1>2, <2>2
  <2>3. QED
    BY <2>1, <2>2
<1>4. new \in [1 .. n -> Bytes]
  BY <1>2, <1>3
<1>5. QED
  BY <1>1, <1>4, FunctionIsSequence

\* A write to the worker's file changes no other one.
LEMMA WriteFileFacts ==
  ASSUME TypeOK, NEW w \in Workers, PlaceInv(w), NEW data \in Seq(Bytes),
         NEW k \in 0 .. Len(data), WriteFile(w, data, k)
  PROVE  /\ files' \in [Paths -> Seq(Bytes) \cup {Absent}]
         /\ \A p \in Paths : files[p] # Absent => files'[p] # Absent
         /\ \A p \in Paths : p # job[w].file => files'[p] = files[p]
         /\ SubSeq(data, 1, k) \in Seq(Bytes)
         /\ job[w].file # NoFile =>
              /\ job[w].file \in Paths
              /\ files[job[w].file] \in Seq(Bytes)
              /\ files'[job[w].file] = IF k = 0 THEN files[job[w].file]
                   ELSE WrittenAt(files[job[w].file], job[w].offset, SubSeq(data, 1, k))
              /\ files'[job[w].file] \in Seq(Bytes)
<1>1. /\ files \in [Paths -> Seq(Bytes) \cup {Absent}]
      /\ job[w].file \in Paths \cup {NoFile} /\ job[w].offset \in Nat
  BY DEF TypeOK, JobSet
<1>2. SubSeq(data, 1, k) \in Seq(Bytes)
  BY CutTwice
<1>3. CASE k = 0
  <2>1. files' = files
    BY <1>3 DEF WriteFile
  <2>2. QED
    BY <1>1, <1>2, <1>3, <2>1 DEF PlaceInv
<1>4. CASE k # 0
  <2>1. /\ job[w].file # NoFile /\ job[w].file \in Paths /\ files[job[w].file] \in Seq(Bytes)
    BY <1>1, <1>4 DEF PlaceInv, WriteFile
  <2> DEFINE new == WrittenAt(files[job[w].file], job[w].offset, SubSeq(data, 1, k))
  <2>2. files' = [files EXCEPT ![job[w].file] = new]
    BY <1>4 DEF WriteFile
  <2>3. new \in Seq(Bytes) /\ new # Absent
    BY <1>1, <1>2, <2>1, WrittenType, MarkersAssumption DEF Bytes
  <2> HIDE DEF new
  <2>4. /\ files' \in [Paths -> Seq(Bytes) \cup {Absent}]
        /\ files'[job[w].file] = new
        /\ \A p \in Paths : p # job[w].file => files'[p] = files[p]
    BY <1>1, <2>1, <2>2, <2>3
  <2>5. QED
    BY <1>2, <1>4, <2>1, <2>3, <2>4 DEF new
<1>5. QED
  BY <1>3, <1>4

\* A worker that goes on writing, or has written all.
LEMMA WriteStep ==
  ASSUME ReportsInv, NEW w \in Workers, job[w].pc \in {"write", "flush"},
         UNCHANGED <<input, added, pending, result, dirs, handleless, failed, mutex, stderr>>,
         job' \in [Workers -> JobSet],
         buffer' \in [Workers -> Seq(Bytes)],
         \A v \in Workers : v # w => job'[v] = job[v] /\ buffer'[v] = buffer[v],
         files' \in [Paths -> Seq(Bytes) \cup {Absent}],
         \A p \in Paths : files[p] # Absent => files'[p] # Absent,
         job'[w].pc \in Writes, job'[w].entry = job[w].entry, job'[w].file = job[w].file,
         job'[w].pc = "write" => job'[w].n \in 1 .. Len(input.fragments[job[w].entry]) + 1,
         job'[w].pc = "close" => buffer'[w] = <<>>
  PROVE  ReportsInv'
<1>1. /\ job[w].pc # "idle" /\ TypeOK /\ DirsInv /\ PlaceInv(w) /\ job[w] \in JobSet
  BY Mine
<1>2. PlaceInv(w)'
  <2>1. /\ Path' = Path /\ \A e : Obstructed(e)' = Obstructed(e)
    BY InputSame
  <2>2. /\ job[w].entry \in 1 .. added /\ job[w].entry \notin pending
        /\ job[w].file # NoFile => job[w].file = Path[job[w].entry]
        /\ job[w].file # NoFile => files[job[w].file] # Absent
        /\ job[w].file = NoFile => job[w].entry \in handleless
    BY <1>1 DEF PlaceInv, Writes
  <2>3. job[w].file # NoFile => files'[job[w].file] # Absent
    BY <1>1, <2>2 DEF JobSet
  <2>4. QED
    BY <1>1, <2>1, <2>2, <2>3 DEF PlaceInv, Writes, Fails
<1>3. ReportInv' /\ CountInv'
  BY <1>1, QuietReports DEF Writes
<1>4. DirsInv'
  BY <1>1, InputSame DEF DirsInv
<1>5. /\ failed' \in Nat /\ mutex' \in Workers \cup {-1}
      /\ stderr' \in Seq({"failed", "unterminated"} \X Nat)
  BY <1>1 DEF TypeOK
<1>6. QED
  BY <1>1, <1>2, <1>3, <1>4, <1>5, WorkerStep

\* The piece a worker is about to write.
LEMMA NextPiece ==
  ASSUME ReportsInv, NEW w \in Workers, Writing(w)
  PROVE  /\ job[w].pc = "write" /\ job[w].pc # "idle"
         /\ job[w].n \in 1 .. Len(input.fragments[job[w].entry])
         /\ job[w].n + 1 \in 1 .. Len(input.fragments[job[w].entry]) + 1
         /\ Piece(job[w].entry, job[w].n) \in Seq(Bytes)
         /\ Len(Piece(job[w].entry, job[w].n)) \in Nat
<1>1. job[w].pc = "write" /\ job[w].pc # "idle" /\ job[w].n <= Len(input.fragments[MyEntry(w)])
  BY DEF Writing, At
<1>2. /\ TypeOK /\ PlaceInv(w) /\ MyEntry(w) = job[w].entry /\ job[w].entry \in Entries
      /\ Len(input.fragments[job[w].entry]) \in Nat
  BY <1>1, Mine
<1>3. job[w].n \in 1 .. Len(input.fragments[job[w].entry])
  BY <1>1, <1>2 DEF PlaceInv
<1>4. /\ Piece(job[w].entry, job[w].n) \in Seq(Bytes)
      /\ Len(Piece(job[w].entry, job[w].n)) \in Nat
  BY <1>2, <1>3, PieceType, LenProperties DEF TypeOK
<1>5. QED
  BY <1>1, <1>2, <1>3, <1>4, SMTT(60)

\* The piece waits in the buffer.
LEMMA WriteBufferedReports ==
  ASSUME ReportsInv, NEW w \in Workers, WriteBuffered(w) PROVE ReportsInv'
<1> DEFINE r == [job[w] EXCEPT !.n = job[w].n + 1]
           data == buffer[w] \o Piece(job[w].entry, job[w].n)
<1>1. /\ Writing(w)
      /\ UNCHANGED <<input, files, dirs, handleless, added, pending, result, failed, mutex, stderr>>
      /\ buffer' = [buffer EXCEPT ![w] = data]
      /\ job' = [job EXCEPT ![w] = r]
  BY DEF WriteBuffered, disk, driver, reports, MyEntry
<1>2. /\ job[w].pc = "write" /\ job[w].pc # "idle"
      /\ job[w].n + 1 \in 1 .. Len(input.fragments[job[w].entry]) + 1
      /\ Piece(job[w].entry, job[w].n) \in Seq(Bytes)
  BY <1>1, NextPiece
<1>3. /\ TypeOK /\ job \in [Workers -> JobSet] /\ job[w] \in JobSet
      /\ buffer \in [Workers -> Seq(Bytes)] /\ buffer[w] \in Seq(Bytes)
  BY <1>2, Mine
<1>4. data \in Seq(Bytes)
  BY <1>2, <1>3, ConcatProperties
<1>5. /\ r \in JobSet /\ r.pc = "write" /\ r.n = job[w].n + 1
      /\ r.entry = job[w].entry /\ r.file = job[w].file
  <2>1. job[w].n + 1 \in Nat
    BY <1>3 DEF JobSet
  <2>2. QED
    BY <1>2, <1>3, <2>1 DEF JobSet
<1> HIDE DEF r, data
<1>6. /\ job' \in [Workers -> JobSet] /\ job'[w] = r
      /\ buffer' \in [Workers -> Seq(Bytes)]
      /\ \A v \in Workers : v # w => job'[v] = job[v] /\ buffer'[v] = buffer[v]
  BY <1>1, <1>3, <1>4, <1>5
<1>7. /\ files' \in [Paths -> Seq(Bytes) \cup {Absent}]
      /\ \A p \in Paths : files[p] # Absent => files'[p] # Absent
  BY <1>1, <1>3 DEF TypeOK
<1>8. QED
  BY <1>1, <1>2, <1>5, <1>6, <1>7, WriteStep DEF Writes

\* The buffer goes to the file.
LEMMA WriteSpillsReports ==
  ASSUME ReportsInv, NEW w \in Workers, WriteSpills(w) PROVE ReportsInv'
<1>0. PICK k \in 0 .. Len(buffer[w]) :
        WriteFile(w, buffer[w], k) /\ job' = [job EXCEPT ![w].offset = @ + k]
  BY DEF WriteSpills
<1> DEFINE r == [job[w] EXCEPT !.offset = job[w].offset + k]
<1>1. /\ Writing(w) /\ WriteFile(w, buffer[w], k)
      /\ UNCHANGED <<input, dirs, handleless, added, pending, result, failed, mutex, stderr>>
      /\ buffer' = [buffer EXCEPT ![w] = <<>>]
      /\ job' = [job EXCEPT ![w] = r]
  BY <1>0 DEF WriteSpills, driver, reports
<1>2. /\ job[w].pc = "write" /\ job[w].pc # "idle"
      /\ job[w].n \in 1 .. Len(input.fragments[job[w].entry])
  BY <1>1, NextPiece
<1>3. /\ TypeOK /\ PlaceInv(w) /\ job \in [Workers -> JobSet] /\ job[w] \in JobSet
      /\ buffer \in [Workers -> Seq(Bytes)] /\ buffer[w] \in Seq(Bytes)
      /\ Len(buffer[w]) \in Nat /\ <<>> \in Seq(Bytes)
  BY <1>2, Mine, LenProperties, EmptySeq
<1>4. /\ r \in JobSet /\ r.pc = "write" /\ r.n = job[w].n
      /\ r.entry = job[w].entry /\ r.file = job[w].file
  <2>1. job[w].offset + k \in Nat
    BY <1>3 DEF JobSet
  <2>2. QED
    BY <1>2, <1>3, <2>1 DEF JobSet
<1> HIDE DEF r
<1>5. /\ job' \in [Workers -> JobSet] /\ job'[w] = r
      /\ buffer' \in [Workers -> Seq(Bytes)]
      /\ \A v \in Workers : v # w => job'[v] = job[v] /\ buffer'[v] = buffer[v]
  BY <1>1, <1>3, <1>4
<1>6. /\ files' \in [Paths -> Seq(Bytes) \cup {Absent}]
      /\ \A p \in Paths : files[p] # Absent => files'[p] # Absent
  BY <1>1, <1>3, WriteFileFacts
<1>7. job'[w].n \in 1 .. Len(input.fragments[job[w].entry]) + 1
  <2>1. Len(input.fragments[job[w].entry]) \in Nat
    BY <1>2, Mine
  <2>2. QED
    BY <1>2, <1>4, <1>5, <2>1
<1>8. QED
  BY <1>1, <1>2, <1>4, <1>5, <1>6, <1>7, WriteStep DEF Writes

\* The piece goes to the file.
LEMMA WriteThroughReports ==
  ASSUME ReportsInv, NEW w \in Workers, WriteThrough(w) PROVE ReportsInv'
<1> DEFINE data == Piece(job[w].entry, job[w].n)
<1>0. PICK k \in 0 .. Len(data) :
        WriteFile(w, data, k) /\ job' = [job EXCEPT ![w].n = @ + 1, ![w].offset = @ + k]
  BY DEF WriteThrough, MyEntry
<1> DEFINE r == [job[w] EXCEPT !.n = job[w].n + 1, !.offset = job[w].offset + k]
<1>1. /\ Writing(w) /\ WriteFile(w, data, k)
      /\ UNCHANGED <<input, dirs, handleless, added, pending, result, failed, mutex, stderr, buffer>>
      /\ job' = [job EXCEPT ![w] = r]
  BY <1>0 DEF WriteThrough, driver, reports, MyEntry
<1>2. /\ job[w].pc = "write" /\ job[w].pc # "idle"
      /\ job[w].n + 1 \in 1 .. Len(input.fragments[job[w].entry]) + 1
      /\ data \in Seq(Bytes) /\ Len(data) \in Nat
  BY <1>1, NextPiece
<1> HIDE DEF data
<1>3. /\ TypeOK /\ PlaceInv(w) /\ job \in [Workers -> JobSet] /\ job[w] \in JobSet
      /\ buffer \in [Workers -> Seq(Bytes)]
  BY <1>2, Mine
<1>4. /\ r \in JobSet /\ r.pc = "write" /\ r.n = job[w].n + 1
      /\ r.entry = job[w].entry /\ r.file = job[w].file
  <2>1. job[w].n + 1 \in Nat /\ job[w].offset + k \in Nat
    BY <1>2, <1>3 DEF JobSet
  <2>2. QED
    BY <1>2, <1>3, <2>1 DEF JobSet
<1> HIDE DEF r
<1>5. /\ job' \in [Workers -> JobSet] /\ job'[w] = r
      /\ buffer' \in [Workers -> Seq(Bytes)]
      /\ \A v \in Workers : v # w => job'[v] = job[v] /\ buffer'[v] = buffer[v]
  BY <1>1, <1>3, <1>4
<1>6. /\ files' \in [Paths -> Seq(Bytes) \cup {Absent}]
      /\ \A p \in Paths : files[p] # Absent => files'[p] # Absent
  BY <1>1, <1>2, <1>3, WriteFileFacts
<1>7. QED
  BY <1>1, <1>2, <1>4, <1>5, <1>6, WriteStep DEF Writes

\* The last of the buffer.
LEMMA FlushReports ==
  ASSUME ReportsInv, NEW w \in Workers, Flush(w) PROVE ReportsInv'
<1>0. PICK k \in 0 .. Len(buffer[w]) : WriteFile(w, buffer[w], k)
  BY DEF Flush
<1>1. /\ job[w].pc = "flush" /\ job[w].pc # "idle" /\ WriteFile(w, buffer[w], k)
      /\ UNCHANGED <<input, dirs, handleless, added, pending, result, failed, mutex, stderr>>
      /\ buffer' = [buffer EXCEPT ![w] = <<>>]
      /\ Goto(w, "close") /\ "close" \in PCs
  BY <1>0 DEF Flush, At, driver, reports, PCs
<1>2. /\ TypeOK /\ PlaceInv(w) /\ job[w] \in JobSet
      /\ buffer \in [Workers -> Seq(Bytes)] /\ buffer[w] \in Seq(Bytes) /\ <<>> \in Seq(Bytes)
  BY <1>1, Mine, EmptySeq
<1>3. /\ job' \in [Workers -> JobSet] /\ job'[w] = [job[w] EXCEPT !.pc = "close"]
      /\ \A v \in Workers : v # w => job'[v] = job[v]
  BY <1>1, <1>2, GotoFacts
<1>4. job'[w].pc = "close" /\ job'[w].entry = job[w].entry /\ job'[w].file = job[w].file
  BY <1>2, <1>3 DEF JobSet
<1>5. /\ buffer' \in [Workers -> Seq(Bytes)] /\ buffer'[w] = <<>>
      /\ \A v \in Workers : v # w => job'[v] = job[v] /\ buffer'[v] = buffer[v]
  BY <1>1, <1>2, <1>3
<1>6. /\ files' \in [Paths -> Seq(Bytes) \cup {Absent}]
      /\ \A p \in Paths : files[p] # Absent => files'[p] # Absent
  BY <1>1, <1>2, WriteFileFacts
<1>7. QED
  BY <1>1, <1>3, <1>4, <1>5, <1>6, WriteStep DEF Writes

\* The warning about an entry without end is not a report.
LEMMA WarnReports ==
  ASSUME ReportsInv, NEW w \in Workers, Warn(w) PROVE ReportsInv'
<1>0. PICK e : e = MyEntry(w)
  OBVIOUS
<1>1. /\ job[w].pc = "write" /\ job[w].pc # "idle"
      /\ UNCHANGED <<input, added, pending, result, files, dirs, handleless, buffer, failed, mutex>>
      /\ stderr' = (IF e \in input.open_ended THEN Append(stderr, <<"unterminated", e>>) ELSE stderr)
      /\ Goto(w, "flush") /\ "flush" \in PCs
  BY <1>0 DEF Warn, At, disk, driver, PCs
<1>2. /\ TypeOK /\ DirsInv /\ PlaceInv(w) /\ CountInv /\ ReportInv
      /\ job[w] \in JobSet
      /\ buffer \in [Workers -> Seq(Bytes)] /\ e = job[w].entry /\ e \in Nat
  BY <1>0, <1>1, Mine DEF ReportsInv
<1>3. /\ job' \in [Workers -> JobSet] /\ job'[w] = [job[w] EXCEPT !.pc = "flush"]
      /\ \A v \in Workers : v # w => job'[v] = job[v]
  BY <1>1, <1>2, GotoFacts
<1>4. job'[w].pc = "flush" /\ job'[w].entry = e /\ job'[w].file = job[w].file
  BY <1>2, <1>3 DEF JobSet
<1>5. /\ stderr' \in Seq({"failed", "unterminated"} \X Nat)
      /\ \A f : Reported(f)' <=> Reported(f)
      /\ \A i \in DOMAIN stderr' : \A f : stderr'[i] = <<"failed", f>> =>
           i \in DOMAIN stderr /\ stderr[i] = <<"failed", f>>
  <2>1. CASE e \in input.open_ended
    <3>1. <<"unterminated", e>> \in {"failed", "unterminated"} \X Nat
      BY <1>2
    <3>2. \A f : <<"unterminated", e>> # <<"failed", f>>
      OBVIOUS
    <3>3. stderr' = Append(stderr, <<"unterminated", e>>)
      BY <1>1, <2>1
    <3>4. /\ stderr' \in Seq({"failed", "unterminated"} \X Nat)
          /\ Len(stderr) \in Nat /\ DOMAIN stderr = 1 .. Len(stderr)
          /\ DOMAIN stderr' = 1 .. Len(stderr) + 1
          /\ stderr'[Len(stderr) + 1] = <<"unterminated", e>>
          /\ \A i \in DOMAIN stderr : stderr'[i] = stderr[i]
          /\ \A f : Reported(f)' <=> Reported(f) \/ <<"unterminated", e>> = <<"failed", f>>
      BY <1>2, <3>1, <3>3, Message
    <3>5. \A i \in DOMAIN stderr' : i \in DOMAIN stderr \/ i = Len(stderr) + 1
      BY <3>4
    <3>6. QED
      BY <3>2, <3>4, <3>5
  <2>2. CASE e \notin input.open_ended
    BY <1>1, <1>2, <2>2 DEF TypeOK, Reported
  <2>3. QED
    BY <2>1, <2>2
<1>6. /\ Entries' = Entries /\ Workers' = Workers /\ \A f : Blocked(f)' = Blocked(f)
  BY <1>1, InputSame DEF Workers
<1>7. PlaceInv(w)'
  BY <1>1, <1>2, <1>4, InputSame DEF PlaceInv, Writes, Fails
<1>8. ReportInv'
  <2>1. \A f \in Entries' : \A i, k \in DOMAIN stderr' :
          stderr'[i] = <<"failed", f>> /\ stderr'[k] = <<"failed", f>> => i = k
    BY <1>2, <1>5, <1>6 DEF ReportInv
  <2>2. \A f \in Entries' : Reported(f)' =>
          /\ f \in 1 .. added' /\ f \notin pending'
          /\ \A v \in Workers : job'[v].entry = f => job'[v].pc = "unlock"
    <3>1. ASSUME NEW f \in Entries, Reported(f)
          PROVE  /\ f \in 1 .. added' /\ f \notin pending' /\ f # e
                 /\ \A v \in Workers : job[v].entry = f => job[v].pc = "unlock"
      BY <1>1, <1>2, <3>1 DEF ReportInv
    <3>2. QED
      BY <1>3, <1>4, <1>5, <1>6, <3>1
  <2>3. \A v \in Workers : job'[v].pc = "unlock" => Reported(job[v].entry)'
    <3>1. ASSUME NEW v \in Workers, job'[v].pc = "unlock" PROVE Reported(job[v].entry)'
      <4>1. v # w /\ job'[v] = job[v] /\ Reported(job[v].entry)
        BY <1>2, <1>3, <1>4, <3>1 DEF ReportInv
      <4>2. QED
        BY <1>5, <4>1 DEF Reported
    <3>2. QED
      BY <3>1
  <2>4. \A f \in Entries' : Reported(f)' => Blocked(f)'
    BY <1>2, <1>5, <1>6 DEF ReportInv
  <2>5. QED
    BY <1>6, <2>1, <2>2, <2>3, <2>4 DEF ReportInv
<1>9. CountInv'
  <2>1. Counted' = Counted
    BY <1>1, <1>3, <1>4, <1>6 DEF Counted
  <2>2. {f \in Entries : Reported(f)}' = {f \in Entries : Reported(f)}
    BY <1>5, <1>6
  <2>3. QED
    BY <1>1, <1>2, <2>1, <2>2 DEF CountInv
<1>10. DirsInv'
  BY <1>1, <1>2, InputSame DEF DirsInv
<1>11. /\ buffer' \in [Workers -> Seq(Bytes)] /\ failed' \in Nat
       /\ mutex' \in Workers \cup {-1}
       /\ files' \in [Paths -> Seq(Bytes) \cup {Absent}]
  BY <1>1, <1>2 DEF TypeOK
<1>12. QED
  BY <1>1, <1>2, <1>3, <1>4, <1>5, <1>7, <1>8, <1>9, <1>10, <1>11, WorkerStep

\* The handle is closed and the worker is free.
LEMMA CloseReports ==
  ASSUME ReportsInv, NEW w \in Workers, Close(w) PROVE ReportsInv'
<1>1. /\ job[w].pc = "close" /\ job[w].pc # "idle"
      /\ UNCHANGED <<input, added, pending, result, files, dirs, handleless, buffer, failed, mutex, stderr>>
      /\ job' = [job EXCEPT ![w] = Idle]
  BY DEF Close, At, disk, driver, reports
<1>2. /\ TypeOK /\ DirsInv /\ PlaceInv(w)
      /\ buffer \in [Workers -> Seq(Bytes)] /\ buffer[w] = <<>>
  BY <1>1, Mine DEF PlaceInv
<1>3. /\ job' \in [Workers -> JobSet]
      /\ job'[w] = Idle /\ job'[w].pc = "idle" /\ job'[w].entry = 0 /\ job'[w].file = NoFile
      /\ \A v \in Workers : v # w => job'[v] = job[v]
  BY <1>1, <1>2, IdleFacts
<1>4. PlaceInv(w)'
  BY <1>1, <1>2, <1>3 DEF PlaceInv, Writes, Fails, Idle
<1>5. ReportInv' /\ CountInv'
  BY <1>1, <1>3, QuietReports
<1>6. DirsInv'
  BY <1>1, <1>2, InputSame DEF DirsInv
<1>7. /\ failed' \in Nat /\ mutex' \in Workers \cup {-1}
      /\ buffer' \in [Workers -> Seq(Bytes)]
      /\ stderr' \in Seq({"failed", "unterminated"} \X Nat)
      /\ files' \in [Paths -> Seq(Bytes) \cup {Absent}]
  BY <1>1, <1>2 DEF TypeOK
<1>8. QED
  BY <1>1, <1>2, <1>3, <1>4, <1>5, <1>6, <1>7, WorkerStep

-----------------------------------------------------------------------------
(* Jobs are added and taken, and the main thread returns.                  *)

\* A job is taken by one worker only, and nobody has reported its entry.
LEMMA TakeReports ==
  ASSUME ReportsInv, NEW w \in Workers, NEW e \in Entries, Take(w, e) PROVE ReportsInv'
<1> DEFINE pc == IF e \in input.too_long THEN "fail" ELSE "open"
           r == [Idle EXCEPT !.pc = pc, !.entry = e]
<1>1. /\ job[w].pc = "idle" /\ e \in pending /\ pending' = pending \ {e}
      /\ job' = [job EXCEPT ![w] = r]
      /\ UNCHANGED <<input, added, result, files, dirs, handleless, buffer, failed, mutex, stderr>>
  BY DEF Take, At, disk, reports
<1>2. /\ TypeOK /\ DirsInv /\ DistinctInv /\ ReportInv /\ CountInv /\ ResultInv
      /\ \A v \in Workers : PlaceInv(v)
  BY DEF ReportsInv
<1>3. /\ job \in [Workers -> JobSet] /\ buffer[w] = <<>> /\ job[w].entry = 0
      /\ e \in Nat /\ e # 0 /\ e \in 1 .. added /\ added \in Nat
      /\ \A f \in Entries : f # 0
  <2>1. buffer[w] = <<>> /\ job[w] = Idle
    BY <1>1, <1>2 DEF PlaceInv
  <2>2. e \in 1 .. added /\ added \in Nat /\ job \in [Workers -> JobSet]
    BY <1>1, <1>2, ArchiveTypes DEF TypeOK
  <2>3. \A f \in Entries : f # 0
    BY <1>2, ArchiveTypes DEF TypeOK
  <2>4. QED
    BY <2>1, <2>2, <2>3 DEF Idle
<1>4. pc \in {"fail", "open"} /\ (pc = "fail" => Blocked(e))
  BY DEF Blocked
<1> HIDE DEF pc
<1>5. r \in JobSet /\ r.pc = pc /\ r.entry = e /\ r.file = NoFile
  BY <1>3, <1>4 DEF JobSet, PCs, Idle
<1> HIDE DEF r
<1>6. /\ job' \in [Workers -> JobSet] /\ job'[w] = r
      /\ \A v \in Workers : v # w => job'[v] = job[v]
  BY <1>1, <1>3, <1>5
<1>7. /\ Entries' = Entries /\ Workers' = Workers /\ Path' = Path /\ Paths' = Paths
      /\ JobSet' = JobSet
      /\ \A f : Blocked(f)' = Blocked(f) /\ Reported(f)' = Reported(f)
  BY <1>1, InputSame DEF Workers, Reported
<1>8. TypeOK'
  BY <1>1, <1>2, <1>6, <1>7 DEF TypeOK
<1>9. DirsInv'
  BY <1>1, <1>2, InputSame DEF DirsInv
<1>10. ASSUME NEW v \in Workers, v # w PROVE PlaceInv(v)'
  <2>1. PlaceInv(v) /\ job'[v] = job[v] /\ buffer'[v] = buffer[v]
    BY <1>1, <1>2, <1>6, <1>10
  <2>2. job[v].pc # "idle" => job[v].entry \notin pending'
    BY <1>1, <2>1 DEF PlaceInv
  <2>3. added' \in Nat /\ added <= added'
    BY <1>1, <1>3
  <2>4. dirs \subseteq dirs' /\ \A p \in Paths : files[p] # Absent => files'[p] # Absent
    BY <1>1
  <2>5. QED
    BY <1>1, <1>2, <2>1, <2>2, <2>3, <2>4, PlaceStable
<1>11. PlaceInv(w)'
  BY <1>1, <1>3, <1>4, <1>5, <1>6, <1>7 DEF PlaceInv, Writes, Fails
<1>12. DistinctInv'
  <2>1. ASSUME NEW v \in Workers, v # w PROVE job[v].entry # e
    BY <1>1, <1>2, <1>3 DEF PlaceInv, Idle
  <2>2. QED
    BY <1>2, <1>5, <1>6, <1>7, <2>1 DEF DistinctInv
<1>13. ReportInv'
  <2>1. ~Reported(e)
    BY <1>1, <1>2 DEF ReportInv
  <2>2. \A f \in Entries' : \A i, k \in DOMAIN stderr' :
          stderr'[i] = <<"failed", f>> /\ stderr'[k] = <<"failed", f>> => i = k
    BY <1>1, <1>2, <1>7 DEF ReportInv
  <2>3. \A f \in Entries' : Reported(f)' =>
          /\ f \in 1 .. added' /\ f \notin pending'
          /\ \A v \in Workers : job'[v].entry = f => job'[v].pc = "unlock"
    BY <1>1, <1>2, <1>5, <1>6, <1>7, <2>1 DEF ReportInv
  <2>4. \A v \in Workers : job'[v].pc = "unlock" => Reported(job[v].entry)'
    BY <1>1, <1>2, <1>4, <1>5, <1>6 DEF ReportInv, Reported
  <2>5. \A f \in Entries' : Reported(f)' => Blocked(f)'
    BY <1>2, <1>7 DEF ReportInv
  <2>6. QED
    BY <1>7, <2>2, <2>3, <2>4, <2>5 DEF ReportInv
<1>14. CountInv'
  <2>1. Counted' = Counted
    BY <1>1, <1>4, <1>5, <1>6, <1>7 DEF Counted
  <2>2. QED
    BY <1>1, <1>2, <1>7, <2>1 DEF CountInv
<1>15. ResultInv'
  BY <1>1, <1>2 DEF ResultInv, Returned
<1>16. \A v \in Workers : PlaceInv(v)'
  BY <1>10, <1>11
<1>17. QED
  BY <1>7, <1>8, <1>9, <1>12, <1>13, <1>14, <1>15, <1>16 DEF ReportsInv

\* One more job.
LEMMA AddJobReports ==
  ASSUME ReportsInv, AddJob PROVE ReportsInv'
<1>1. /\ added < Len(Path) /\ added' = added + 1 /\ pending' = pending \cup {added + 1}
      /\ UNCHANGED <<input, result, job, files, dirs, handleless, buffer, failed, mutex, stderr>>
  BY DEF AddJob, disk, reports
<1>2. /\ TypeOK /\ DirsInv /\ DistinctInv /\ ReportInv /\ CountInv /\ ResultInv
      /\ \A v \in Workers : PlaceInv(v)
  BY DEF ReportsInv
<1>3. /\ added \in Nat /\ added' \in 0 .. Len(Path) /\ added <= added' /\ Len(Path) \in Nat
      /\ \A f \in 1 .. added : f \in 1 .. added' /\ f # added + 1
  BY <1>1, <1>2, ArchiveTypes DEF TypeOK
<1>4. /\ Entries' = Entries /\ Workers' = Workers /\ Path' = Path /\ Paths' = Paths
      /\ JobSet' = JobSet
      /\ \A f : Blocked(f)' = Blocked(f) /\ Reported(f)' = Reported(f)
  BY <1>1, InputSame DEF Workers, Reported
<1>5. TypeOK'
  <2>1. pending' \in SUBSET (1 .. added')
    BY <1>1, <1>2, <1>3 DEF TypeOK
  <2>2. QED
    BY <1>1, <1>2, <1>3, <1>4, <2>1 DEF TypeOK
<1>6. DirsInv'
  BY <1>1, <1>2, InputSame DEF DirsInv
<1>7. ASSUME NEW v \in Workers PROVE PlaceInv(v)'
  <2>1. PlaceInv(v) /\ job'[v] = job[v] /\ buffer'[v] = buffer[v]
    BY <1>1, <1>2
  <2>2. job[v].pc # "idle" => job[v].entry \notin pending'
    BY <1>1, <1>3, <2>1 DEF PlaceInv
  <2>3. added' \in Nat /\ added <= added'
    BY <1>3
  <2>4. dirs \subseteq dirs' /\ \A p \in Paths : files[p] # Absent => files'[p] # Absent
    BY <1>1
  <2>5. QED
    BY <1>1, <1>2, <2>1, <2>2, <2>3, <2>4, PlaceStable
<1>8. DistinctInv'
  BY <1>1, <1>2, <1>4 DEF DistinctInv
<1>9. ReportInv'
  <2>1. \A f \in Entries' : \A i, k \in DOMAIN stderr' :
          stderr'[i] = <<"failed", f>> /\ stderr'[k] = <<"failed", f>> => i = k
    BY <1>1, <1>2, <1>4 DEF ReportInv
  <2>2. \A f \in Entries' : Reported(f)' =>
          /\ f \in 1 .. added' /\ f \notin pending'
          /\ \A v \in Workers : job'[v].entry = f => job'[v].pc = "unlock"
    BY <1>1, <1>2, <1>3, <1>4 DEF ReportInv
  <2>3. \A v \in Workers : job'[v].pc = "unlock" => Reported(job[v].entry)'
    BY <1>1, <1>2 DEF ReportInv, Reported
  <2>4. \A f \in Entries' : Reported(f)' => Blocked(f)'
    BY <1>2, <1>4 DEF ReportInv
  <2>5. QED
    BY <1>4, <2>1, <2>2, <2>3, <2>4 DEF ReportInv
<1>10. CountInv'
  <2>1. Counted' = Counted
    BY <1>1, <1>4 DEF Counted
  <2>2. QED
    BY <1>1, <1>2, <1>4, <2>1 DEF CountInv
<1>11. ResultInv'
  BY <1>1, <1>2, <1>3 DEF ResultInv, Returned
<1>12. QED
  BY <1>4, <1>5, <1>6, <1>7, <1>8, <1>9, <1>10, <1>11 DEF ReportsInv

\* Whatever leaves everything but the result alone keeps all but the part about it.
LEMMA OnlyResult ==
  ASSUME ReportsInv,
         UNCHANGED <<input, added, pending, job, files, dirs, handleless, buffer, failed, mutex, stderr>>,
         result' \in Nat \cup {-1}, ResultInv'
  PROVE  ReportsInv'
<1>1. /\ TypeOK /\ DirsInv /\ DistinctInv /\ ReportInv /\ CountInv
      /\ \A v \in Workers : PlaceInv(v)
  BY DEF ReportsInv
<1>2. /\ Entries' = Entries /\ Workers' = Workers /\ Path' = Path /\ Paths' = Paths
      /\ JobSet' = JobSet
      /\ \A f : Blocked(f)' = Blocked(f) /\ Reported(f)' = Reported(f)
  BY InputSame DEF Workers, Reported
<1>3. TypeOK'
  BY <1>1, <1>2 DEF TypeOK
<1>4. DirsInv' /\ DistinctInv'
  BY <1>1, InputSame DEF DirsInv, DistinctInv, Workers
<1>5. \A v \in Workers : PlaceInv(v)'
  BY <1>1, <1>2, InputSame DEF PlaceInv, Exists, Directory
<1>6. ReportInv'
  BY <1>1, <1>2 DEF ReportInv, Reported
<1>7. CountInv'
  <2>1. Counted' = Counted
    BY <1>2 DEF Counted
  <2>2. QED
    BY <1>1, <1>2, <2>1 DEF CountInv
<1>8. QED
  BY <1>2, <1>3, <1>4, <1>5, <1>6, <1>7 DEF ReportsInv

\* The main thread returns when nobody has a job any more.
LEMMA ReturnReports ==
  ASSUME ReportsInv, Return PROVE ReportsInv'
<1>1. /\ added = Len(Path) /\ pending = {} /\ \A w \in Workers : job[w].pc = "idle"
      /\ result' = failed
      /\ UNCHANGED <<input, added, pending, job, files, dirs, handleless, buffer, failed, mutex, stderr>>
  BY DEF Return, At, disk, reports
<1>2. failed \in Nat
  BY DEF ReportsInv, TypeOK
<1>3. ResultInv'
  BY <1>1, InputSame DEF ResultInv, Workers
<1>4. QED
  BY <1>1, <1>2, <1>3, OnlyResult

-----------------------------------------------------------------------------
(* The reports: for every archive, on every system.                        *)

\* Nothing is reported before the first job.
LEMMA ReportsInitially == Init => ReportsInv
<1> SUFFICES ASSUME Init PROVE ReportsInv
  OBVIOUS
<1>1. /\ input \in Inputs /\ added = 0 /\ pending = {} /\ job = [w \in Workers |-> Idle]
      /\ buffer = [w \in Workers |-> <<>>] /\ files = [p \in Paths |-> Absent]
      /\ dirs = {<<>>} /\ failed = 0 /\ mutex = -1 /\ stderr = <<>> /\ result = -1
      /\ handleless = {}
  BY DEF Init
<1>2. Len(Path) \in Nat
  BY <1>1, ArchiveTypes
<1>3. Idle \in JobSet /\ Idle.pc = "idle" /\ Idle.entry = 0 /\ Idle.file = NoFile
  BY DEF Idle, JobSet, PCs
<1>4. \A S : <<>> \in Seq(S)
  BY EmptySeq
<1>5. \A w \in Workers : job[w] = Idle /\ buffer[w] = <<>>
  BY <1>1
<1>6. TypeOK
  <2>1. added \in 0 .. Len(Path) /\ pending \in SUBSET (1 .. added)
    BY <1>1, <1>2
  <2>2. job \in [Workers -> JobSet] /\ buffer \in [Workers -> Seq(Bytes)]
    BY <1>1, <1>3, <1>4
  <2>3. files \in [Paths -> Seq(Bytes) \cup {Absent}]
    BY <1>1
  <2>4. stderr \in Seq({"failed", "unterminated"} \X Nat)
    BY <1>1, <1>4
  <2>5. QED
    BY <1>1, <2>1, <2>2, <2>3, <2>4 DEF TypeOK
<1>7. DirsInv
  BY <1>1 DEF DirsInv
<1>8. \A w \in Workers : PlaceInv(w)
  BY <1>3, <1>5 DEF PlaceInv, Writes, Fails
<1>9. DistinctInv
  BY <1>3, <1>5 DEF DistinctInv
<1>10. \A e : ~Reported(e)
  BY <1>1 DEF Reported
<1>11. ReportInv
  BY <1>1, <1>3, <1>5, <1>10 DEF ReportInv
<1>12. CountInv
  <2>1. {e \in Entries : Reported(e)} = {} /\ Counted = {}
    BY <1>3, <1>5, <1>10 DEF Counted
  <2>2. Cardinality({e \in Entries : Reported(e)}) = 0 /\ Cardinality(Counted) = 0
    BY <2>1, FS_EmptySet
  <2>3. QED
    BY <1>1, <2>2 DEF CountInv
<1>13. ResultInv
  BY <1>1 DEF ResultInv, Returned
<1>14. QED
  BY <1>6, <1>7, <1>8, <1>9, <1>11, <1>12, <1>13 DEF ReportsInv

\* Every step keeps the invariant.
LEMMA ReportsInductive == ReportsInv /\ [Next]_vars => ReportsInv'
<1> SUFFICES ASSUME ReportsInv, [Next]_vars PROVE ReportsInv'
  OBVIOUS
<1>1. ASSUME NEW w \in Workers, Step(w) PROVE ReportsInv'
  <2>1. ASSUME NEW e \in Entries, Take(w, e) PROVE ReportsInv'
    BY <2>1, TakeReports
  <2>2. CASE OpenFirst(w) \/ CheckDirectory(w) \/ MakeDirectory(w) \/ DirectoryFails(w)
    BY <2>2, OpenFirstReports, CheckDirectoryReports, MakeDirectoryReports, DirectoryFailsReports
  <2>3. CASE OpenAgain(w) \/ Fail(w) \/ Lock(w) \/ Report(w) \/ Unlock(w)
    BY <2>3, OpenAgainReports, FailReports, LockReports, ReportReports, UnlockReports
  <2>4. CASE WriteBuffered(w) \/ WriteSpills(w) \/ WriteThrough(w)
    BY <2>4, WriteBufferedReports, WriteSpillsReports, WriteThroughReports
  <2>5. CASE Warn(w) \/ Flush(w) \/ Close(w)
    BY <2>5, WarnReports, FlushReports, CloseReports
  <2>6. QED
    BY <1>1, <2>1, <2>2, <2>3, <2>4, <2>5 DEF Step
<1>2. CASE UNCHANGED vars
  <2>1. UNCHANGED <<input, added, pending, job, files, dirs, handleless, buffer, failed, mutex, stderr, result>>
    BY <1>2 DEF vars
  <2>2. ResultInv' /\ result' \in Nat \cup {-1}
    BY <2>1, InputSame DEF ReportsInv, TypeOK, ResultInv, Returned, Workers
  <2>3. QED
    BY <2>1, <2>2, OnlyResult
<1>3. QED
  BY <1>1, <1>2, AddJobReports, ReturnReports DEF Next

\* The reports and the counter agree at all times, as far as the workers have got.
THEOREM ReportsInvariant == Spec => []ReportsInv
<1>1. Init => ReportsInv
  BY ReportsInitially
<1>2. ReportsInv /\ [Next]_vars => ReportsInv'
  BY ReportsInductive
<1>3. QED
  BY <1>1, <1>2, PTL DEF Spec

\* The failed entries are those with a message.
LEMMA FailedIsReported ==
  ASSUME ReportsInv
  PROVE  /\ FailedEntries = {e \in Entries : Reported(e)}
         /\ \A e \in Entries : Messages("failed", e) <= 1
<1>1. stderr \in Seq({"failed", "unterminated"} \X Nat) /\ ReportInv
  BY DEF ReportsInv, TypeOK
<1>2. IsFiniteSet(DOMAIN stderr)
  <2>1. DOMAIN stderr = 1 .. Len(stderr) /\ Len(stderr) \in Nat
    BY <1>1, LenProperties
  <2>2. QED
    BY <2>1, FS_Interval
<1>3. ASSUME NEW e \in Entries
      PROVE  (Messages("failed", e) > 0 <=> Reported(e)) /\ Messages("failed", e) <= 1
  <2> DEFINE S == {i \in DOMAIN stderr : stderr[i] = <<"failed", e>>}
  <2>1. IsFiniteSet(S) /\ S \subseteq DOMAIN stderr
    BY <1>2, FS_Subset
  <2>2. Messages("failed", e) = Cardinality(S) /\ (Reported(e) <=> S # {})
    BY DEF Messages, Reported
  <2>3. \A i, k \in S : i = k
    BY <1>1 DEF ReportInv
  <2> HIDE DEF S
  <2>4. CASE S = {}
    BY <2>2, <2>4, FS_EmptySet
  <2>5. CASE S # {}
    <3>1. PICK i : S = {i}
      BY <2>3, <2>5
    <3>2. Cardinality(S) = 1
      BY <3>1, FS_Singleton
    <3>3. QED
      BY <2>2, <2>5, <3>2
  <2>6. QED
    BY <2>4, <2>5
<1>4. QED
  BY <1>3 DEF FailedEntries

\* The exit status of textunpack_unpack is the number of entries with a message,
\* although the counter is raised before the message is written and read without
\* the mutex: whoever is between the two is not idle, and nobody is when it is read.
THEOREM ResultTheorem == Spec => []ResultCountsFailures
<1>1. ReportsInv => ResultCountsFailures
  <2> SUFFICES ASSUME ReportsInv, Returned PROVE result = Cardinality(FailedEntries)
    BY DEF ResultCountsFailures
  <2>1. TypeOK /\ CountInv /\ ResultInv
    BY DEF ReportsInv
  <2>2. Counted = {}
    BY <2>1 DEF ResultInv, Counted
  <2>3. Cardinality(Counted) = 0 /\ Cardinality({e \in Entries : Reported(e)}) \in Nat
    BY <2>1, <2>2, FS_EmptySet, CountedFinite
  <2>4. failed = Cardinality({e \in Entries : Reported(e)})
    BY <2>1, <2>3 DEF CountInv
  <2>5. QED
    BY <2>1, <2>4, FailedIsReported DEF ResultInv
<1>2. QED
  BY <1>1, ReportsInvariant, PTL

\* Jobs that make the same directories at the same time never make each other
\* fail: an entry that fails has a path that is too long or collides with another's.
THEOREM OnlyBlockedTheorem == Spec => []OnlyBlockedEntriesFail
<1>1. ReportsInv => OnlyBlockedEntriesFail
  BY FailedIsReported DEF OnlyBlockedEntriesFail, ReportsInv, ReportInv
<1>2. QED
  BY <1>1, ReportsInvariant, PTL

-----------------------------------------------------------------------------
(* The files: for every archive that gives no file two writers at a time.  *)

\* What is kept of an entry stays so.
LEMMA KeptSame ==
  ASSUME input' = input, NEW e, e \in cut' <=> e \in cut
  PROVE  \A s, n : Kept(s, e, n)' <=> Kept(s, e, n)
<1>1. Beginning(e)' = Beginning(e) /\ \A s, n : InOrder(s, e, n)' = InOrder(s, e, n)
  BY InputSame
<1>2. QED
  BY <1>1 DEF Kept

LEMMA HoldsSame ==
  ASSUME input' = input, NEW f, f \in cut' <=> f \in cut, NEW p, files'[p] = files[p], Holds(p, f)
  PROVE  Holds(p, f)'
<1>1. PICK s, n : s = files[p] /\ n = Len(input.fragments[f])
  OBVIOUS
<1>2. Kept(s, f, n)'
  BY <1>1, KeptSame DEF Holds
<1>3. QED
  BY <1>1, <1>2 DEF Holds

LEMMA WriterSame ==
  ASSUME input' = input, NEW v \in Workers, WriterInv(v), job'[v] = job[v], buffer'[v] = buffer[v],
         job[v].file # NoFile =>
           /\ files'[job[v].file] = files[job[v].file]
           /\ job[v].entry \in cut' <=> job[v].entry \in cut
  PROVE  WriterInv(v)'
<1>1. CASE job[v].file = NoFile
  BY <1>1 DEF WriterInv
<1>2. CASE job[v].file # NoFile
  <2>1. PICK e, s, t, n, m : /\ e = job[v].entry /\ s = files[job[v].file] \o buffer[v]
                             /\ t = files[job[v].file]
                             /\ n = job[v].n - 1 /\ m = Len(input.fragments[e])
    OBVIOUS
  <2>2. \A x, k : Kept(x, e, k)' <=> Kept(x, e, k)
    BY <1>2, <2>1, KeptSame
  <2>3. /\ job[v].pc = "write" => Kept(s, e, n)'
        /\ job[v].pc = "flush" => Kept(s, e, m)'
        /\ job[v].pc = "close" => Kept(t, e, m)'
    BY <1>2, <2>1, <2>2 DEF WriterInv
  <2>4. /\ job'[v].entry = e /\ files'[job'[v].file] \o buffer'[v] = s /\ files'[job'[v].file] = t
        /\ job'[v].n - 1 = n /\ Len(input'.fragments[e]) = m
    BY <1>2, <2>1
  <2>5. QED
    BY <1>2, <2>3, <2>4 DEF WriterInv
<1>3. QED
  BY <1>1, <1>2

\* A step of a worker that goes on with its entry and touches no other file.
LEMMA HolderStep ==
  ASSUME ReportsInv, ContentsInv, NEW w \in Workers,
         UNCHANGED <<input, added, pending>>,
         \A v \in Workers : v # w => job'[v] = job[v] /\ buffer'[v] = buffer[v],
         job'[w].entry = job[w].entry, job'[w].file = job[w].file,
         \A p \in Paths : p # job[w].file => files'[p] = files[p],
         \A p \in Paths : files[p] # Absent => files'[p] # Absent,
         \A f \in Entries : Done(f) => (Reported(f)' <=> Reported(f)),
         handleless \subseteq handleless', OnlyCut(job[w].entry),
         WriterInv(w)'
  PROVE  ContentsInv'
<1>1. /\ Solo(input) /\ HoldersInv /\ DiskInv /\ DoneInv
      /\ \A v \in Workers : WriterInv(v) /\ PlaceInv(v)
      /\ TypeOK /\ DistinctInv
  BY DEF ContentsInv, ReportsInv
<1>2. /\ Workers' = Workers /\ Entries' = Entries /\ Path' = Path /\ Paths' = Paths
  BY InputSame DEF Workers
<1>3. \A v \in Workers : job'[v].entry = job[v].entry /\ job'[v].file = job[v].file
  OBVIOUS
<1>4. \A f : Done(f)' <=> Done(f)
  BY <1>2, <1>3 DEF Done
<1>5. \A e \in Entries : Path[e] \in Paths
  BY DEF Paths
<1>6. HoldersInv'
  BY <1>1, <1>2, <1>3 DEF HoldersInv
<1>7. DiskInv'
  <2> SUFFICES ASSUME NEW p \in Paths, files'[p] # Absent
               PROVE  \/ \E v \in Workers : job'[v].file = p
                      \/ \E f \in Entries : /\ Path[f] = p /\ Done(f) /\ ~Reported(f)'
                                            /\ Holds(p, f)'
    BY <1>2, <1>4, Zenon DEF DiskInv
  <2>1. CASE p = job[w].file
    BY <1>3, <2>1
  <2>2. CASE p # job[w].file
    <3>1. files'[p] = files[p] /\ files[p] # Absent
      BY <2>2
    <3>2. \/ \E v \in Workers : job[v].file = p
          \/ \E f \in Entries : Path[f] = p /\ Done(f) /\ ~Reported(f) /\ Holds(p, f)
      BY <1>1, <3>1 DEF DiskInv
    <3>3. ASSUME NEW f \in Entries, Done(f), Holds(p, f) PROVE Holds(p, f)'
      <4>1. f # job[w].entry
        BY <3>3 DEF Done
      <4>2. f \in cut' <=> f \in cut
        BY <4>1 DEF OnlyCut
      <4>3. QED
        BY <3>1, <3>3, <4>2, HoldsSame
    <3>4. QED
      BY <1>3, <3>2, <3>3
  <2>3. QED
    BY <2>1, <2>2
<1>8. DoneInv'
  BY <1>1, <1>2, <1>4, <1>5 DEF DoneInv
<1>9. ASSUME NEW v \in Workers, v # w PROVE WriterInv(v)'
  <2>1. WriterInv(v) /\ job'[v] = job[v] /\ buffer'[v] = buffer[v]
    BY <1>1, <1>9
  <2>2. job[v].file # NoFile => files'[job[v].file] = files[job[v].file]
    <3>1. job[v].file # NoFile => job[v].file \in Paths /\ job[v].file # job[w].file
      BY <1>1, <1>9 DEF HoldersInv, TypeOK, JobSet
    <3>2. QED
      BY <3>1
  <2>3. job[v].file # NoFile => (job[v].entry \in cut' <=> job[v].entry \in cut)
    <3> SUFFICES ASSUME job[v].file # NoFile PROVE job[v].entry \in cut' <=> job[v].entry \in cut
      OBVIOUS
    <3>1. job[v].pc # "idle"
      BY <1>1 DEF PlaceInv, Writes
    <3>2. job[v].entry # 0
      BY <3>1, Mine
    <3>3. job[v].entry # job[w].entry
      BY <1>1, <1>9, <3>2 DEF DistinctInv
    <3>4. QED
      BY <3>3 DEF OnlyCut
  <2>4. QED
    BY <2>1, <2>2, <2>3, WriterSame
<1>10. \A v \in Workers : WriterInv(v)'
  BY <1>9
<1>11. Solo(input)'
  BY <1>1 DEF Solo
<1>12. QED
  BY <1>2, <1>6, <1>7, <1>8, <1>10, <1>11 DEF ContentsInv

\* A step of a worker without file that leaves the files alone.
LEMMA EmptyHandedStep ==
  ASSUME ReportsInv, ContentsInv, NEW w \in Workers, job[w].file = NoFile,
         UNCHANGED <<input, added, pending, files, cut>>, handleless \subseteq handleless',
         \A v \in Workers : v # w => job'[v] = job[v] /\ buffer'[v] = buffer[v],
         job'[w].entry = job[w].entry, job'[w].file = job[w].file,
         job'[w].pc \in {"open", "check", "mkdir", "reopen"} =>
           /\ job[w].pc \in {"open", "check", "mkdir", "reopen"}
           /\ job'[w].offset = job[w].offset,
         \A f \in Entries : Done(f) => (Reported(f)' <=> Reported(f))
  PROVE  ContentsInv'
<1>1. WriterInv(w)
  BY DEF ContentsInv
<1>2. WriterInv(w)'
  BY <1>1 DEF WriterInv
<1>3. OnlyCut(job[w].entry)
  BY DEF OnlyCut
<1>4. QED
  BY <1>2, <1>3, HolderStep

\* A worker that is finished with its entry.
LEMMA LeaveStep ==
  ASSUME ReportsInv, ContentsInv, NEW w \in Workers, job[w].pc \in {"unlock", "close"},
         UNCHANGED <<input, added, pending, files, cut, handleless, buffer, stderr>>,
         job' = [job EXCEPT ![w] = Idle]
  PROVE  ContentsInv'
<1>0. PICK e, file : e = job[w].entry /\ file = job[w].file
  OBVIOUS
<1>1. /\ Solo(input) /\ HoldersInv /\ DiskInv /\ DoneInv
      /\ \A v \in Workers : WriterInv(v)
      /\ TypeOK /\ PlaceInv(w) /\ ReportInv /\ DistinctInv
      /\ e \in Entries /\ e # 0 /\ e \in 1 .. added /\ e \notin pending
      /\ \A f \in Entries : f # 0
  <2>1. /\ job[w].pc # "idle" /\ TypeOK /\ \A f \in Entries : f # 0
    BY ArchiveTypes DEF ReportsInv, TypeOK
  <2>2. QED
    BY <1>0, <2>1, Mine DEF ContentsInv, ReportsInv
<1>2. /\ job'[w] = Idle /\ job'[w].pc = "idle" /\ job'[w].entry = 0 /\ job'[w].file = NoFile
      /\ \A v \in Workers : v # w => job'[v] = job[v]
  BY <1>1, IdleFacts
<1>3. /\ Workers' = Workers /\ Entries' = Entries /\ Path' = Path /\ Paths' = Paths
      /\ \A f : Reported(f)' = Reported(f)
      /\ \A p, f : Holds(p, f) => Holds(p, f)'
  BY InputSame, HoldsSame DEF Workers, Reported
<1>4. \A f \in Entries : Done(f)' <=> Done(f) \/ f = e
  <2>1. ASSUME NEW f \in Entries PROVE Done(f)' <=> Done(f) \/ f = e
    <3>1. CASE f = e
      BY <1>0, <1>1, <1>2, <1>3, <3>1 DEF Done, DistinctInv
    <3>2. CASE f # e
      BY <1>0, <1>1, <1>2, <1>3, <3>2 DEF Done
    <3>3. QED
      BY <3>1, <3>2
  <2>2. QED
    BY <2>1
<1>5. \/ file = NoFile /\ (Reported(e) \/ e \in handleless)
      \/ /\ file = Path[e] /\ files[file] # Absent /\ Holds(file, e)
         /\ ~Reported(e)
  <2>1. CASE job[w].pc = "unlock"
    BY <1>0, <1>1, <2>1 DEF PlaceInv, ReportInv, Writes
  <2>2. CASE job[w].pc = "close" /\ file = NoFile
    BY <1>0, <1>1, <2>2 DEF PlaceInv, Writes
  <2>3. CASE job[w].pc = "close" /\ file # NoFile
    <3>1. file = Path[e] /\ files[file] # Absent
      BY <1>0, <1>1, <2>3 DEF PlaceInv
    <3>2. Holds(file, e)
      BY <1>0, <1>1, <2>3 DEF WriterInv, Holds
    <3>3. ~Reported(e)
      BY <1>0, <1>1, <2>3 DEF ReportInv
    <3>4. QED
      BY <3>1, <3>2, <3>3
  <2>4. QED
    BY <2>1, <2>2, <2>3
<1>6. HoldersInv'
  BY <1>1, <1>2, <1>3 DEF HoldersInv
<1>7. DiskInv'
  <2> SUFFICES ASSUME NEW p \in Paths, files[p] # Absent
               PROVE  \/ \E v \in Workers : job'[v].file = p
                      \/ \E f \in Entries : /\ Path[f] = p /\ Done(f)' /\ ~Reported(f)
                                            /\ Holds(p, f)'
    BY <1>3, Zenon DEF DiskInv
  <2>1. CASE \E v \in Workers : job[v].file = p
    <3>1. PICK v \in Workers : job[v].file = p
      BY <2>1
    <3>2. CASE v # w
      BY <1>2, <3>1, <3>2
    <3>3. CASE v = w
      <4>1. p # NoFile
        BY <1>1, ArchiveTypes DEF TypeOK
      <4>2. QED
        BY <1>0, <1>1, <1>3, <1>4, <1>5, <3>1, <3>3, <4>1
    <3>4. QED
      BY <3>2, <3>3
  <2>2. CASE \E f \in Entries : Path[f] = p /\ Done(f) /\ ~Reported(f) /\ Holds(p, f)
    BY <1>3, <1>4, <2>2
  <2>3. QED
    BY <1>1, <2>1, <2>2 DEF DiskInv
<1>8. DoneInv'
  <2>1. Reported(e) \/ e \in handleless \/ files[Path[e]] # Absent
    BY <1>5
  <2>2. QED
    BY <1>1, <1>3, <1>4, <2>1 DEF DoneInv
<1>9. \A v \in Workers : WriterInv(v)'
  <2>1. WriterInv(w)'
    BY <1>2 DEF WriterInv
  <2>2. ASSUME NEW v \in Workers, v # w PROVE WriterInv(v)'
    <3>1. WriterInv(v) /\ job'[v] = job[v]
      BY <1>1, <1>2, <2>2
    <3>2. QED
      BY <3>1, WriterSame
  <2>3. QED
    BY <2>1, <2>2
<1>10. Solo(input)'
  BY <1>1 DEF Solo
<1>11. QED
  BY <1>3, <1>6, <1>7, <1>8, <1>9, <1>10 DEF ContentsInv

\* The file that is opened is nobody else's.
LEMMA OpenedContents ==
  ASSUME ReportsInv, ContentsInv, NEW w \in Workers, job[w].pc \in {"open", "reopen"},
         Opened(w)
  PROVE  ContentsInv'
<1>0. PICK e, path : e = MyEntry(w) /\ path = MyPath(w)
  OBVIOUS
<1>1. /\ job[w].pc # "idle" /\ CanOpen(path)
      /\ UNCHANGED <<input, added, pending, buffer, stderr, cut, handleless>>
      /\ files' = [files EXCEPT ![path] = <<>>]
      /\ job' = [job EXCEPT ![w].pc = "write", ![w].n = 1, ![w].file = path]
  BY <1>0 DEF Opened, driver, reports
<1>2. /\ Solo(input) /\ HoldersInv /\ DiskInv /\ DoneInv
      /\ \A v \in Workers : WriterInv(v) /\ PlaceInv(v)
      /\ DistinctInv /\ TypeOK
  BY DEF ContentsInv, ReportsInv
<1>3. /\ job \in [Workers -> JobSet] /\ job[w] \in JobSet
      /\ path \in Paths /\ e = job[w].entry /\ path = Path[e] /\ path # NoFile
      /\ e \in Entries /\ e # 0 /\ <<>> # Absent
  <2>1. <<>> # Absent
    BY MarkersAssumption, EmptySeq
  <2>2. QED
    BY <1>0, <1>1, <2>1, Mine
<1> DEFINE r == [job[w] EXCEPT !.pc = "write", !.n = 1, !.file = path]
<1>4. job' = [job EXCEPT ![w] = r]
  BY <1>1
<1>5. r.pc = "write" /\ r.n = 1 /\ r.file = path /\ r.entry = e /\ r.offset = job[w].offset
  BY <1>3 DEF JobSet
<1> HIDE DEF r
<1>6. job'[w] = r /\ \A v \in Workers : v # w => job'[v] = job[v]
  BY <1>3, <1>4
<1>7. \A v \in Workers : job[v].file # path
  <2> SUFFICES ASSUME NEW v \in Workers, job[v].file = path PROVE FALSE
    OBVIOUS
  <2>1. job[v].pc \in Writes /\ Path[job[v].entry] = path /\ job[v].pc # "idle" /\ v # w
    BY <1>2, <1>3 DEF PlaceInv, Writes
  <2>2. job[v].entry \in Entries /\ job[v].entry # e
    <3>1. job[v].entry \in Entries
      BY <2>1, Mine
    <3>2. QED
      BY <1>2, <1>3, <2>1, <3>1 DEF DistinctInv
  <2>3. input.exclusive
    BY <1>2, <1>3, <2>1, <2>2 DEF Solo, Entries, Path
  <2>4. QED
    BY <1>1, <2>3 DEF CanOpen, HolderOf
<1>8. /\ files \in [Paths -> Seq(Bytes) \cup {Absent}] /\ files'[path] = <<>>
      /\ \A p \in Paths : p # path => files'[p] = files[p]
  BY <1>1, <1>2, <1>3 DEF TypeOK
<1>9. /\ Workers' = Workers /\ Entries' = Entries /\ Path' = Path /\ Paths' = Paths
      /\ \A f : Reported(f)' = Reported(f)
      /\ \A s, f, n : InOrder(s, f, n)' = InOrder(s, f, n)
      /\ \A f : Beginning(f)' = Beginning(f)
  BY <1>1, InputSame DEF Workers, Reported
<1>10. \A f : Done(f)' <=> Done(f)
  BY <1>1, <1>3, <1>5, <1>6, <1>9 DEF Done
<1>11. HoldersInv'
  BY <1>2, <1>5, <1>6, <1>7, <1>9 DEF HoldersInv
<1>12. DiskInv'
  <2> SUFFICES ASSUME NEW p \in Paths, files'[p] # Absent
               PROVE  \/ \E v \in Workers : job'[v].file = p
                      \/ \E f \in Entries : /\ Path[f] = p /\ Done(f) /\ ~Reported(f)
                                            /\ Holds(p, f)'
    BY <1>9, <1>10, Zenon DEF DiskInv
  <2>1. CASE p = path
    BY <1>5, <1>6, <2>1
  <2>2. CASE p # path
    <3>1. files'[p] = files[p] /\ files[p] # Absent
      BY <1>8, <2>2
    <3>2. \/ \E v \in Workers : job[v].file = p
          \/ \E f \in Entries : Path[f] = p /\ Done(f) /\ ~Reported(f) /\ Holds(p, f)
      BY <1>2, <3>1 DEF DiskInv
    <3>3. job[w].file # p
      <4>1. job[w].file = NoFile
        BY <1>2 DEF PlaceInv, Writes
      <4>2. QED
        BY <1>2, <4>1, ArchiveTypes DEF TypeOK
    <3>4. \A f : Holds(p, f) => Holds(p, f)'
      BY <1>1, <3>1, HoldsSame
    <3>5. QED
      BY <1>6, <3>2, <3>3, <3>4
  <2>3. QED
    BY <2>1, <2>2
<1>13. DoneInv'
  <2>1. \A p \in Paths : files[p] # Absent => files'[p] # Absent
    BY <1>3, <1>8
  <2>2. \A f \in Entries : Path[f] \in Paths
    BY DEF Paths
  <2>3. QED
    BY <1>1, <1>2, <1>9, <1>10, <2>1, <2>2 DEF DoneInv
<1>14. WriterInv(w)'
  <2>1. buffer'[w] = <<>> /\ job[w].offset = 0
    BY <1>1, <1>2 DEF PlaceInv, WriterInv
  <2>2. Beginning(e)'[0] = <<>> /\ <<>> \o <<>> = <<>> /\ Len(<<>>) = 0
    <3>1. Beginning(e)[0] = <<>>
      BY <1>2, <1>3, Beginnings DEF TypeOK
    <3>2. <<>> \o <<>> = <<>> /\ Len(<<>>) = 0
      OBVIOUS
    <3>3. QED
      BY <1>9, <3>1, <3>2
  <2>3. job'[w].n - 1 = 0
    BY <1>5, <1>6
  <2>4. /\ job'[w].pc = "write" /\ job'[w].entry = e /\ job'[w].offset = 0
        /\ files'[job'[w].file] = <<>>
    BY <1>5, <1>6, <1>8, <2>1
  <2>5. InOrder(<<>>, e, 0)' /\ Kept(<<>>, e, 0)'
    <3>1. InOrder(<<>>, e, 0)
      BY DEF InOrder
    <3>2. QED
      BY <1>9, <2>2, <3>1 DEF Kept
  <2>6. QED
    BY <2>1, <2>2, <2>3, <2>4, <2>5 DEF WriterInv
<1>15. ASSUME NEW v \in Workers, v # w PROVE WriterInv(v)'
  <2>1. WriterInv(v) /\ job'[v] = job[v] /\ buffer'[v] = buffer[v]
    BY <1>1, <1>2, <1>6, <1>15
  <2>2. job[v].file # NoFile => files'[job[v].file] = files[job[v].file]
    <3>1. job[v].file # NoFile => job[v].file \in Paths /\ job[v].file # path
      BY <1>3, <1>7 DEF JobSet
    <3>2. QED
      BY <1>8, <3>1
  <2>3. QED
    BY <1>1, <2>1, <2>2, WriterSame
<1>16. (\A v \in Workers : WriterInv(v)') /\ Solo(input)'
  BY <1>1, <1>2, <1>14, <1>15 DEF Solo
<1>17. QED
  BY <1>9, <1>11, <1>12, <1>13, <1>16 DEF ContentsInv

-----------------------------------------------------------------------------
(* What is written.                                                        *)

\* The beginning of what is in order is.
LEMMA BeginningInOrder ==
  ASSUME NEW S, NEW s \in Seq(S), NEW t \in Seq(S), Prefix(t, s), NEW e, NEW n, InOrder(s, e, n)
  PROVE  InOrder(t, e, n)
<1>1. /\ DOMAIN s = 1 .. Len(s) /\ DOMAIN t = 1 .. Len(t) /\ Len(s) \in Nat /\ Len(t) \in Nat
  BY LenProperties
<1>2. \A k \in DOMAIN t : k \in DOMAIN s /\ t[k] = s[k]
  BY <1>1 DEF Prefix
<1>3. QED
  BY <1>2 DEF InOrder

\* What is in order with the next piece behind it is.
LEMMA PieceInOrder ==
  ASSUME input \in Inputs, NEW e \in Entries, NEW n \in 1 .. Len(input.fragments[e]),
         NEW s \in Seq(Bytes), InOrder(s, e, n - 1)
  PROVE  InOrder(s \o Piece(e, n), e, n)
<1> DEFINE piece == Piece(e, n)
           last == input.fragments[e][n]
<1>1. /\ n \in Nat /\ n - 1 \in Nat /\ Len(s) \in Nat
      /\ DOMAIN s = 1 .. Len(s)
  <2>1. Len(input.fragments[e]) \in Nat
    BY ArchiveTypes
  <2>2. QED
    BY <2>1, LenProperties
<1>2. piece \in Seq(Bytes) /\ Len(piece) = last /\ Len(piece) \in Nat
  BY PieceType, LenProperties
<1>3. \A i \in 1 .. last : piece[i] = <<e, n, i>>
  BY DEF Piece
<1>4. \A k \in 1 .. Len(s) : s[k] \in BytesOf(e, n - 1)
  BY <1>1 DEF InOrder
<1>5. \A x \in BytesOf(e, n - 1) : x \in BytesOf(e, n) /\ x[2] < n
  <2> SUFFICES ASSUME NEW m \in 1 .. n - 1, NEW i \in 1 .. input.fragments[e][m]
               PROVE  <<e, m, i>> \in BytesOf(e, n) /\ <<e, m, i>>[2] < n
    BY DEF BytesOf
  <2>1. m \in 1 .. n /\ m < n
    BY <1>1
  <2>2. QED
    BY <2>1 DEF BytesOf
<1>6. \A i \in 1 .. last : <<e, n, i>> \in BytesOf(e, n)
  <2>1. n \in 1 .. n
    BY <1>1
  <2>2. QED
    BY <2>1 DEF BytesOf
<1> HIDE DEF piece, last
<1> DEFINE t == s \o piece
<1>7. /\ t \in Seq(Bytes) /\ Len(t) = Len(s) + last
      /\ \A k \in 1 .. Len(s) + last : t[k] = IF k <= Len(s) THEN s[k] ELSE piece[k - Len(s)]
  BY <1>2, ConcatProperties
<1> HIDE DEF t
<1>8. DOMAIN t = 1 .. Len(s) + last
  BY <1>7, LenProperties
<1>9. \A k \in DOMAIN t : \/ k \in 1 .. Len(s) /\ t[k] = s[k]
                          \/ /\ k > Len(s) /\ k - Len(s) \in 1 .. last
                             /\ t[k] = <<e, n, k - Len(s)>>
  BY <1>1, <1>2, <1>3, <1>7, <1>8, SMTT(60)
<1>10. \A k \in DOMAIN t : t[k] \in BytesOf(e, n)
  BY <1>4, <1>5, <1>6, <1>9
<1>11. ASSUME NEW j \in DOMAIN t, NEW k \in DOMAIN t, j < k PROVE Before(t[j], t[k])
  <2>0. j \in Int /\ k \in Int
    BY <1>1, <1>2, <1>8
  <2>1. CASE k \in 1 .. Len(s) /\ t[k] = s[k]
    <3>1. j \in 1 .. Len(s) /\ t[j] = s[j]
      BY <1>1, <1>9, <1>11, <2>0, <2>1
    <3>2. QED
      BY <1>1, <1>11, <2>1, <3>1 DEF InOrder
  <2>2. CASE k > Len(s) /\ k - Len(s) \in 1 .. last /\ t[k] = <<e, n, k - Len(s)>>
    <3>1. t[k][2] = n /\ t[k][3] = k - Len(s)
      BY <2>2
    <3>2. CASE j \in 1 .. Len(s) /\ t[j] = s[j]
      <4>1. t[j][2] < n
        BY <1>4, <1>5, <3>2
      <4>2. QED
        BY <3>1, <4>1 DEF Before
    <3>3. CASE j > Len(s) /\ t[j] = <<e, n, j - Len(s)>>
      <4>1. t[j][2] = n /\ t[j][3] = j - Len(s)
        BY <3>3
      <4>2. j - Len(s) < k - Len(s)
        BY <1>1, <1>11, <2>0
      <4>3. QED
        BY <3>1, <4>1, <4>2 DEF Before
    <3>4. QED
      BY <1>9, <3>2, <3>3
  <2>3. QED
    BY <1>9, <2>1, <2>2
<1>12. InOrder(t, e, n)
  BY <1>10, <1>11 DEF InOrder
<1>13. QED
  BY <1>12 DEF t, piece

\* What the writer of a file knows about it.
LEMMA MyFile ==
  ASSUME ReportsInv, ContentsInv, NEW w \in Workers, job[w].pc \in {"write", "flush"},
         job[w].file # NoFile
  PROVE  /\ job[w].file \in Paths /\ files[job[w].file] \in Seq(Bytes)
         /\ buffer[w] \in Seq(Bytes)
         /\ job[w].offset = Len(files[job[w].file])
         /\ job[w].entry \in Entries /\ input \in Inputs
<1>1. /\ TypeOK /\ PlaceInv(w) /\ job[w] \in JobSet /\ buffer[w] \in Seq(Bytes)
      /\ job[w].entry \in Entries
  BY Mine
<1>2. job[w].file \in Paths /\ files[job[w].file] \in Seq(Bytes)
  BY <1>1 DEF PlaceInv, TypeOK, JobSet
<1>3. job[w].offset = Len(files[job[w].file])
  BY DEF ContentsInv, WriterInv
<1>4. QED
  BY <1>1, <1>2, <1>3 DEF TypeOK

\* The first k bytes of what a writer has to write are in its file.
LEMMA KeptWritten ==
  ASSUME ReportsInv, ContentsInv, NEW w \in Workers, job[w].pc \in {"write", "flush"},
         job[w].file # NoFile, input' = input,
         NEW data \in Seq(Bytes), NEW k \in 0 .. Len(data), WriteFile(w, data, k),
         NEW n, Kept(files[job[w].file] \o data, job[w].entry, n)
  PROVE  /\ files'[job[w].file] \in Seq(Bytes)
         /\ Len(files'[job[w].file]) = job[w].offset + k
         /\ \A e, t : e = job[w].entry /\ t = files'[job[w].file] => Kept(t, e, n)'
<1>1. PICK e, old, new, some : /\ e = job[w].entry /\ old = files[job[w].file]
                               /\ new = files'[job[w].file] /\ some = SubSeq(data, 1, k)
  OBVIOUS
<1>2. /\ old \in Seq(Bytes) /\ job[w].offset = Len(old) /\ TypeOK /\ PlaceInv(w)
      /\ e \in Entries /\ MyEntry(w) = e
  BY <1>1, MyFile DEF ReportsInv, MyEntry
<1>3. /\ some \in Seq(Bytes) /\ Len(some) = k /\ Len(data) \in Nat /\ Len(old) \in Nat
      /\ \A i \in 1 .. k : some[i] = data[i]
  <2>1. Len(data) \in Nat /\ Len(old) \in Nat /\ \A i \in 1 .. Len(data) : data[i] \in Bytes
    BY <1>2, LenProperties
  <2>2. 1 \in Int /\ k \in Int /\ k >= 0 /\ \A i \in 1 .. k : data[i] \in Bytes
    BY <2>1
  <2>3. /\ some \in Seq(Bytes)
        /\ Len(some) = IF 1 <= k THEN k - 1 + 1 ELSE 0
        /\ \A i \in 1 .. k - 1 + 1 : some[i] = data[1 + i - 1]
    BY <1>1, <2>2, SubSeqProperties
  <2>4. Len(some) = k /\ k - 1 + 1 = k /\ \A i \in 1 .. k : 1 + i - 1 = i
    BY <2>2, <2>3
  <2>5. QED
    BY <2>1, <2>3, <2>4
<1>4. new = old \o some
  <2>1. /\ new = IF k = 0 THEN old ELSE WrittenAt(old, Len(old), some)
    BY <1>1, <1>2, WriteFileFacts
  <2>2. CASE k = 0
    <3>1. some = <<>>
      BY <1>3, <2>2, EmptySeq
    <3>2. QED
      BY <1>2, <2>1, <2>2, <3>1, ConcatEmptySeq
  <2>3. CASE k # 0
    BY <1>2, <1>3, <2>1, <2>3, WrittenAtEnd
  <2>4. QED
    BY <2>2, <2>3
<1> DEFINE all == old \o data
<1>5. /\ new \in Seq(Bytes) /\ Len(new) = Len(old) + k
      /\ \A i \in 1 .. Len(old) + k : new[i] = IF i <= Len(old) THEN old[i] ELSE some[i - Len(old)]
  BY <1>2, <1>3, <1>4, ConcatProperties
<1>6. /\ all \in Seq(Bytes) /\ Len(all) = Len(old) + Len(data)
      /\ \A i \in 1 .. Len(old) + Len(data) :
           all[i] = IF i <= Len(old) THEN old[i] ELSE data[i - Len(old)]
  BY <1>2, ConcatProperties
<1> HIDE DEF all
<1>7. Prefix(new, all)
  <2>1. Len(new) <= Len(all)
    BY <1>3, <1>5, <1>6
  <2>2. ASSUME NEW i \in 1 .. Len(new) PROVE new[i] = all[i]
    <3>1. i \in 1 .. Len(old) + k /\ i \in 1 .. Len(old) + Len(data) /\ i \in Int
      BY <1>3, <1>5, <2>2
    <3>2. CASE i <= Len(old)
      BY <1>5, <1>6, <3>1, <3>2
    <3>3. CASE ~(i <= Len(old))
      <4>1. i - Len(old) \in 1 .. k
        BY <1>3, <3>1, <3>3
      <4>2. QED
        BY <1>3, <1>5, <1>6, <3>1, <3>3, <4>1
    <3>4. QED
      BY <3>2, <3>3
  <2>3. QED
    BY <2>1, <2>2 DEF Prefix
<1>8. InOrder(all, e, n) /\ (e \notin cut => all = Beginning(e)[n])
  BY <1>1 DEF Kept, all
<1>9. InOrder(new, e, n)
  BY <1>5, <1>6, <1>7, <1>8, BeginningInOrder
<1>10. e \notin cut' => new = Beginning(e)[n]
  <2>1. CASE k = Len(data)
    <3>1. new = all
      BY <1>5, <1>6, <1>7, <2>1, SeqEqual DEF Prefix
    <3>2. cut' = cut
      BY <2>1 DEF WriteFile
    <3>3. QED
      BY <1>8, <3>1, <3>2
  <2>2. CASE k # Len(data)
    BY <1>2, <2>2 DEF WriteFile
  <2>3. QED
    BY <2>1, <2>2
<1>11. Kept(new, e, n)'
  <2>1. InOrder(new, e, n)' /\ Beginning(e)' = Beginning(e)
    BY <1>9, InputSame
  <2>2. QED
    BY <1>10, <2>1 DEF Kept
<1>12. QED
  BY <1>1, <1>2, <1>5, <1>11

\* A write is no other entry's.
LEMMA WriteCuts ==
  ASSUME NEW w \in Workers, NEW data, NEW k, WriteFile(w, data, k)
  PROVE  OnlyCut(job[w].entry)
BY DEF WriteFile, OnlyCut, MyEntry

\* One more piece of the entry.
LEMMA NextKept ==
  ASSUME ReportsInv, ContentsInv, NEW w \in Workers, Writing(w), job[w].file # NoFile
  PROVE  LET e == job[w].entry
             n == job[w].n
         IN  /\ n \in Nat
             /\ Kept(files[job[w].file] \o (buffer[w] \o Piece(e, n)), e, n)
<1>0. PICK e, n, old, mine : /\ e = job[w].entry /\ n = job[w].n
                             /\ old = files[job[w].file] /\ mine = buffer[w]
  OBVIOUS
<1>1. /\ job[w].pc = "write" /\ job[w].pc # "idle" /\ n \in 1 .. Len(input.fragments[e])
      /\ Piece(e, n) \in Seq(Bytes)
  BY <1>0, NextPiece
<1>2. old \in Seq(Bytes) /\ mine \in Seq(Bytes) /\ old \o mine \in Seq(Bytes)
  <2>1. old \in Seq(Bytes) /\ mine \in Seq(Bytes)
    BY <1>0, <1>1, MyFile
  <2>2. QED
    BY <2>1, ConcatProperties
<1>3. e \in Entries /\ input \in Inputs /\ Len(input.fragments[e]) \in Nat
  BY <1>0, <1>1, Mine DEF TypeOK
<1>4. Kept(old \o mine, e, n - 1)
  BY <1>0, <1>1 DEF ContentsInv, WriterInv
<1>5. Beginning(e)[n] = Beginning(e)[n - 1] \o Piece(e, n)
  BY <1>1, <1>3, Beginnings
<1>6. (old \o mine) \o Piece(e, n) = old \o (mine \o Piece(e, n))
  BY <1>1, <1>2, ConcatAssociative
<1>7. n \in Nat
  BY <1>1, <1>3
<1>8. InOrder((old \o mine) \o Piece(e, n), e, n)
  BY <1>1, <1>2, <1>3, <1>4, PieceInOrder DEF Kept
<1>9. Kept((old \o mine) \o Piece(e, n), e, n)
  BY <1>4, <1>5, <1>8 DEF Kept
<1>10. QED
  BY <1>0, <1>6, <1>7, <1>9

\* What a worker has of its file after a step.
LEMMA StillWrites ==
  ASSUME NEW w \in Workers, NEW e, NEW n, NEW s, NEW t, Kept(s, e, n)',
         job'[w].pc \in {"write", "flush"}, job'[w].entry = e, job'[w].file # NoFile,
         t = files'[job'[w].file], s = t \o buffer'[w], job'[w].offset = Len(t),
         job'[w].pc = "write" => job'[w].n - 1 = n,
         job'[w].pc = "flush" => Len(input.fragments[e])' = n
  PROVE  WriterInv(w)'
BY DEF WriterInv

\* The piece waits in the buffer.
LEMMA WriteBufferedContents ==
  ASSUME ReportsInv, ContentsInv, NEW w \in Workers, WriteBuffered(w) PROVE ContentsInv'
<1>0. PICK e, n, file : e = job[w].entry /\ n = job[w].n /\ file = job[w].file
  OBVIOUS
<1> DEFINE r == [job[w] EXCEPT !.n = n + 1]
           data == buffer[w] \o Piece(e, n)
<1>1. /\ Writing(w) /\ job[w].pc = "write" /\ job[w].pc # "idle"
      /\ UNCHANGED <<input, files, cut, handleless, added, pending, stderr>>
      /\ buffer' = [buffer EXCEPT ![w] = data]
      /\ job' = [job EXCEPT ![w] = r]
  BY <1>0 DEF WriteBuffered, Writing, At, disk, driver, reports, MyEntry
<1>2. /\ job \in [Workers -> JobSet] /\ job[w] \in JobSet /\ buffer \in [Workers -> Seq(Bytes)]
  BY <1>1, Mine
<1>3. r.pc = "write" /\ r.n = n + 1 /\ r.entry = e /\ r.file = file /\ r.offset = job[w].offset
  BY <1>0, <1>1, <1>2 DEF JobSet
<1> HIDE DEF r, data
<1>4. /\ job'[w] = r /\ buffer'[w] = data
      /\ \A v \in Workers : v # w => job'[v] = job[v] /\ buffer'[v] = buffer[v]
  BY <1>1, <1>2
<1>5. (\A f : Reported(f)' <=> Reported(f)) /\ OnlyCut(job[w].entry)
  BY <1>1 DEF Reported, OnlyCut
<1>6. WriterInv(w)'
  <2>1. CASE file = NoFile
    BY <1>3, <1>4, <2>1 DEF WriterInv
  <2>2. CASE file # NoFile
    <3>1. PICK t, s : t = files[file] /\ s = t \o data
      OBVIOUS
    <3>2. n \in Nat /\ Kept(s, e, n)
      BY <1>0, <1>1, <2>2, <3>1, NextKept DEF data
    <3>3. job[w].offset = Len(t)
      BY <1>0, <1>1, <2>2, <3>1, MyFile
    <3>4. Kept(s, e, n)'
      BY <1>1, <3>2, KeptSame
    <3>5. job'[w].pc = "write" /\ job'[w].entry = e /\ job'[w].file = file
          /\ job'[w].n = n + 1 /\ job'[w].offset = job[w].offset /\ buffer'[w] = data
      BY <1>3, <1>4
    <3>6. job'[w].n - 1 = n
      BY <3>2, <3>5
    <3>7. job'[w].file # NoFile /\ t = files'[job'[w].file] /\ job'[w].offset = Len(t)
      BY <1>1, <2>2, <3>1, <3>3, <3>5
    <3>8. s = t \o buffer'[w]
      BY <3>1, <3>5
    <3>9. QED
      BY <3>4, <3>5, <3>6, <3>7, <3>8, StillWrites
  <2>3. QED
    BY <2>1, <2>2
<1>7. QED
  BY <1>0, <1>1, <1>3, <1>4, <1>5, <1>6, HolderStep

\* The buffer goes to the end of the file, or the beginning of it does.
LEMMA WriteSpillsContents ==
  ASSUME ReportsInv, ContentsInv, NEW w \in Workers, WriteSpills(w) PROVE ContentsInv'
<1>0. PICK e, n, file, mine : /\ e = job[w].entry /\ n = job[w].n /\ file = job[w].file
                              /\ mine = buffer[w]
  OBVIOUS
<1>k. PICK k \in 0 .. Len(mine) : WriteFile(w, mine, k) /\ job' = [job EXCEPT ![w].offset = @ + k]
  BY <1>0 DEF WriteSpills
<1> DEFINE r == [job[w] EXCEPT !.offset = job[w].offset + k]
<1>1. /\ Writing(w) /\ job[w].pc = "write" /\ job[w].pc # "idle"
      /\ UNCHANGED <<input, handleless, added, pending, stderr>>
      /\ buffer' = [buffer EXCEPT ![w] = <<>>]
      /\ job' = [job EXCEPT ![w] = r]
  BY <1>0, <1>k DEF WriteSpills, Writing, At, driver, reports
<1>2. /\ job \in [Workers -> JobSet] /\ job[w] \in JobSet /\ buffer \in [Workers -> Seq(Bytes)]
      /\ mine \in Seq(Bytes) /\ TypeOK /\ PlaceInv(w)
  BY <1>0, <1>1, Mine
<1>3. /\ r.pc = "write" /\ r.n = n /\ r.entry = e /\ r.file = file
      /\ r.offset = job[w].offset + k
  BY <1>0, <1>1, <1>2 DEF JobSet
<1> HIDE DEF r
<1>4. /\ job'[w] = r /\ buffer'[w] = <<>>
      /\ \A v \in Workers : v # w => job'[v] = job[v] /\ buffer'[v] = buffer[v]
  BY <1>1, <1>2
<1>5. (\A f : Reported(f)' <=> Reported(f)) /\ OnlyCut(job[w].entry)
  BY <1>1, <1>k, WriteCuts DEF Reported
<1>6. /\ \A p \in Paths : files[p] # Absent => files'[p] # Absent
      /\ \A p \in Paths : p # job[w].file => files'[p] = files[p]
  BY <1>0, <1>1, <1>2, <1>k, WriteFileFacts
<1>7. WriterInv(w)'
  <2>1. CASE file = NoFile
    BY <1>3, <1>4, <2>1 DEF WriterInv
  <2>2. CASE file # NoFile
    <3>1. PICK t : t = files'[file]
      OBVIOUS
    <3>2. Kept(files[file] \o mine, e, n - 1)
      BY <1>0, <1>1, <2>2 DEF ContentsInv, WriterInv
    <3>3. t \in Seq(Bytes) /\ Len(t) = job[w].offset + k /\ Kept(t, e, n - 1)'
      BY <1>0, <1>1, <1>2, <1>k, <2>2, <3>1, <3>2, KeptWritten
    <3>4. t = t \o <<>>
      BY <3>3, ConcatEmptySeq
    <3>5. /\ job'[w].pc = "write" /\ job'[w].n = n /\ job'[w].entry = e
          /\ job'[w].file # NoFile /\ t = files'[job'[w].file] /\ t = t \o buffer'[w]
          /\ job'[w].offset = Len(t)
      BY <1>3, <1>4, <2>2, <3>1, <3>3, <3>4
    <3>6. QED
      BY <3>3, <3>5, StillWrites
  <2>3. QED
    BY <2>1, <2>2
<1>8. QED
  BY <1>0, <1>1, <1>3, <1>4, <1>5, <1>6, <1>7, HolderStep

\* The piece goes to the end of the file; there is nothing in between.
LEMMA WriteThroughContents ==
  ASSUME ReportsInv, ContentsInv, NEW w \in Workers, WriteThrough(w) PROVE ContentsInv'
<1>0. PICK e, n, file : e = job[w].entry /\ n = job[w].n /\ file = job[w].file
  OBVIOUS
<1> DEFINE data == Piece(e, n)
<1>k. PICK k \in 0 .. Len(data) :
        WriteFile(w, data, k) /\ job' = [job EXCEPT ![w].n = @ + 1, ![w].offset = @ + k]
  BY <1>0 DEF WriteThrough, MyEntry
<1> DEFINE r == [job[w] EXCEPT !.n = n + 1, !.offset = job[w].offset + k]
<1>1. /\ Writing(w) /\ job[w].pc = "write" /\ job[w].pc # "idle"
      /\ UNCHANGED <<input, handleless, added, pending, stderr, buffer>>
      /\ buffer[w] = <<>>
      /\ job' = [job EXCEPT ![w] = r]
  BY <1>0, <1>k DEF WriteThrough, Writing, At, driver, reports, MyEntry
<1>2. /\ job \in [Workers -> JobSet] /\ job[w] \in JobSet
      /\ data \in Seq(Bytes) /\ TypeOK /\ PlaceInv(w)
  BY <1>0, <1>1, Mine, NextPiece
<1>3. /\ r.pc = "write" /\ r.n = n + 1 /\ r.entry = e /\ r.file = file
      /\ r.offset = job[w].offset + k
  BY <1>0, <1>1, <1>2 DEF JobSet
<1> HIDE DEF r, data
<1>4. /\ job'[w] = r
      /\ \A v \in Workers : v # w => job'[v] = job[v] /\ buffer'[v] = buffer[v]
  BY <1>1, <1>2
<1>5. (\A f : Reported(f)' <=> Reported(f)) /\ OnlyCut(job[w].entry)
  BY <1>1, <1>k, WriteCuts DEF Reported
<1>6. /\ \A p \in Paths : files[p] # Absent => files'[p] # Absent
      /\ \A p \in Paths : p # job[w].file => files'[p] = files[p]
  BY <1>0, <1>1, <1>2, <1>k, WriteFileFacts
<1>7. WriterInv(w)'
  <2>1. CASE file = NoFile
    BY <1>3, <1>4, <2>1 DEF WriterInv
  <2>2. CASE file # NoFile
    <3>1. PICK t : t = files'[file]
      OBVIOUS
    <3>2. <<>> \o data = data
      BY <1>2, ConcatEmptySeq
    <3>3. n \in Nat /\ Kept(files[file] \o data, e, n)
      BY <1>0, <1>1, <2>2, <3>2, NextKept DEF data
    <3>4. t \in Seq(Bytes) /\ Len(t) = job[w].offset + k /\ Kept(t, e, n)'
      BY <1>0, <1>1, <1>2, <1>k, <2>2, <3>1, <3>3, KeptWritten
    <3>5. t = t \o <<>>
      BY <3>4, ConcatEmptySeq
    <3>6. /\ job'[w].pc = "write" /\ job'[w].n - 1 = n /\ job'[w].entry = e
          /\ job'[w].file # NoFile /\ t = files'[job'[w].file] /\ t = t \o buffer'[w]
          /\ job'[w].offset = Len(t)
      BY <1>1, <1>3, <1>4, <2>2, <3>1, <3>3, <3>4, <3>5
    <3>7. QED
      BY <3>4, <3>6, StillWrites
  <2>3. QED
    BY <2>1, <2>2
<1>8. QED
  BY <1>0, <1>1, <1>3, <1>4, <1>5, <1>6, <1>7, HolderStep

\* After the last piece file and buffer together are what is kept of the entry.
LEMMA WarnContents ==
  ASSUME ReportsInv, ContentsInv, NEW w \in Workers, Warn(w) PROVE ContentsInv'
<1>0. PICK e, n, file : e = job[w].entry /\ n = job[w].n /\ file = job[w].file
  OBVIOUS
<1>1. /\ ~Writing(w) /\ job[w].pc = "write" /\ job[w].pc # "idle"
      /\ UNCHANGED <<input, files, cut, handleless, added, pending, buffer>>
      /\ stderr' = (IF e \in input.open_ended THEN Append(stderr, <<"unterminated", e>>) ELSE stderr)
      /\ Goto(w, "flush") /\ "flush" \in PCs
  BY <1>0 DEF Warn, At, disk, driver, PCs, MyEntry
<1>2. /\ job[w] \in JobSet /\ TypeOK /\ PlaceInv(w) /\ e \in Nat
      /\ Len(input.fragments[e]) \in Nat
  BY <1>0, <1>1, Mine
<1>3. /\ job' \in [Workers -> JobSet] /\ job'[w] = [job[w] EXCEPT !.pc = "flush"]
      /\ \A v \in Workers : v # w => job'[v] = job[v]
  BY <1>1, <1>2, GotoFacts
<1>4. /\ job'[w].pc = "flush" /\ job'[w].entry = e /\ job'[w].file = file
      /\ job'[w].offset = job[w].offset
  BY <1>0, <1>2, <1>3 DEF JobSet
<1>5. \A f \in Entries : Reported(f)' <=> Reported(f)
  <2>1. CASE e \in input.open_ended
    <3>1. /\ <<"unterminated", e>> \in {"failed", "unterminated"} \X Nat
          /\ stderr' = Append(stderr, <<"unterminated", e>>)
      BY <1>1, <1>2, <2>1
    <3>2. \A f : Reported(f)' <=> Reported(f) \/ <<"unterminated", e>> = <<"failed", f>>
      BY <1>2, <3>1, Message
    <3>3. \A f : <<"unterminated", e>> # <<"failed", f>>
      OBVIOUS
    <3>4. QED
      BY <3>2, <3>3
  <2>2. CASE e \notin input.open_ended
    BY <1>1, <2>2 DEF Reported
  <2>3. QED
    BY <2>1, <2>2
<1>6. WriterInv(w)'
  <2>1. CASE file = NoFile
    BY <1>4, <2>1 DEF WriterInv
  <2>2. CASE file # NoFile
    <3>1. n - 1 = Len(input.fragments[e])
      <4>1. n \in 1 .. Len(input.fragments[e]) + 1 /\ ~(n <= Len(input.fragments[e]))
        BY <1>0, <1>1, <1>2 DEF PlaceInv, Writing, At, MyEntry
      <4>2. QED
        BY <1>2, <4>1
    <3>2. PICK t, s, m : t = files[file] /\ s = t \o buffer[w] /\ m = n - 1
      OBVIOUS
    <3>3. Kept(s, e, m) /\ job[w].offset = Len(t)
      BY <1>0, <1>1, <2>2, <3>2 DEF ContentsInv, WriterInv
    <3>4. Kept(s, e, m)'
      BY <1>1, <3>3, KeptSame
    <3>5. /\ job'[w].pc = "flush" /\ job'[w].entry = e /\ job'[w].file # NoFile
          /\ t = files'[job'[w].file] /\ s = t \o buffer'[w] /\ job'[w].offset = Len(t)
          /\ Len(input.fragments[e])' = m
      BY <1>1, <1>4, <2>2, <3>1, <3>2, <3>3
    <3>6. QED
      BY <3>4, <3>5, StillWrites
  <2>3. QED
    BY <2>1, <2>2
<1>7. OnlyCut(job[w].entry)
  BY <1>1 DEF OnlyCut
<1>8. QED
  BY <1>0, <1>1, <1>3, <1>4, <1>5, <1>6, <1>7, HolderStep

\* The last of the buffer.
LEMMA FlushContents ==
  ASSUME ReportsInv, ContentsInv, NEW w \in Workers, Flush(w) PROVE ContentsInv'
<1>0. PICK e, file, mine : /\ e = job[w].entry /\ file = job[w].file
                           /\ mine = buffer[w]
  OBVIOUS
<1>k. PICK k \in 0 .. Len(mine) : WriteFile(w, mine, k)
  BY <1>0 DEF Flush
<1>1. /\ job[w].pc = "flush" /\ job[w].pc # "idle"
      /\ UNCHANGED <<input, handleless, added, pending, stderr>>
      /\ buffer' = [buffer EXCEPT ![w] = <<>>]
      /\ Goto(w, "close") /\ "close" \in PCs
  BY <1>0 DEF Flush, At, driver, reports, PCs
<1>2. /\ job[w] \in JobSet /\ buffer \in [Workers -> Seq(Bytes)]
      /\ mine \in Seq(Bytes) /\ TypeOK /\ PlaceInv(w)
  BY <1>0, <1>1, Mine
<1>3. /\ job' \in [Workers -> JobSet] /\ job'[w] = [job[w] EXCEPT !.pc = "close"]
      /\ \A v \in Workers : v # w => job'[v] = job[v]
  BY <1>1, <1>2, GotoFacts
<1>4. job'[w].pc = "close" /\ job'[w].entry = e /\ job'[w].file = file
  BY <1>0, <1>2, <1>3 DEF JobSet
<1>5. \A v \in Workers : v # w => job'[v] = job[v] /\ buffer'[v] = buffer[v]
  BY <1>1, <1>2, <1>3
<1>6. (\A f : Reported(f)' <=> Reported(f)) /\ OnlyCut(job[w].entry)
  BY <1>1, <1>k, WriteCuts DEF Reported
<1>7. /\ \A p \in Paths : files[p] # Absent => files'[p] # Absent
      /\ \A p \in Paths : p # job[w].file => files'[p] = files[p]
  BY <1>0, <1>1, <1>2, <1>k, WriteFileFacts
<1>8. WriterInv(w)'
  <2>1. CASE file = NoFile
    BY <1>4, <2>1 DEF WriterInv
  <2>2. CASE file # NoFile
    <3>1. PICK t, m : t = files'[file] /\ m = Len(input.fragments[e])
      OBVIOUS
    <3>2. Kept(files[file] \o mine, e, m)
      BY <1>0, <1>1, <2>2, <3>1 DEF ContentsInv, WriterInv
    <3>3. Kept(t, e, m)'
      BY <1>0, <1>1, <1>2, <1>k, <2>2, <3>1, <3>2, KeptWritten
    <3>4. Len(input.fragments[e])' = m
      BY <1>1, <3>1
    <3>5. QED
      BY <1>4, <3>1, <3>3, <3>4 DEF WriterInv
  <2>3. QED
    BY <2>1, <2>2
<1>9. QED
  BY <1>0, <1>1, <1>4, <1>5, <1>6, <1>7, <1>8, HolderStep

-----------------------------------------------------------------------------
(* Everything before the file is open, or without it.                      *)

\* A worker on its way to a file, or to a report, has none.
LEMMA NoFileYet ==
  ASSUME ReportsInv, NEW w \in Workers, job[w].pc \notin Writes
  PROVE  job[w].file = NoFile /\ TypeOK /\ job[w] \in JobSet
BY DEF ReportsInv, PlaceInv, TypeOK

\* A step of such a worker to another place.
LEMMA WalkStep ==
  ASSUME ReportsInv, ContentsInv, NEW w \in Workers, job[w].pc \notin Writes,
         UNCHANGED <<input, added, pending, files, cut, handleless, buffer>>,
         NEW pc \in PCs, Goto(w, pc), pc \notin {"open", "check", "mkdir", "reopen"}
                                      \/ job[w].pc \in {"open", "check", "mkdir", "reopen"},
         \A f \in Entries : Done(f) => (Reported(f)' <=> Reported(f))
  PROVE  ContentsInv'
<1>1. job[w].file = NoFile /\ TypeOK /\ job[w] \in JobSet
  BY NoFileYet
<1>2. /\ job'[w] = [job[w] EXCEPT !.pc = pc]
      /\ \A v \in Workers : v # w => job'[v] = job[v]
  BY <1>1, GotoFacts
<1>3. /\ job'[w].pc = pc /\ job'[w].entry = job[w].entry /\ job'[w].file = job[w].file
      /\ job'[w].offset = job[w].offset
  BY <1>1, <1>2 DEF JobSet
<1>4. QED
  BY <1>1, <1>2, <1>3, EmptyHandedStep

\* The walk that makes directories.
LEMMA WalkContents ==
  ASSUME ReportsInv, ContentsInv, NEW w \in Workers,
         \/ CheckDirectory(w) \/ MakeDirectory(w) \/ DirectoryFails(w)
  PROVE  ContentsInv'
<1>1. /\ job[w].pc \in {"check", "mkdir"} /\ job[w].pc \notin Writes
      /\ UNCHANGED <<input, files, cut, added, pending, buffer, stderr>>
      /\ handleless \subseteq handleless'
      /\ \E pc, n : job' = [job EXCEPT ![w] = [job[w] EXCEPT !.pc = pc, !.n = n]]
  <2>1. CASE CheckDirectory(w)
    <3>1. PICK pc : pc = IF Directory(MyPath(w)) \in dirs THEN "reopen" ELSE "mkdir"
      OBVIOUS
    <3>2. job' = [job EXCEPT ![w] = [job[w] EXCEPT !.pc = pc, !.n = 1]]
      BY <2>1, <3>1 DEF CheckDirectory
    <3>3. QED
      BY <2>1, <3>2 DEF CheckDirectory, At, Writes, disk, driver, reports
  <2>2. CASE MakeDirectory(w)
    <3>1. PICK pc : pc = IF job[w].n + 1 < Len(MyPath(w)) THEN "mkdir" ELSE "reopen"
      OBVIOUS
    <3>2. job' = [job EXCEPT ![w] = [job[w] EXCEPT !.pc = pc, !.n = job[w].n + 1]]
      BY <2>2, <3>1 DEF MakeDirectory
    <3>3. QED
      BY <2>2, <3>2 DEF MakeDirectory, At, Writes, driver, reports
  <2>3. CASE DirectoryFails(w)
    <3>1. job' = [job EXCEPT ![w] = [job[w] EXCEPT !.pc = "write", !.n = 1]]
      BY <2>3 DEF DirectoryFails
    <3>2. QED
      BY <2>3, <3>1 DEF DirectoryFails, At, Writes, driver, reports
  <2>4. QED
    BY <2>1, <2>2, <2>3
<1>2. /\ job[w].file = NoFile /\ TypeOK /\ job[w] \in JobSet
      /\ job \in [Workers -> JobSet]
  BY <1>1, NoFileYet DEF TypeOK
<1>3. PICK pc, n : job' = [job EXCEPT ![w] = [job[w] EXCEPT !.pc = pc, !.n = n]]
  BY <1>1
<1> DEFINE r == [job[w] EXCEPT !.pc = pc, !.n = n]
<1>4. r.entry = job[w].entry /\ r.file = job[w].file /\ r.offset = job[w].offset
  BY <1>2 DEF JobSet
<1> HIDE DEF r
<1>5. job'[w] = r /\ \A v \in Workers : v # w => job'[v] = job[v]
  BY <1>2, <1>3 DEF r
<1>6. \A f : Reported(f)' <=> Reported(f)
  BY <1>1 DEF Reported
<1>7. QED
  BY <1>1, <1>2, <1>4, <1>5, <1>6, EmptyHandedStep

\* Both attempts to open the file.
LEMMA OpenContents ==
  ASSUME ReportsInv, ContentsInv, NEW w \in Workers, OpenFirst(w) \/ OpenAgain(w)
  PROVE  ContentsInv'
<1>1. job[w].pc \in {"open", "reopen"} /\ job[w].pc \notin Writes
  BY DEF OpenFirst, OpenAgain, At, Writes
<1>2. CASE Opened(w)
  BY <1>1, <1>2, OpenedContents
<1>3. ASSUME NEW pc \in {"check", "fail"}, Goto(w, pc),
             UNCHANGED <<disk, driver, buffer, reports>>
      PROVE  ContentsInv'
  <2>1. UNCHANGED <<input, added, pending, files, cut, handleless, buffer, stderr>> /\ pc \in PCs
    BY <1>3 DEF disk, driver, reports, PCs
  <2>2. \A f : Reported(f)' <=> Reported(f)
    BY <2>1 DEF Reported
  <2>3. job[w].pc \in {"open", "check", "mkdir", "reopen"}
    BY <1>1
  <2>4. QED
    BY <1>1, <1>3, <2>1, <2>2, <2>3, WalkStep
<1>4. QED
  BY <1>2, <1>3 DEF OpenFirst, OpenAgain

\* A failed entry on its way to the standard error.
LEMMA FailedContents ==
  ASSUME ReportsInv, ContentsInv, NEW w \in Workers, Fail(w) \/ Lock(w) \/ Report(w)
  PROVE  ContentsInv'
<1>1. /\ job[w].pc \in {"fail", "lock", "report"} /\ job[w].pc \notin Writes
      /\ UNCHANGED <<input, added, pending, files, cut, handleless, buffer>>
      /\ \E pc \in {"lock", "report", "unlock"} : Goto(w, pc)
  BY DEF Fail, Lock, Report, At, Writes, disk, driver
<1>2. ASSUME NEW f \in Entries, Done(f) PROVE Reported(f)' <=> Reported(f)
  <2>1. CASE Report(w)
    <3>1. TypeOK /\ MyEntry(w) \in Nat /\ MyEntry(w) = job[w].entry
      BY <1>1, Mine
    <3>2. <<"failed", MyEntry(w)>> \in {"failed", "unterminated"} \X Nat
      BY <3>1
    <3>3. Reported(f)' <=> Reported(f) \/ <<"failed", MyEntry(w)>> = <<"failed", f>>
      BY <2>1, <3>1, <3>2, Message DEF Report
    <3>4. f # MyEntry(w)
      BY <1>2, <3>1 DEF Done
    <3>5. QED
      BY <3>3, <3>4
  <2>2. CASE Fail(w) \/ Lock(w)
    BY <2>2 DEF Fail, Lock, Reported
  <2>3. QED
    BY <2>1, <2>2
<1>3. PICK pc \in {"lock", "report", "unlock"} : Goto(w, pc)
  BY <1>1
<1>4. pc \in PCs /\ pc \notin {"open", "check", "mkdir", "reopen"}
  BY DEF PCs
<1>5. QED
  BY <1>1, <1>2, <1>3, <1>4, WalkStep

\* The worker gives the mutex back, or closes the file.
LEMMA LeaveContents ==
  ASSUME ReportsInv, ContentsInv, NEW w \in Workers, Unlock(w) \/ Close(w)
  PROVE  ContentsInv'
BY LeaveStep DEF Unlock, Close, At, disk, driver, reports

-----------------------------------------------------------------------------
(* Jobs are added and taken.                                               *)

\* Steps that leave every file, and whoever is finished, alone.
LEMMA DriverStep ==
  ASSUME ContentsInv,
         UNCHANGED <<input, files, cut, handleless, buffer, stderr>>,
         \A v \in Workers : \/ job'[v] = job[v]
                            \/ job[v].file = NoFile /\ job'[v].file = NoFile
                               /\ job'[v].offset = 0,
         \A f \in Entries : Done(f)' <=> Done(f)
  PROVE  ContentsInv'
<1>1. /\ Solo(input) /\ HoldersInv /\ DiskInv /\ DoneInv
      /\ \A v \in Workers : WriterInv(v)
  BY DEF ContentsInv
<1>2. /\ Workers' = Workers /\ Entries' = Entries /\ Path' = Path /\ Paths' = Paths
      /\ \A f : Reported(f)' = Reported(f)
      /\ \A p, f : Holds(p, f) => Holds(p, f)'
  BY InputSame, HoldsSame DEF Workers, Reported
<1>3. \A v \in Workers : job'[v].file = job[v].file
  OBVIOUS
<1>4. HoldersInv'
  BY <1>1, <1>2, <1>3 DEF HoldersInv
<1>5. DiskInv'
  BY <1>1, <1>2, <1>3 DEF DiskInv
<1>6. DoneInv'
  BY <1>1, <1>2 DEF DoneInv
<1>7. ASSUME NEW v \in Workers PROVE WriterInv(v)'
  <2>1. CASE job'[v] = job[v]
    BY <1>1, <2>1, WriterSame
  <2>2. CASE job'[v].file = NoFile /\ job'[v].offset = 0
    BY <2>2 DEF WriterInv
  <2>3. QED
    BY <2>1, <2>2
<1>8. (\A v \in Workers : WriterInv(v)') /\ Solo(input)'
  BY <1>1, <1>7 DEF Solo
<1>9. QED
  BY <1>2, <1>4, <1>5, <1>6, <1>8 DEF ContentsInv

\* An entry that is taken was not finished, and is not now.
LEMMA TakeContents ==
  ASSUME ReportsInv, ContentsInv, NEW w \in Workers, NEW e \in Entries, Take(w, e)
  PROVE  ContentsInv'
<1>1. PICK pc : job' = [job EXCEPT ![w] = [Idle EXCEPT !.pc = pc, !.entry = e]]
  BY DEF Take
<1>2. /\ job[w].pc = "idle" /\ e \in pending /\ pending' = pending \ {e}
      /\ UNCHANGED <<input, added, files, cut, handleless, buffer, stderr>>
  BY DEF Take, At, disk, reports
<1>3. /\ job \in [Workers -> JobSet] /\ job[w] = Idle /\ \A f \in Entries : f # 0
  BY <1>2, ArchiveTypes DEF ReportsInv, TypeOK, PlaceInv
<1> DEFINE r == [Idle EXCEPT !.pc = pc, !.entry = e]
<1>4. /\ r.entry = e /\ r.file = NoFile /\ r.offset = 0
      /\ Idle.entry = 0 /\ Idle.file = NoFile
  BY DEF Idle
<1> HIDE DEF r
<1>5. job'[w] = r /\ \A v \in Workers : v # w => job'[v] = job[v]
  BY <1>1, <1>3 DEF r
<1>6. Workers' = Workers
  BY DEF Workers
<1>7. ASSUME NEW f \in Entries PROVE Done(f)' <=> Done(f)
  <2>1. CASE f = e
    BY <1>2, <1>4, <1>5, <1>6, <2>1 DEF Done
  <2>2. CASE f # e
    BY <1>2, <1>3, <1>4, <1>5, <1>6, <2>2 DEF Done
  <2>3. QED
    BY <2>1, <2>2
<1>8. QED
  BY <1>2, <1>3, <1>4, <1>5, <1>7, DriverStep

\* An entry whose job is added was not finished, and is not now.
LEMMA AddJobContents ==
  ASSUME ReportsInv, ContentsInv, AddJob PROVE ContentsInv'
<1>1. /\ added' = added + 1 /\ pending' = pending \cup {added + 1}
      /\ UNCHANGED <<input, job, files, cut, handleless, buffer, stderr>>
  BY DEF AddJob, disk, reports
<1>2. added \in Nat
  BY ArchiveTypes DEF ReportsInv, TypeOK
<1>3. \A f : f \in 1 .. added' /\ f \notin pending' <=> f \in 1 .. added /\ f \notin pending
  BY <1>1, <1>2
<1>4. \A f : Done(f)' <=> Done(f)
  BY <1>1, <1>3 DEF Done, Workers
<1>5. QED
  BY <1>1, <1>4, DriverStep

\* Every step keeps the invariant about the files.
LEMMA ContentsInductive == ReportsInv /\ ContentsInv /\ [Next]_vars => ContentsInv'
<1> SUFFICES ASSUME ReportsInv, ContentsInv, [Next]_vars PROVE ContentsInv'
  OBVIOUS
<1>1. ASSUME NEW w \in Workers, Step(w) PROVE ContentsInv'
  <2>1. ASSUME NEW e \in Entries, Take(w, e) PROVE ContentsInv'
    BY <2>1, TakeContents
  <2>2. CASE OpenFirst(w) \/ OpenAgain(w)
    BY <2>2, OpenContents
  <2>3. CASE CheckDirectory(w) \/ MakeDirectory(w) \/ DirectoryFails(w)
    BY <2>3, WalkContents
  <2>4. CASE Fail(w) \/ Lock(w) \/ Report(w)
    BY <2>4, FailedContents
  <2>5. CASE WriteBuffered(w) \/ WriteSpills(w) \/ WriteThrough(w)
    BY <2>5, WriteBufferedContents, WriteSpillsContents, WriteThroughContents
  <2>6. CASE Warn(w) \/ Flush(w)
    BY <2>6, WarnContents, FlushContents
  <2>7. CASE Unlock(w) \/ Close(w)
    BY <2>7, LeaveContents
  <2>8. QED
    BY <1>1, <2>1, <2>2, <2>3, <2>4, <2>5, <2>6, <2>7 DEF Step
<1>2. CASE Return \/ UNCHANGED vars
  <2>1. UNCHANGED <<input, added, pending, job, files, cut, handleless, buffer, stderr>>
    BY <1>2 DEF Return, vars, disk, reports
  <2>2. \A f : Done(f)' <=> Done(f)
    BY <2>1 DEF Done, Workers
  <2>3. QED
    BY <2>1, <2>2, DriverStep
<1>3. QED
  BY <1>1, <1>2, AddJobContents DEF Next

\* There is no file at first.
LEMMA ContentsInitially == Init /\ Solo(input) => ContentsInv
<1> SUFFICES ASSUME Init, Solo(input) PROVE ContentsInv
  OBVIOUS
<1>1. /\ \A w \in Workers : job[w] = Idle /\ job[w].file = NoFile /\ job[w].pc = "idle"
      /\ \A p \in Paths : files[p] = Absent
      /\ added = 0
  BY DEF Init, Idle
<1>2. \A e : ~Done(e)
  BY <1>1 DEF Done
<1>3. HoldersInv /\ DiskInv
  BY <1>1 DEF HoldersInv, DiskInv
<1>4. DoneInv
  BY <1>2 DEF DoneInv
<1>5. \A w \in Workers : WriterInv(w)
  BY <1>1 DEF WriterInv
<1>6. QED
  BY <1>3, <1>4, <1>5 DEF ContentsInv

\* As long as no file has two writers at a time, every file is what its writer
\* knows of it, and a file that nobody writes is complete.
THEOREM ContentsInvariant == Spec /\ Solo(input) => [](ReportsInv /\ ContentsInv)
<1>1. Init /\ Solo(input) => ReportsInv /\ ContentsInv
  BY ReportsInitially, ContentsInitially
<1>2. ReportsInv /\ ContentsInv /\ [Next]_vars => ReportsInv' /\ ContentsInv'
  BY ReportsInductive, ContentsInductive
<1>3. QED
  BY <1>1, <1>2, PTL DEF Spec

\* What is kept of some pieces is in order, and a beginning of the entry.
LEMMA KeptIsSome ==
  ASSUME input \in Inputs, NEW e \in Entries, NEW n \in 0 .. Len(input.fragments[e]),
         NEW s \in Seq(Bytes), NEW t \in Seq(Bytes), Prefix(t, s), Kept(s, e, n)
  PROVE  /\ InOrder(t, e, Len(input.fragments[e]))
         /\ e \notin cut => Prefix(t, Content(e))
<1>1. InOrder(t, e, n) /\ Len(input.fragments[e]) \in Nat
  BY BeginningInOrder, ArchiveTypes DEF Kept
<1>2. BytesOf(e, n) \subseteq BytesOf(e, Len(input.fragments[e]))
  <2>1. \A m \in 1 .. n : m \in 1 .. Len(input.fragments[e])
    BY <1>1
  <2>2. QED
    BY <2>1 DEF BytesOf
<1>3. InOrder(t, e, Len(input.fragments[e]))
  BY <1>1, <1>2 DEF InOrder
<1>4. ASSUME e \notin cut PROVE Prefix(t, Content(e))
  <2>1. /\ s = Beginning(e)[n] /\ Prefix(s, Content(e)) /\ Content(e) \in Seq(Bytes)
    BY <1>4, Beginnings DEF Kept
  <2>2. Len(t) \in Nat /\ Len(s) \in Nat /\ Len(Content(e)) \in Nat
    BY <2>1, LenProperties
  <2>3. QED
    BY <2>1, <2>2 DEF Prefix
<1>5. QED
  BY <1>3, <1>4

\* What a file holds at any time.
LEMMA FileHolds ==
  ASSUME ReportsInv, ContentsInv, NEW p \in Paths, files[p] # Absent
  PROVE  \E e \in Entries : /\ Path[e] = p /\ files[p] \in Seq(Bytes)
                            /\ InOrder(files[p], e, Len(input.fragments[e]))
                            /\ e \notin cut => Prefix(files[p], Content(e))
<1>1. TypeOK /\ DiskInv /\ files[p] \in Seq(Bytes) /\ p # NoFile /\ input \in Inputs
  BY ArchiveTypes DEF ReportsInv, ContentsInv, TypeOK
<1>2. PICK t : t = files[p]
  OBVIOUS
<1>3. t \in Seq(Bytes) /\ Prefix(t, t)
  BY <1>1, <1>2, LenProperties DEF Prefix
<1>4. CASE \E w \in Workers : job[w].file = p
  <2>1. PICK w \in Workers : job[w].file = p
    BY <1>4
  <2>2. /\ PlaceInv(w) /\ WriterInv(w)
        /\ job[w].pc \in Writes /\ job[w].pc # "idle" /\ Path[job[w].entry] = p
    BY <1>1, <2>1 DEF ReportsInv, ContentsInv, PlaceInv, Writes
  <2>3. PICK e, n, s, m : /\ e = job[w].entry /\ n = job[w].n - 1 /\ s = t \o buffer[w]
                          /\ m = Len(input.fragments[e])
    OBVIOUS
  <2>4. e \in Entries /\ buffer[w] \in Seq(Bytes) /\ m \in Nat /\ m \in 0 .. m
    BY <2>2, <2>3, Mine
  <2>5. s \in Seq(Bytes) /\ Prefix(t, s)
    BY <1>3, <2>3, <2>4, Concatenation
  <2>6. CASE job[w].pc = "write"
    <3>1. n \in 0 .. m
      BY <2>2, <2>3, <2>4, <2>6, SMTT(60) DEF PlaceInv
    <3>2. Kept(s, e, n)
      BY <1>1, <1>2, <2>1, <2>2, <2>3, <2>6 DEF WriterInv
    <3>3. QED
      BY <1>1, <1>2, <1>3, <2>2, <2>3, <2>4, <2>5, <3>1, <3>2, KeptIsSome
  <2>7. CASE job[w].pc = "flush"
    <3>1. Kept(s, e, m)
      BY <1>1, <1>2, <2>1, <2>2, <2>3, <2>7 DEF WriterInv
    <3>2. QED
      BY <1>1, <1>2, <1>3, <2>2, <2>3, <2>4, <2>5, <3>1, KeptIsSome
  <2>8. CASE job[w].pc = "close"
    <3>1. Kept(t, e, m)
      BY <1>1, <1>2, <2>1, <2>2, <2>3, <2>8 DEF WriterInv
    <3>2. QED
      BY <1>1, <1>2, <1>3, <2>2, <2>3, <2>4, <3>1, KeptIsSome
  <2>9. QED
    BY <2>2, <2>6, <2>7, <2>8 DEF Writes
<1>5. CASE \E f \in Entries : Path[f] = p /\ Done(f) /\ ~Reported(f) /\ Holds(p, f)
  <2>1. PICK f \in Entries : Path[f] = p /\ Holds(p, f)
    BY <1>5
  <2>2. PICK m : m = Len(input.fragments[f])
    OBVIOUS
  <2>3. Kept(t, f, m) /\ m \in 0 .. m
    BY <1>1, <1>2, <2>1, <2>2, ArchiveTypes DEF Holds
  <2>4. QED
    BY <1>1, <1>2, <1>3, <2>1, <2>2, <2>3, KeptIsSome
<1>6. QED
  BY <1>1, <1>4, <1>5 DEF DiskInv

\* If no file has two writers at a time, none does.
LEMMA SoloIsAlone ==
  ASSUME Solo(input), NEW p
  PROVE  Alone(p)
BY DEF Solo, Alone, EntriesOf, Entries, Path

\* No byte of one entry reaches the file of another, whatever the workers, which
\* share the disk and use their writers again and again, do at the same time and
\* however many of their writes fail; and a writer keeps nothing from one job to
\* the next.  On a system that lets two jobs write one file this needs that no
\* two entries have the same path.
THEOREM NoCrossTalkTheorem == Spec /\ Solo(input) => []NoCrossTalk
<1>1. ReportsInv /\ ContentsInv => NoCrossTalk
  <2> SUFFICES ASSUME ReportsInv, ContentsInv PROVE NoCrossTalk
    OBVIOUS
  <2>1. ASSUME NEW p \in Paths, files[p] # Absent
        PROVE  \E e \in EntriesOf(p) :
                 /\ InOrder(files[p], e, Len(input.fragments[e]))
                 /\ \/ e \in cut
                    \/ /\ Len(files[p]) <= Len(Content(e))
                       /\ files[p] = SubSeq(Content(e), 1, Len(files[p]))
    <3>1. PICK e \in Entries : /\ Path[e] = p /\ files[p] \in Seq(Bytes)
                               /\ InOrder(files[p], e, Len(input.fragments[e]))
                               /\ e \notin cut => Prefix(files[p], Content(e))
      BY <2>1, FileHolds
    <3>2. Content(e) \in Seq(Bytes)
      BY <3>1, Beginnings DEF ReportsInv, TypeOK
    <3>3. e \notin cut => /\ Len(files[p]) <= Len(Content(e))
                          /\ files[p] = SubSeq(Content(e), 1, Len(files[p]))
      BY <3>1, <3>2, PrefixIsSubSeq
    <3>4. e \in EntriesOf(p)
      BY <3>1 DEF EntriesOf
    <3>5. QED
      BY <3>1, <3>3, <3>4
  <2>2. \A p \in Paths : Alone(p)
    BY SoloIsAlone DEF ContentsInv
  <2>3. \A w \in Workers : At(w, "idle") => buffer[w] = <<>>
    BY DEF ReportsInv, PlaceInv, At
  <2>4. QED
    BY <2>1, <2>2, <2>3 DEF NoCrossTalk
<1>2. QED
  BY <1>1, ContentsInvariant, PTL

\* When textunpack_unpack returns, every entry has its file or its one report,
\* whatever failed in between, but for the two ways in which bytes are dropped
\* in silence.
THEOREM EntriesTheorem == Spec /\ Solo(input) => []EveryEntryIsThereOrReported
<1>1. ReportsInv /\ ContentsInv => EveryEntryIsThereOrReported
  <2> SUFFICES ASSUME ReportsInv, ContentsInv, Returned
               PROVE  /\ \A e \in Entries : Messages("failed", e) <= 1
                      /\ \A e \in handleless : e \in Entries /\ Obstructed(e)
                      /\ \A e \in Entries \ (FailedEntries \cup handleless) :
                           \E f \in EntriesOf(Path[e]) \ FailedEntries : f \in cut \/ Complete(f)
    BY DEF EveryEntryIsThereOrReported
  <2>1. /\ FailedEntries = {e \in Entries : Reported(e)}
        /\ \A e \in Entries : Messages("failed", e) <= 1
    BY FailedIsReported
  <2>2. /\ added = Len(Path) /\ pending = {} /\ \A w \in Workers : job[w].pc = "idle"
        /\ TypeOK /\ DirsInv /\ DiskInv /\ DoneInv
    BY DEF ReportsInv, ContentsInv, ResultInv
  <2>3. \A w \in Workers : job[w].entry = 0 /\ job[w].file = NoFile
    BY <2>2 DEF ReportsInv, PlaceInv, Idle
  <2>4. /\ Entries = 1 .. Len(Path) /\ \A e \in Entries : e # 0 /\ Path[e] \in Paths
        /\ \A p \in Paths : p # NoFile
    BY <2>2, ArchiveTypes DEF TypeOK
  <2>5. \A e \in Entries : Done(e)
    BY <2>2, <2>3, <2>4 DEF Done
  <2>6. ASSUME NEW e \in Entries, ~Reported(e), e \notin handleless
        PROVE  \E f \in EntriesOf(Path[e]) \ FailedEntries : f \in cut \/ Complete(f)
    <3>1. Path[e] \in Paths /\ files[Path[e]] # Absent
      BY <2>2, <2>4, <2>5, <2>6 DEF DoneInv
    <3>2. PICK f \in Entries : Path[f] = Path[e] /\ ~Reported(f) /\ Holds(Path[e], f)
      BY <2>2, <2>3, <2>4, <3>1 DEF DiskInv
    <3>3. f \in EntriesOf(Path[e]) /\ f \notin FailedEntries
      BY <2>1, <3>2 DEF EntriesOf
    <3>4. f \in cut \/ files[Path[f]] = Content(f)
      BY <3>2 DEF Holds, Kept, Content
    <3>5. Alone(Path[f])
      BY SoloIsAlone DEF ContentsInv
    <3>6. f \in cut \/ Complete(f)
      BY <3>4, <3>5 DEF Complete
    <3>7. QED
      BY <3>3, <3>6
  <2>7. \A e \in handleless : e \in Entries /\ Obstructed(e)
    BY <2>2 DEF DirsInv
  <2>8. QED
    BY <2>1, <2>6, <2>7
<1>2. QED
  BY <1>1, ContentsInvariant, PTL

=============================================================================
