------------------------------- MODULE Unpack -------------------------------
(***************************************************************************)
(* textunpack_unpack (textunpack_cli.cpp): one job per entry of the        *)
(* archive on the thread pool, one ix_Writer per worker, one file per      *)
(* entry, and a standard error and an error counter that all jobs share.   *)
(*                                                                         *)
(* Of the pool only what ThreadPool shows of it is left: a job that was    *)
(* added is taken by one worker, and wait returns when all are finished.   *)
(* Every system call on the shared file system is an action.  A path is    *)
(* the sequence of its components; the base directory is <<>>.             *)
(***************************************************************************)
EXTENDS Integers, Sequences, FiniteSets

CONSTANTS
  Inputs,        \* the archives to unpack and the systems to do it on: of each
                 \*   path       the paths of the entries, in order
                 \*   fragments  of each entry the sizes of the pieces it is written in
                 \*   too_long   the entries whose path is longer than ix_MAX_PATH
                 \*   open_ended the entries without END line
                 \*   exclusive  CreateFile shares a file it writes with nobody;
                 \*              open() does
  NumWorkers,
  Capacity,      \* writer_buffer_size
  MaxCut,        \* bound: entries of which writes fail
  Absent, NoFile \* a path with no file; a handle that is not valid

ASSUME WorkersAssumption == NumWorkers \in Nat \ {0}
ASSUME InputsAssumption ==
  \A in \in Inputs :
    /\ in.path \in Seq(Seq(STRING) \ {<<>>})
    /\ \A e \in DOMAIN in.path : in.fragments[e] \in Seq(Nat \ {0})
ASSUME MarkersAssumption ==
  /\ NoFile \notin Seq(STRING)
  /\ Absent \notin Seq((Nat \X Nat \X Nat) \cup {<<>>})

VARIABLES
  input,     \* the archive and the system
  added,     \* how many jobs the main thread has added
  pending,   \* the jobs nobody has taken yet
  job,       \* what each worker is doing
  buffer,    \* m_buffer of each worker's ix_Writer
  files,     \* the content of every file
  dirs,      \* the directories that exist
  failed,    \* g.num_failed_entries
  mutex,     \* g.stderr_handle_mutex: the worker that holds it, or -1
  stderr,    \* the messages written, in order
  result,    \* what textunpack_unpack returned, or -1
  cut,       \* history: the entries of which a write failed
  handleless \* history: the entries written to a handle that is not valid

vars == <<input, added, pending, job, buffer, files, dirs, failed, mutex, stderr, result,
          cut, handleless>>
disk == <<input, files, dirs, cut, handleless>>
reports == <<failed, mutex, stderr>>
driver == <<added, pending, result>>

Path == input.path
Entries == DOMAIN Path
Paths == {Path[e] : e \in Entries}
Workers == 0 .. NumWorkers - 1

Idle == [pc |-> "idle", entry |-> 0, n |-> 0, file |-> NoFile, offset |-> 0]

Init ==
  /\ input \in Inputs
  /\ added = 0 /\ pending = {}
  /\ job = [w \in Workers |-> Idle]
  /\ buffer = [w \in Workers |-> <<>>]
  /\ files = [p \in Paths |-> Absent]
  /\ dirs = {<<>>}
  /\ failed = 0 /\ mutex = -1 /\ stderr = <<>>
  /\ result = -1
  /\ cut = {} /\ handleless = {}

At(w, pc) == job[w].pc = pc
Goto(w, pc) == job' = [job EXCEPT ![w].pc = pc]
MyEntry(w) == job[w].entry
MyPath(w) == Path[job[w].entry]

-----------------------------------------------------------------------------
(* The main thread: adds the jobs, then works on them until all are done.  *)

AddJob ==
  /\ added < Len(Path) /\ At(0, "idle")
  /\ added' = added + 1
  /\ pending' = pending \cup {added + 1}
  /\ UNCHANGED <<job, buffer, disk, reports, result>>

\* Mutant: the result is read before the last jobs are finished.
ReturnEarly ==
  /\ added = Len(Path) /\ pending = {} /\ result = -1
  /\ At(0, "idle")
  /\ result' = failed
  /\ UNCHANGED <<added, pending, job, buffer, disk, reports>>

Return ==
  /\ added = Len(Path) /\ pending = {} /\ result = -1
  /\ \A w \in Workers : At(w, "idle")
  /\ result' = failed
  /\ UNCHANGED <<added, pending, job, buffer, disk, reports>>

\* A worker takes a job; the path is checked before anything is touched.
Take(w, e) ==
  /\ At(w, "idle") /\ e \in pending
  /\ pending' = pending \ {e}
  /\ job' = [job EXCEPT ![w] = [Idle EXCEPT !.pc = IF e \in input.too_long THEN "fail" ELSE "open",
                                            !.entry = e]]
  /\ UNCHANGED <<added, buffer, disk, reports, result>>

-----------------------------------------------------------------------------
(* ix_create_directories_and_file, ix_ensure_directories, ix_open_file     *)

Directory(p) == SubSeq(p, 1, Len(p) - 1)

HolderOf(p) == {w \in Workers : job[w].file = p}

\* Mutant: a file that is being written is opened again.
CanOpenShared(p) == Directory(p) \in dirs /\ p \notin dirs

CanOpen(p) ==
  /\ Directory(p) \in dirs /\ p \notin dirs
  /\ input.exclusive => HolderOf(p) = {}

\* ix_open_file(path, ix_WRITE_ONLY): creates the file or empties it.
Opened(w) ==
  /\ CanOpen(MyPath(w))
  /\ files' = [files EXCEPT ![MyPath(w)] = <<>>]
  /\ job' = [job EXCEPT ![w].pc = "write", ![w].n = 1, ![w].file = MyPath(w)]
  /\ UNCHANGED <<input, dirs, cut, handleless, driver, buffer, reports>>

OpenFirst(w) ==
  /\ At(w, "open")
  /\ \/ Opened(w)
     \/ /\ ~CanOpen(MyPath(w))
        /\ Goto(w, "check")
        /\ UNCHANGED <<disk, driver, buffer, reports>>

\* Without directory part, or if the directory is there, nothing to create.
CheckDirectory(w) ==
  /\ At(w, "check")
  /\ job' = [job EXCEPT ![w].pc = IF Directory(MyPath(w)) \in dirs THEN "reopen" ELSE "mkdir",
                        ![w].n = 1]
  /\ UNCHANGED <<disk, driver, buffer, reports>>

Exists(p) == p \in dirs \/ (p \in Paths /\ files[p] # Absent)

\* Mutant: a directory that exists by now is an error.
MakeDirectoryStrict(w) ==
  LET p == SubSeq(MyPath(w), 1, job[w].n)
  IN  /\ At(w, "mkdir")
      /\ job[w].n < Len(MyPath(w))
      /\ Exists(p) \/ Directory(p) \in dirs
      /\ dirs' = IF Exists(p) THEN dirs ELSE dirs \cup {p}
      /\ job' = [job EXCEPT ![w].n = @ + 1,
                            ![w].pc = IF Exists(p) THEN "fail"
                                      ELSE IF job[w].n + 1 < Len(MyPath(w)) THEN "mkdir" ELSE "reopen"]
      /\ UNCHANGED <<input, files, cut, handleless, driver, buffer, reports>>

\* One mkdir of the walk down the path.  Whatever exists already is passed over:
\* the directory part of a path ends with a separator, so the last mkdir of
\* ix_ensure_directories, which is not as tolerant, is not reached.
MakeDirectory(w) ==
  LET p == SubSeq(MyPath(w), 1, job[w].n)
  IN  /\ At(w, "mkdir")
      /\ job[w].n < Len(MyPath(w))
      /\ Exists(p) \/ Directory(p) \in dirs
      /\ dirs' = IF Exists(p) THEN dirs ELSE dirs \cup {p}
      /\ job' = [job EXCEPT ![w].n = @ + 1,
                            ![w].pc = IF job[w].n + 1 < Len(MyPath(w)) THEN "mkdir" ELSE "reopen"]
      /\ UNCHANGED <<input, files, cut, handleless, driver, buffer, reports>>

\* ix_ensure_directories fails.  `return ix_FileHandle();' makes an ix_Option
\* that is not an error, so the job goes on with a handle that is not valid.
DirectoryFails(w) ==
  LET p == SubSeq(MyPath(w), 1, job[w].n)
  IN  /\ At(w, "mkdir")
      /\ ~Exists(p) /\ Directory(p) \notin dirs
      /\ job' = [job EXCEPT ![w].pc = "write", ![w].n = 1]
      /\ handleless' = handleless \cup {MyEntry(w)}
      /\ UNCHANGED <<input, files, dirs, cut, driver, buffer, reports>>

OpenAgain(w) ==
  /\ At(w, "reopen")
  /\ \/ Opened(w)
     \/ /\ ~CanOpen(MyPath(w))
        /\ Goto(w, "fail")
        /\ UNCHANGED <<disk, driver, buffer, reports>>

-----------------------------------------------------------------------------
(* A failed entry is counted, then reported under the mutex.               *)

Fail(w) ==
  /\ At(w, "fail")
  /\ failed' = failed + 1
  /\ Goto(w, "lock")
  /\ UNCHANGED <<disk, driver, buffer, mutex, stderr>>

Lock(w) ==
  /\ At(w, "lock") /\ mutex = -1
  /\ mutex' = w
  /\ Goto(w, "report")
  /\ UNCHANGED <<disk, driver, buffer, failed, stderr>>

Report(w) ==
  /\ At(w, "report")
  /\ stderr' = Append(stderr, <<"failed", MyEntry(w)>>)
  /\ Goto(w, "unlock")
  /\ UNCHANGED <<disk, driver, buffer, failed, mutex>>

\* Mutant: the early return keeps the mutex.
UnlockNothing(w) ==
  /\ At(w, "unlock")
  /\ job' = [job EXCEPT ![w] = Idle]
  /\ UNCHANGED <<disk, driver, buffer, reports>>

Unlock(w) ==
  /\ At(w, "unlock")
  /\ mutex' = -1
  /\ job' = [job EXCEPT ![w] = Idle]
  /\ UNCHANGED <<disk, driver, buffer, failed, stderr>>

-----------------------------------------------------------------------------
(* tup_unpack_entry through the worker's ix_Writer                         *)

\* A piece of an entry, as the bytes it consists of.
Piece(e, n) == [i \in 1 .. input.fragments[e][n] |-> <<e, n, i>>]

\* What is on disk after `data' was written to `old' at `offset'.
WrittenAt(old, offset, data) ==
  LET end == offset + Len(data)
  IN  [k \in 1 .. IF end > Len(old) THEN end ELSE Len(old) |->
         IF k \in offset + 1 .. end THEN data[k - offset]
         ELSE IF k <= Len(old) THEN old[k] ELSE <<>>]

\* ix_FileHandle::write: the first k bytes of the data reach the file.  The
\* first ::write that fails is the end of it, as is every write to a handle
\* that is not valid, and nobody is told; what is written next comes behind
\* the last byte that was.
WriteFile(w, data, k) ==
  /\ job[w].file = NoFile => k = 0
  /\ files' = IF k = 0 THEN files
              ELSE [files EXCEPT ![job[w].file] = WrittenAt(@, job[w].offset, SubSeq(data, 1, k))]
  /\ IF k = Len(data) \/ job[w].file = NoFile THEN cut' = cut
     ELSE cut' = cut \cup {MyEntry(w)} /\ Cardinality(cut') <= MaxCut

Fits(w) == Len(buffer[w]) + input.fragments[MyEntry(w)][job[w].n] <= Capacity

Writing(w) == At(w, "write") /\ job[w].n <= Len(input.fragments[MyEntry(w)])

\* There is room: the piece waits in the buffer.
WriteBuffered(w) ==
  /\ Writing(w) /\ Fits(w)
  /\ buffer' = [buffer EXCEPT ![w] = @ \o Piece(MyEntry(w), job[w].n)]
  /\ job' = [job EXCEPT ![w].n = @ + 1]
  /\ UNCHANGED <<disk, driver, reports>>

\* There is none: the buffer goes to the file first.
WriteSpills(w) ==
  /\ Writing(w) /\ ~Fits(w) /\ buffer[w] # <<>>
  /\ \E k \in 0 .. Len(buffer[w]) :
       /\ WriteFile(w, buffer[w], k)
       /\ job' = [job EXCEPT ![w].offset = @ + k]
  /\ buffer' = [buffer EXCEPT ![w] = <<>>]
  /\ UNCHANGED <<input, dirs, handleless, driver, reports>>

\* The piece is larger than the buffer will ever be.
WriteThrough(w) ==
  LET data == Piece(MyEntry(w), job[w].n)
  IN  /\ Writing(w) /\ ~Fits(w) /\ buffer[w] = <<>>
      /\ \E k \in 0 .. Len(data) :
           /\ WriteFile(w, data, k)
           /\ job' = [job EXCEPT ![w].n = @ + 1, ![w].offset = @ + k]
      /\ UNCHANGED <<input, dirs, handleless, driver, buffer, reports>>

\* The archive ended before the entry did: the warning takes no mutex.
Warn(w) ==
  /\ At(w, "write") /\ ~Writing(w)
  /\ Goto(w, "flush")
  /\ stderr' = IF MyEntry(w) \in input.open_ended
               THEN Append(stderr, <<"unterminated", MyEntry(w)>>) ELSE stderr
  /\ UNCHANGED <<disk, driver, buffer, failed, mutex>>

\* Mutant: the buffer is written and not cleared.
FlushKeeps(w) ==
  /\ At(w, "flush")
  /\ \E k \in 0 .. Len(buffer[w]) : WriteFile(w, buffer[w], k)
  /\ Goto(w, "close")
  /\ UNCHANGED <<input, dirs, handleless, driver, buffer, reports>>

Flush(w) ==
  /\ At(w, "flush")
  /\ \E k \in 0 .. Len(buffer[w]) : WriteFile(w, buffer[w], k)
  /\ buffer' = [buffer EXCEPT ![w] = <<>>]
  /\ Goto(w, "close")
  /\ UNCHANGED <<input, dirs, handleless, driver, reports>>

\* The lambda ends: the handle is closed, the writer keeps its address.
Close(w) ==
  /\ At(w, "close")
  /\ job' = [job EXCEPT ![w] = Idle]
  /\ UNCHANGED <<disk, driver, buffer, reports>>

-----------------------------------------------------------------------------

Step(w) ==
  \/ \E e \in Entries : Take(w, e)
  \/ OpenFirst(w) \/ CheckDirectory(w) \/ MakeDirectory(w) \/ DirectoryFails(w)
  \/ OpenAgain(w)
  \/ Fail(w) \/ Lock(w) \/ Report(w) \/ Unlock(w)
  \/ WriteBuffered(w) \/ WriteSpills(w) \/ WriteThrough(w)
  \/ Warn(w) \/ Flush(w) \/ Close(w)

Next == AddJob \/ Return \/ \E w \in Workers : Step(w)

Spec == Init /\ [][Next]_vars

\* The main thread and every worker keep running.
FairSpec == Spec /\ WF_vars(AddJob \/ Return) /\ \A w \in Workers : WF_vars(Step(w))

-----------------------------------------------------------------------------
(* Properties                                                              *)

Returned == result # -1

\* The first n pieces of an entry, for each n.
Beginning(e) ==
  LET upto[n \in 0 .. Len(input.fragments[e])] ==
        IF n = 0 THEN <<>> ELSE upto[n - 1] \o Piece(e, n)
  IN  upto

Content(e) == Beginning(e)[Len(input.fragments[e])]

Messages(kind, e) == Cardinality({i \in DOMAIN stderr : stderr[i] = <<kind, e>>})

FailedEntries == {e \in Entries : Messages("failed", e) > 0}

\* What a file nobody else writes holds of an entry: its bytes in their order,
\* of the first n pieces.
BytesOf(e, n) == UNION {{<<e, m, i>> : i \in 1 .. input.fragments[e][m]} : m \in 1 .. n}

Before(a, b) == a[2] < b[2] \/ (a[2] = b[2] /\ a[3] < b[3])

InOrder(s, e, n) ==
  /\ \A k \in DOMAIN s : s[k] \in BytesOf(e, n)
  /\ \A j, k \in DOMAIN s : j < k => Before(s[j], s[k])

EntriesOf(p) == {e \in Entries : Path[e] = p}

\* No two jobs ever write the file at the same time.
Alone(p) == input.exclusive \/ \A e, f \in EntriesOf(p) : e = f

\* No byte of one entry reaches the file of another: the writers are reused from
\* job to job and their buffers from entry to entry, but at any time a file
\* holds bytes of one entry with its path, in order, and the beginning of it as
\* long as no write of it failed.  Where open() lets two jobs write one path,
\* its file may hold bytes of each of them, and holes, but of nobody else.
\* Between two jobs a writer, which points at a handle that is gone, has
\* nothing left for it.
NoCrossTalk ==
  /\ \A p \in Paths : files[p] # Absent =>
       IF Alone(p)
       THEN \E e \in EntriesOf(p) :
              /\ InOrder(files[p], e, Len(input.fragments[e]))
              /\ \/ e \in cut
                 \/ /\ Len(files[p]) <= Len(Content(e))
                    /\ files[p] = SubSeq(Content(e), 1, Len(files[p]))
       ELSE \A k \in DOMAIN files[p] :
              \/ files[p][k] = <<>>
              \/ \E e \in EntriesOf(p) : files[p][k] \in BytesOf(e, Len(input.fragments[e]))
  /\ \A w \in Workers : At(w, "idle") => buffer[w] = <<>>

\* The file of another entry is a directory of this one.
Obstructed(e) ==
  \E p \in Paths : Len(p) < Len(Path[e]) /\ SubSeq(Path[e], 1, Len(p)) = p

\* The file with the path of f holds f, or as many bytes as f has, each of
\* them from some entry with that path and where it belongs.
Complete(f) ==
  LET file == files[Path[f]]
  IN  IF Alone(Path[f]) THEN file = Content(f)
      ELSE \A k \in DOMAIN Content(f) :
             /\ k \in DOMAIN file
             /\ \E g \in EntriesOf(Path[f]) : k \in DOMAIN Content(g) /\ file[k] = Content(g)[k]

\* When textunpack_unpack returns, every entry is either reported as failed,
\* once, or its file is complete: the file of an entry that was not reported
\* holds the whole of one entry with its path, whoever had the file last.  Two
\* things are lost without report, and nothing else: what a failing write drops
\* (ix_file.cpp:1123), and the entry whose directory is the file of another
\* entry, which is written to a handle that is not valid (ix_file.cpp:819).
EveryEntryIsThereOrReported ==
  Returned =>
    /\ \A e \in Entries : Messages("failed", e) <= 1
    /\ \A e \in handleless : e \in Entries /\ Obstructed(e)
    /\ \A e \in Entries \ (FailedEntries \cup handleless) :
         \E f \in EntriesOf(Path[e]) \ FailedEntries : f \in cut \/ Complete(f)

\* The exit status is the number of failed entries, although it is read without
\* synchronization by a thread that did not count most of them.
ResultCountsFailures == Returned => result = Cardinality(FailedEntries)

\* Jobs that create the same directories at the same time do not hurt each
\* other: an entry fails only for its own path (too long, or blocked by a file
\* or a directory of another entry), or for a file another job has open.
Blocked(e) ==
  \/ e \in input.too_long \/ Obstructed(e)
  \/ \E p \in Paths : Len(p) > Len(Path[e]) /\ SubSeq(p, 1, Len(Path[e])) = Path[e]
  \/ \E f \in Entries \ {e} : input.exclusive /\ Path[f] = Path[e]

OnlyBlockedEntriesFail == FailedEntries \subseteq {e \in Entries : Blocked(e)}

\* textunpack_unpack returns, whatever fails: no early return keeps the mutex.
Returns == <>Returned

\* ix_ASSERT(m_file->is_valid()) in ix_Writer::write.
WriterHasValidFile == \A w \in Workers : Writing(w) => job[w].file # NoFile

=============================================================================
