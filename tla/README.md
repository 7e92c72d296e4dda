# textunpack in TLA+

textunpack takes a text file with marked sections (`#+EXPORT_BEGIN path` ...
`#+EXPORT_END path`) and writes every section to the file it names, on all
cores at once.  Below it lies `ix`, a library of the same author: a work
stealing thread pool, files, writers, buffers, containers.  This directory
holds TLA+ modules for the parts in which something can go wrong that a test
would hardly reach, the TLC configurations that check them on small instances,
and proofs, checked by TLAPS, about the lock-free deque at the bottom, the jobs
of the pool as the program uses it, who owns the descriptors and the memory of
files and writers, what the driver leaves on the disk, and what the program
reads and says when it ends.

Source paths below are relative to `src/` of the repository.

## 1. The system

| Component | Source | State | Operations |
|---|---|---|---|
| Job stealing deque | `ix/ix_ThreadPool.cpp` 12-186 | `m_top`, `m_bottom`, `m_job_array` (the array of the moment; old ones stay in `m_garbages`) | owner: `push_bottom`, `pop_bottom`; any thief: `steal_top` |
| Thread pool | `ix/ix_ThreadPool.cpp` 188-528 | per worker a deque, a job pool (slots with `entry`, `parent`, `ttl`), a job stack, `m_should_die`; the vectors of workers and threads | `add_empty_job`, `add_job`, `wait`, `shutdown`; inside `execute_job_maybe`, `allocate_job`, `finalize_job` |
| Unpack driver | `textunpack/textunpack_cli.cpp` 52-140 | `num_failed_entries`, one `ix_Writer` per worker, the mutex of the standard error | `textunpack_unpack`: one job per entry |
| Archive scanner and packer | `textunpack/textunpack.cpp`, `textunpack_cli.cpp` 142-221 | positions in the input | find first and next entry, `tup_unpack_entry`, `textunpack_pack` |
| Files, directories | `ix/ix_file.cpp`, `ix/ix_filepath.cpp` | the file system; a descriptor per handle | open, create directories and file, write, read, size, close; handles are moved, assigned, copied |
| `ix_Buffer` | `ix/ix_Buffer.cpp` | a region (grown or borrowed), size, capacity | reserve, push, detach, `load_file_handle` |
| `ix_Writer` | `ix/ix_Writer.cpp` | a buffer, the address of a file handle | write, flush, clear, substitute, move |
| Vectors | `ix/ix_Vector.hpp`, `ix/ix_StackVector.hpp`, `ix/ix_Vector_util.hpp`, `ix/ix_bulk.hpp` | a block, size, capacity; a stack vector also room in itself | push, insert, erase, resize, move |
| Hash containers | `ix/ix_HashSet.hpp`, `ix/ix_HashMapSingleArray.hpp` | keys in a vector, robin hood buckets | emplace, find, erase, reserve, clear |
| Sorting | `ix/ix_sort.hpp` | the array, the stack of calls | pattern-defeating quicksort with insertion sort and heap sort |
| Logger | `ix/ix_Logger.cpp` | writer, mutex, `m_previous_tick` | log |
| System manager | `ix/ix_SystemManager.cpp` | a map from system to deinitializer | initialize, deinitialize |
| Command line | `ix/ix_CmdArgsEater.cpp`, `textunpack_main` | the arguments not eaten yet | eat a flag, eat a pair, choose a mode |
| The rest | strings, numbers, hashes, random numbers, time, test framework, Windows layer | | see section 9 |

How they interact.  `textunpack_main` reads the whole input into an `ix_Buffer`
and calls the driver.  The driver walks the input from BEGIN to BEGIN and adds
one job per entry to the pool, under one root; then it waits for the root.  A
job runs on any worker: it opens its file (creating directories), points the
worker's own `ix_Writer` at it, unpacks the entry through the writer, flushes,
and closes the file by leaving its scope.  Failures are counted with an atomic
increment and reported under a mutex; the count is the exit status.  The pool
keeps jobs in one deque per worker.  A worker without jobs steals from the
others, and a worker that has to wait, for a root or for a free slot in its job
pool, executes jobs meanwhile, on its own stack.

What makes this hard: the deque has no locks; job slots are recycled as soon as
a counter is zero; waits nest; the number of workers changes while they run;
jobs share a file system, an error stream and, one after the other, a writer;
and an archive may contain entries within entries.

## 2. What makes each part correct

* Deque: a job pushed comes out exactly once, to one thread; it behaves as if
  every operation were one step; nothing is lost when the array grows.
* Pool: `ttl` counts what is unfinished below a job; `wait` returns when the
  whole tree below the root is finished, and not before; the threads end.
* Driver: a file that one entry names holds the content of that entry and
  nothing of any other; an entry that fails is reported and counted, and the two
  ways in which bytes are lost in silence (section 8) are the only ones; the
  program returns.
* Scanner: every BEGIN line is found once, and what is written for it is what
  the lines mean; packing and unpacking are inverse.
* Sorting: the result is sorted and has the same elements, and no search leaves
  the array.
* Hash containers: they hold what a dictionary would, and every search ends at
  the key if it is there.
* Files and directories: jobs that make the same directories do not fail
  because of each other; an open descriptor belongs to one handle.
* Buffer and writer: a file and what its writer still holds are what was
  written for it, in order; nothing is written behind a region, and a region is
  freed once.
* Command line and main: an option means the same wherever it stands; what is
  read is the whole file; a failure that was noticed is told and is in the exit
  status; the program ends.
* Vectors: they hold the sequence they stand for, and every element is
  constructed, used and destructed in that order, but for those that the code
  leaves without destructing them.

The hazards behind these, each at its line of code, are in `PROJECT.json`.

## 3. Modules

| Module | Models | Checked by |
|---|---|---|
| `WorkStealingQueue` | what the deque promises: push, pop and steal as single steps | refined by `JobStealingDeque` |
| `JobStealingDeque` | the deque, one action per load, store or compare-and-swap | `MCJobStealingDeque` |
| `JobStealingDequeProofs` | proofs of its safety properties, and that it implements `WorkStealingQueue` | TLAPS |
| `ThreadPool` | workers, slots, `ttl`, waiting, shutdown | `MCThreadPool` |
| `ThreadPoolProofs` | proofs about it | TLAPS |
| `Unpack` | the driver, its jobs and the file system under them | `MCUnpack` |
| `UnpackProofs` | proofs about it | TLAPS |
| `Archive` | the scanner and the packer | `MCArchive` |
| `Sort` | pattern-defeating quicksort | `MCSort` |
| `SortProofs` | proofs about it | TLAPS |
| `HashContainers` | the hash map and the hash set | `MCHashContainers` |
| `Files` | file handles, the descriptors they own, writing | `MCWriter` |
| `Buffer` | a buffer as a record, and what its functions make of it | `MCWriter`, `MCProgram` |
| `Writer` | writers over `Files` and `Buffer` | `MCWriter` |
| `FileProofs` | proofs about `Files`, `Buffer` and `Writer` | TLAPS |
| `CommandLine` | eating the arguments, choosing what to do | `MCProgram` |
| `Program` | `textunpack_main` over `CommandLine` and `Buffer` | `MCProgram` |
| `ProgramProofs` | proofs about `Program`, `CommandLine` and `Buffer` | TLAPS |
| `Vectors` | vectors and stack vectors | `MCVectors` |
| `VectorsProofs` | proofs about it | TLAPS |
| `ProofLemmas` | lemmas on numbers, sequences and recursion that several proofs need | TLAPS |

The modules meet at promises that one shows and the next uses: `ThreadPool`
takes a deque operation as one step, which is what `Linearizable` says of
`JobStealingDeque`; `Unpack` takes a job as taken by one worker and `wait` as
returning after all of them, which is what `HandedOnce` and `WaitCoversTree`
say; `Unpack` takes the content of an entry as given, and `Archive` says what
it is; `Program` takes the number of entries that fail as any, and `Unpack` says
which; `Writer` and `Program` use the same `Buffer`.

### JobStealingDeque

`top`, `bottom` and `array` are the three atomics; `arrays` holds every array
ever allocated, since old ones are kept for thieves that still read them.
`local` is the program counter and the local variables of every thread.  An
action is one shared access: `PushLoad`, `PushResize`, `PushSlot`,
`PushBottom`; `PopReserve`, `PopEmpty`, `PopMany`, `PopLast`, `PopCas`,
`PopRestore`; `StealTop`, `StealBottom`, `StealArray`, `StealSlot`, `StealCas`.
The loads of one line that only the owner writes are merged with the access
next to them.  Memory is sequentially consistent.  The position of index `i`
is `i % capacity`; the code's mask is the same for the powers of two it
asserts.  `WorkStealingQueue` sees a push at `PushBottom`, a pop at the read of
`m_top` or the compare-and-swap, a steal at the compare-and-swap.

### ThreadPool

`Entries` and `Body` are a small program: what each kind of job does (add a
child, add a root, wait).  A setup holds the options of the pool and what the
main thread does; the run starts in each of them.  Every worker has
a stack of frames, since waiting and allocating execute other jobs in the
middle of a job.  A slot of a job pool is `[entry, parent, ttl]`, and `ttl = 0`
means free, as in the code.  `finalize_job` is two actions, the decrement
(`Release`) and the step to the parent (`Climb`), because another thread may do
anything between them.  A worker that finds nothing to do stutters.  Thieves
take one job and then up to as many more as they wish: the code computes the
number from a size it reads without synchronisation.  `shutdown` tells the
workers to die (`Shutdown`), they leave at the end of a round (`ThreadExit`),
and `Joined` drops them and what is left in their deques.

### Unpack

A path is the sequence of its components.  `ix_create_directories_and_file` is
open, look, one `mkdir` per component, open again; every system call is an
action.  The archive and the system it is unpacked on are chosen at the start
(`input`); `exclusive` says whether a file that is open can be opened again: no
on Windows (`CreateFile` with share mode 0), yes on POSIX.  The content of an
entry is a list of pieces with sizes; each byte is `<<entry, piece, number>>`,
so that the file shows where it came from.  The writer keeps the pieces until
its buffer is full, as `ix_Writer::write` does.  Any write may fail at any byte:
`ix_FileHandle::write` drops the rest and tells nobody (`WriteFile`), and the job
goes on as if nothing had happened.  Two history variables, which no action reads
except to bound them, remember what the code does not: `cut` the entries of which
a write failed, `handleless` those that were written to a handle that is not
valid because a directory could not be made (`DirectoryFails`).

### Archive

Text is a sequence of tokens: the units in which the scanner compares and
skips.  `tup_unpack_entry` is one action per turn of its loop (`SkipExport`,
`SkipMarker`, `EndEntry`, `NotTerminated`), and the driver loops are
`FirstEntry` and `NextEntry`.  `Meaning` defines, line by line and without any
scanning, what an entry contains; `UnpacksMeaning` compares.

### Sort

`calls` is the stack of calls of `pdqsort_loop` that have not returned, `part`
the partition going on in the innermost one.  An action is one turn of a loop:
small segments are insertion sorted in one action (`SortSmall`); otherwise a
pivot is chosen and the first two searches are made (`StartPartition`), pairs
are exchanged until the searches meet (`ExchangeRight`, `ExchangeLeft`) or,
branchless, blocks of offsets are (`ExchangeBlocks`, `LastBlock`), and the two
sides become calls (`RecurseShuffled`, `RecurseBalanced`) unless the attempt to
finish by insertion succeeds (`NearlySorted`) or too many partitions were bad
(`HeapSort`).  Searches without bounds check run over the whole array in the
model, and `outside` remembers if one left its segment.  Elements are integers
compared by `<`; the cycle of moves in `swap_offsets` is one function.

### HashContainers

`buckets` and `kv_pairs` are the two arrays of the map, `set_buckets` and `keys`
those of the set.  A bucket keeps `disp_and_higher_hash` as one number, as the
code does, because the searches compare it as one.  `find_bucket_kernel`,
`emplace_bucket`, `rehash`, `erase` are operators on such arrays; a loop over
buckets is the number of steps after which it ends.  `Emplace`, `Erase`,
`Reserve` and `Clear` make the same call on both containers, and `dict` is what
a dictionary would hold afterwards.  `lossy` becomes true when a saturated
displacement may mislead a search, and nothing is modelled after that.

### Files, Buffer, Writer

`Files` has the handles (`v.fd` of each object) and the table of descriptors
under them: the system gives the lowest free number to the next file, so that a
number kept too long reaches another file.  `write` may fail after any part of a
piece, up to `MaxFaults` times.  `Buffer` has no variables: a buffer is a record
of its region, its text and its capacity, whose top bit says as in the code that
the region is borrowed.  `Writer` has the objects, the heap, and every operation
of `ix_Writer` as an action: constructed on a region, moved, assigned, pointed at
another handle, detached from its buffer, destroyed.  The three ways to write
(`WritePlan`, `RepeatPlan`, `StringPlan`) differ in what goes to the file before
what.  The bytes are numbered, and the ghost `owed` keeps for each file those
that were handed over and not dropped by a failing call.  What the callers must
keep to is stated as guards: `Settled` (flush before the handle goes), `Sole`
(one writer at a time holds text for a file), `Fits` (the assertions about a
borrowed array).

### CommandLine, Program

`CommandLine` is functions on sequences of words: `eat_boolean`, `eat_kv` and
`Decide`, the order in which `textunpack_main` calls them.  `Program` goes on
from there, one action per system call: `Open`, `Measure` (`lseek`), `ReadSome`
(one `::read`, which gives any part of what is there), `ReadReturns` and
`ReadOn` (the turns of `load_file_handle`), `Loaded`, `PackWrites`, `RunUnpack`,
`RunOther`; and for the calls that fail `OpenFails`, `ReadFails`,
`OutputCannotBeOpened`.  What is written to the output may be cut short
anywhere (`Write`), with the same status.  `failed` is the number of failures that
the jobs have counted: what they lose without counting is the subject of `Unpack`.
`Feed` and `HangUp` are the other programs: a file
grows while it is read, a pipe is fed and closed.  A call that `ix_malloc` or
`ix_realloc` refuses ends the program as "aborted".

### Vectors

A block is a function from places to cells, and a cell is raw memory, a value,
an object that was moved from, or one that was left (`Left`): it is no element any
more, and the code never destructs it.  There are two ways to leave one.
`ix_StackVector::reserve` moves its elements out of `m_initial_data` and then
destructs as many bytes of it instead of them (`ix/ix_StackVector.hpp` 216;
`LeftInline`).  `ix_Vector_erase` of several elements calls one destructor
(`ix/ix_Vector_util.hpp` 190; `Abandon`).  The variable `inline` is
`m_initial_data` while the elements are in a block; what was left there is met
again when a move brings elements back.  The elements are of a type whose moves and
destructors do something; for the other types the code uses `memmove`, which the
same steps describe.  What the code does in a loop is a sequence of
steps (`Construct`, `Assign`, `Destruct`) done in its order; each checks that
the cell is what the step needs (`ok`).  `elements` is the sequence the vector
stands for, changed by the operation's meaning.  An object exists from its
constructor to its destructor; before and after, its `m_data` is `Gone`.  `ix_StackVector` is the same
module with `stack` true: its first block is in the object itself and its
elements have to be moved one by one.

## 4. Runs

| Run | Properties | What it shows |
|---|---|---|
| `deque` (`MCJobStealingDeque.cfg`) | `TypeOK`, `HandedOnce`, `NoJobLost`, `PopFailsOnlyWhenEmpty`, `IndInv`, `Linearizable`, `EveryJobIsHandedOut` | Three jobs, two thieves and an array that grows from 1 to 4 slots: every interleaving of the loads, stores and compare-and-swaps of push_bottom, pop_bottom and steal_top loses no job and hands none out twice; the deque implements WorkStealingQueue, in which every operation is one step; the inductive invariant of the proofs holds. |
| `pool` (`MCThreadPool.cfg`) | `TtlCounts`, `UnfinishedJobsAreLive`, `WaitCoversTree`, `MainReturns` | Three setups on three workers: one root with more jobs than the job pool has slots; jobs that add jobs and wait for roots of their own inside a wait; workers spawned one by one, a shutdown with jobs left and a second life of the pool. Counts are right, wait returns after all jobs and only then, and the main thread returns. |
| `pool_reuse` (`MCThreadPoolReuse.cfg`, violated) | `CurrentJobIsLive` | A slot is claimed again between the decrement of its ttl and the read of its parent in finalize_job, so a running job's ttl drops to zero. |
| `unpack` (`MCUnpack.cfg`) | `NoCrossTalk`, `EveryEntryIsThereOrReported`, `ResultCountsFailures`, `OnlyBlockedEntriesFail`, `Returns` | Two workers on a tree of directories two jobs may create at once, with paths that are too long; on one path in three entries where an open file is shared with nobody, and in two where it is shared; and on a file that is the directory of others; with writes that fail at any byte: a file has the bytes of its own entries only, an entry is complete or reported but for what the code drops in silence, a failure that is reported is the entry's own, and the exit status counts them. |
| `unpack_invalid` (`MCUnpackInvalid.cfg`, violated) | `WriterHasValidFile` | When a directory cannot be made, the job goes on with a handle that is not valid: the entry is lost and nothing is reported. |
| `archive` (`MCArchive.cfg`) | `FindsEveryEntry`, `UnpacksMeaning`, `PackRoundTrip`, `Halts` | Every archive of at most four lines of eleven kinds (markers of two entries, markers without path, quoted markers, empty lines): the scanner agrees with a definition line by line. Every pair of files of at most two lines: what --pack writes, unpacking gives back byte by byte. |
| `hash` (`MCHashContainers.cfg`) | `HoldsTheDictionary`, `EveryKeyIsFound` | A map and a set of five keys under the same calls, in every order, with hashes that collide in three ways, four and more buckets and displacements up to three: both hold what a dictionary would, every search ends and finds exactly the keys that are there, as long as no saturated displacement misleads it. |
| `sort` (`MCSort.cfg`) | `SameElements`, `StaysInside`, `Separated`, `SortedUnlessHeapSort`, `EveryTurnProgresses` | Every array of seven elements over four values and 1656 patterns of up to 19 elements, with and without the branchless partition and with thresholds scaled down: the searches without bounds check stay in their segment, the segments left to sort are separated, no element is lost, and without heap sort the result is sorted. |
| `sort_heap` (`MCSortHeap.cfg`, violated) | `Sorted` | With the thresholds of the code, an array of 32 elements whose partitions are all bad: the switch to heap sort leaves it unsorted. |
| `writer` (`MCWriter.cfg`) | `TypeOK`, `HandlesOwnDescriptors`, `FileHoldsTheText`, `StaysInRegion`, `RegionsHaveOneOwner` | Two writers, two handles and two files under every call of ix_Writer and ix_FileHandle in any order, with a write that fails half way: a file and what its writer still holds is what was written for it, no descriptor and no region is lost, shared or freed twice, and nothing is written behind a region. |
| `program` (`MCProgram.cfg`) | `LoadsWholeFile`, `ReadsStayInRegion`, `NoticedFailuresAreTold`, `StopsForItsInputs`, `OptionsStandAnywhere`, `Exits` | Every command line of up to four arguments out of sixteen words, files that are longer, shorter or still growing, pipes, directories, reads that give any part of what is there, calls that fail, writes that fail in silence: what is read is complete, a failure that was noticed is told, options mean the same wherever they stand, and the program ends. |
| `vectors` (`MCVectors.cfg`) | `HoldsTheSequence`, `ObjectsAreAliveInTurn` | Two vectors, or two stack vectors, under every operation in any order, the loops of insert and erase done step by step: each holds the sequence it stands for; every element is constructed, assigned to and destructed in that order, except those that the code leaves without destructing them (moved out of a stack vector, or erased together with others). |

## 5. Bounds, and why they are enough

* Deque: the initial capacity is 1, as in a debug build, and three jobs grow the
  array twice, so that a thief may hold the first array while the third is
  current; two thieves race each other as well as the owner.  Every thread may
  be at any of its steps when the others move.  The indices start at 1 instead
  of 1024: only the distance from 0 matters, and `pop_bottom` goes one below.
* Pool: three workers, and a job pool with fewer slots than there are jobs
  (`Flat`), nested waits (`Nested`), and two lives of one pool (`Lazy`).  The
  slots of the main worker are recycled within the run.
* Unpack: two workers, so that two jobs meet at every system call, while three
  entries with one path follow and overlap each other (`Same`, where an open file is
  shared with nobody), or two are written to one file at once, each emptying it for
  the other (`Shared`); a buffer of two bytes against pieces of one, two and three
  bytes, so that pieces are kept, spill and are written through.  Writes of up to two
  entries fail (`MaxCut`), each at any byte and any number of times.  The file system
  is empty at the start; what is in an entry's way is another entry.
* Archive: four lines out of eleven kinds, 16105 archives; two packed files of up
  to two lines each.
* Sort: insertion sort below 4 elements instead of 24, nine candidates for the
  pivot above 8 instead of 128, blocks of 3 offsets instead of 64, three moves
  instead of nine before a partial insertion sort gives up, and a third instead
  of an eighth of the size as bad: so that seven elements go through every
  branch but the nine candidates, which the patterns of 9, 14 and 19 elements
  reach.  The smallest values that keep the nine candidates apart and a
  shuffled quarter non-empty are assumptions of the module.  `sort_heap` uses
  the numbers of the code; the array it ends with is the one the compiled code
  gives.
* Hash containers: five keys and an initial length of 4 instead of 8, so that
  emplace grows the buckets once and chains wrap around the end before and
  after; displacements up to 3 instead of 255, and two
  values of the higher bits, which are all that their comparison can tell
  apart.  The compiled code, with 300 keys in one chain, loses a key and writes
  through a null pointer (section 8).
* Writer: two writers, two handles and two files are enough for every exchange of
  the one for the other; three bytes in pieces of one and two against buffers of
  none, one and two bytes reach each branch of the three ways to write; one
  failing call.  Three regions: two buffers and a detached one.
* Program: all command lines of up to four words out of sixteen, which hold
  every option of each mode, some with both names; files of up to three bytes, said to be empty, one or
  three bytes long, so that the size is right, too small and too large; a limit of
  memory of 40 and a directory's size of 63 instead of 2^63 - 1.  What others add
  while the program reads ends at four bytes (`MaxFed`): a file that grows for
  ever faster than it is read is never finished.
* Vectors: four elements in two vectors, three in two stack vectors; room for two in
  a stack vector, and growing to two, four, eight, so that blocks are exchanged more
  than once and an erase of several leaves objects that the next elements are
  constructed on.

## 6. Fairness

Each worker is a thread, and the scheduler of the system runs every thread
that can run: weak fairness of each worker's step, and of the main thread's.
No fairness is assumed of a particular choice within a step, except that the
owner of a deque in `FairSpec` keeps popping, as a worker's loop does.  The
scanner is sequential code, which runs until it returns.  `Program` is weakly
fair to `Progress`, the steps of the program itself (a system call that fails
for no reason may happen and need not), and to `HangUp`: whoever has a pipe open
closes it in the end, without which no reader of a pipe ends.  For `Sort` termination
is an action property, `EveryTurnProgresses`, and no fairness is used.

## 7. Proofs

`JobStealingDequeProofs` proves, for every set of jobs, every set of thieves and
every positive initial capacity:

* `InvariantTheorem`: `IndInv` always holds.
* `TypeTheorem`, `HandedOnceTheorem`, `NoJobLostTheorem`, `PopFailsTheorem`: the
  four safety properties the runs check.

The assumptions are those of the module: `InitialCapacity` and `Origin` are
positive, `Jobs` and `Thieves` do not contain the owner or the markers.  None of
the four is inductive.  That a thief with a successful compare-and-swap holds a
job nobody else gets depends on what it read before, in an array that may have
been replaced twice since.  `IndInv` therefore says: (`WindowInv`) the current
array has room for the window from `top` to `bottom`, and the slots of the window
hold different jobs, none of which was handed out; (`OwnerInv`) what the owner
has read agrees with that window at each of its program counters, in particular
that `top` can only have grown; (`ThiefInv`) whatever array a thief
holds, if `top` is still what it read then the slot it will read, or has read,
agrees with the current array; (`ContentsInv`) the jobs pushed are those handed
out, those in the window, and the one on its way in or out.  The step lemmas go
through the actions one by one; resizing is the hard one, because it must
preserve the claim about arrays that are no longer current.

It also proves `LinearizableTheorem` (`Linearizable`) from the
same invariant, step by step: with the mapping of `JobStealingDeque`, the store of
`m_bottom` is the abstract push, the read of `m_top` with jobs left and a
successful compare-and-swap by the owner are the abstract pop, and a successful
compare-and-swap by a thief is the abstract steal.  Every other step changes none
of the mapped variables.  `IndInv` is needed to know that the job a thief read
before its compare-and-swap is still the oldest one of the abstract queue.

`ThreadPoolProofs` proves `TtlCountsTheorem` (`TtlCounts`), `LiveJobsTheorem`
(`UnfinishedJobsAreLive`) and `WaitCoversTreeTheorem` (`WaitCoversTree`), for any
number of workers, any sizes of the job pools and scripts of any length, under one
hypothesis about the script, `RootByRoot`: worker 0 makes a root with
`add_empty_job`, adds jobs to it that call nothing of the pool, waits for it, and
only then makes the next root or shuts the pool down, any number of times.  That is
what `textunpack_unpack` does, once.  The hypothesis is not for convenience.
`finalize_job` reads the parent of a slot that may have been filled again, so for
arbitrary programs a running job may lose its count (`pool_reuse`, section 8); under
`RootByRoot` the job that fills the slot has the same parent as the one before, and
the stale read does no harm.  That it does none is part of what is proved: the
invariant must survive `Claim` on a slot whose finalizer is still at `climb`.

The assumptions are those of `ThreadPool`: there is a worker, the setups and the
bodies are scripts, and `NoJob` is not a job.  The inductive invariant is `PoolInv`:

* `StackInv`: a stack is the script, a job, or the script with one job on top, and
  what is left of the script is in order (`Orderly`).
* `CallInv` says what the place of a worker in the library says of its call: who
  scans is worker 0 with an addition to do, a finalizer that climbs holds a job whose
  parent is the root.
* `JobsInv`: a child that is not done is in exactly one place, a deque or the hands
  of a worker (`Held`), and what is in such a place is a child of the root with the
  count 1 (`Kid`).  This is where the deques come in: a steal moves a job from one
  place to another and never copies it.
* `RootInv`: the count of the root is what the children, the finalizers and the wait
  still owe it.  `fetch_add` comes after the child is claimed, `fetch_sub` after it is
  freed, so the count is never the number of children alone; the last of the three
  terms is why no finalizer but the wait's can bring it to zero (`RootIsAwaited`).

There is one lemma per action (`AddKeeps` ... `JoinedKeeps`); before them stand the
lemmas about frames (`EnterFacts`, `LeaveFacts`, `ReturnFacts`), about the ends of a
deque (`RangeOfAppend`, `RangeOfTail`, `RangeOfFront`) and about steps that leave the
jobs alone (`CalmStep`).  `UnfinishedJobs`, `OwedToOthers` and `AwaitedJobs` then
translate `PoolInv` into the words of the properties.

`FileProofs` proves five theorems about `Writer`'s specification, for any sets of
handles, paths, writers and regions, any number of descriptors, and texts and
buffers of any size; the assumptions are those of `Writer`, explained below with
the regions.

* `DescriptorTheorem` (`HandlesOwnDescriptors`).  The inductive invariant
  (`DescriptorInv`) adds the types of the two tables: without them the descriptor
  that a handle gets need not be a free one.
* `WriterTypeTheorem` (`TypeOK`).
* `FileTheorem` (`FileHoldsTheText`): a file and its writer together hold what was
  written, in order and nothing twice, except what the calls of `::write` that
  failed have dropped, whichever they were.  It is about callers that keep the
  protocol which the guards `Settled` and `Sole` state.

The last one rests on `TextInv`, with `RegionInv` and `DescriptorInv`.  The property
alone is not inductive, for three reasons, and each is a part of `TextInv`:

* A failing call drops bytes that were owed from the middle of a text.  That they
  are well defined, and that taking them away leaves the rest as it was, needs that
  no byte is owed twice and that new bytes are new (`FilesSound`).
* The property chooses some writer that holds text for the file.  It must be the only one,
  and what it has must be exactly what the file lacks (`Tallied`).
* A handle under a writer that holds text must stay valid (`Addressed`), and the path
  behind it must stay the same while other handles are moved, closed and opened.
  The latter is where `DescriptorInv` comes in: two handles with one descriptor could
  not be told apart.

The proof goes up in four layers: pieces put together and bytes taken away
(`JoinedOfTwo`, `RemainingOfTwo`, `RemainingFacts`, `WhatGetsThrough`); one call of
write on a file (`Written`); the plans a writer makes, which keep the order of buffer
and text (`PiecesInOrder`, `PlansInOrder`); then the steps: a flush anywhere
(`FlushedFiles`, `Rearranged`), a writer that loses its text or takes over another's
(`LosesText`, `TakesOverText`), one that is handed more (`HandedOver`), and one lemma
per kind of action up to `TextNext`.

The other two are `RegionTheorem` (`RegionsHaveOneOwner`) and
`StaysInRegionTheorem` (`StaysInRegion`), for any number of writers, regions and
arrays, any width of `size_t` above four bits, and any sizes that satisfy the
assumptions of `Writer`:

* `CapacityAssumption`: capacities that are asked for, and twice the text
  altogether, stay below half of the address space (`ix_MEMORY_LIMIT` is less).
  Without it doubling a capacity would set the bit that means "borrowed".
* `RegionAssumption`: `malloc` has a region for every writer and `MaxDetached`
  more.  The program ends when it has none.
* `NoWriterAssumption`, `WriterAssumption`: the markers differ from what they mark.

The two are proved from one invariant, `RegionInv`, since neither is inductive.
A push stays in its region only if the capacity is what the region has, with the
meaning that the top bit gives it (`Sound`); a text fits into what is left of the
address space only because it is shorter than what was ever written (`SoundWriter`);
and a fresh region is nobody's only because the heap is exactly what is detached
and owned (`Ownership`), which also bounds its size, so that there is a fresh one
(`FreshRegionIsFree` counts the owners).  The lemmas about buffers come first
(`EnsureIsSound`, `StoredIsSound`, `PlansLeave`), then those about one writer that
changes (`OneWriterChanges`) and one that takes over another's region
(`TakingOverKeepsRegions`), then one lemma per action.

`UnpackProofs` proves the four safety properties of the driver, for every archive,
any number of workers, any size of the writers' buffers and any number of writes that
fail, on a file system that has none of the archive's files at the start.
`Unpack` assumes what the scanner and the system guarantee: names are
strings that are not empty, pieces have at least one byte (`InputsAssumption`), and
the markers for "no file" are neither paths nor contents (`MarkersAssumption`).

* `ReportsInvariant` gives `OnlyBlockedTheorem` (`OnlyBlockedEntriesFail`) and
  `ResultTheorem` (`ResultCountsFailures`).  `ReportsInv` says where an entry is
  (`PlaceInv`, `DistinctInv`): with one worker, not added yet, pending or finished.
  Only what leads to a file of the archive is ever made a directory (`DirsInv`), so
  that a `mkdir` that fails since the directory exists is harmless and one that
  fails for another reason means that something is in the way for good
  (`Blocked`).  The counter and the messages are two steps under no common lock:
  `CountInv` says by how many the one is ahead of the other.
* `ContentsInvariant` gives `NoCrossTalkTheorem` (`NoCrossTalk`) and
  `EntriesTheorem` (`EveryEntryIsThereOrReported`).  `ContentsInv` says of each
  worker that its file and its buffer together are bytes of its entry in their
  order, and the beginning of it as long as no write of it failed (`Kept`,
  `WriterInv`), of each file that one worker has it open (`HoldersInv`) or it holds
  one entry that is finished (`DiskInv`), and of each entry that is finished that
  it was reported, has a file, or was written to no file (`DoneInv`).  A write that
  fails at any byte takes a part out of the middle: that what is left is still in
  order does not depend on which part (`KeptWritten`), and that the next write comes
  right behind it rests on the offset, which moves only by what was written.

The two theorems about contents have the hypothesis `Solo(input)`: the system does
not let two jobs have one file open (Windows), or no two entries name one file.
The code needs it: on POSIX two entries with one path overwrite each other
(section 8).  The properties make the same exception where they need it.

`ProgramProofs` proves `ReadsStayTheorem` (`ReadsStayInRegion`), `WholeFileTheorem`
(`LoadsWholeFile`), `NoticedFailuresTheorem` (`NoticedFailuresAreTold`) and
`OptionsTheorem` (`OptionsStandAnywhere`), for every command line of any words and any
length, every file and every way in which its bytes arrive.  The assumptions are those of `Program`:

* `SourcesAssumption`: a size is what an `off_t` can say, or `lseek` fails; nothing
  of a file has been read when it is opened.
* `SizesAssumption`: the first size to read is positive, the limit of memory is below
  the top bit of `size_t` (`ix_MEMORY_LIMIT` is 256 MiB), and there are at least two
  exit statuses.
* `BoundsAssumption`: the bounds of the model are numbers.

`ProgramInvariant` proves them together with what they rest on.  `ReadingInv` says
at every call of `::read` how the text of the buffer is made up: what was there
before, then the file up to where the calls that have returned got; and that what
the current call was asked for fits below the limit of memory.  `PackInv` says that
the markers in the buffer are those of the files before the current one, each of
which is closed before the next begins: `NoticedFailuresAreTold` promises an entry for
every file before the first byte is written, and this is what the last file leaves to show.  The first lemmas go
through the command line (`EatBooleanKeeps` to `DecideFacts`: whatever the words,
the result is one of the ways to go on) and through the buffer (`ReserveFacts`,
`EnsureFacts`, `PushFacts`).

`OptionsTheorem` is about the command line alone; its invariant, `DecidedInv`, says
that what was decided is `Decide` of the arguments.  The argument goes over lists of
words cut in pieces: an option that is moved in front of the others is eaten with the
same effect, and what is left is the same list (`MovedFound` for a switch, `MovedKey`
for a key and its value); another word that is eaten before leaves the two lists in
the same relation (`MovedEaten`).  `SwitchAnywhere` and `PackKeyAnywhere`,
`ReadKeyAnywhere` then go through `Decide` in the order in which `textunpack_main`
asks.

`VectorsProofs` proves `SequenceTheorem` (`HoldsTheSequence`) and `AliveTheorem`
(`ObjectsAreAliveInTurn`), for any number of vectors or stack vectors, any elements
and any sizes.  The assumptions are those of `Vectors`: `VectorsAssumption` says that
the markers differ from what they mark and that the sizes are numbers;
`BlocksAssumption` that `malloc` has more blocks than there are vectors, since one
that grows has two for a moment.

The inductive invariant is `VectorsInv`.  The two properties are not inductive, the
first because it does not say what is behind the last element: the next one is
constructed there, which is right only in raw memory.  `Good` therefore says what
every cell is.  That elements are alive in turn is no invariant of the operations
at all while they run, so the lemmas about loops come first: `Runs` is a loop as the
list of its steps, each of which must be legal in the cells it finds, and
`CopyBackwards`, `MoveUp`, `MoveDown`, `CopyToFresh` and `PutValues` say of the loops
of `insert` and `erase` that they are legal, and what they make of the cells.  It is
here that the direction matters: going from the front to the back, `CopyBackwards`
would copy a cell that is already overwritten.  The operations are then loops one
after the other (`Then`), one lemma for each (`InsertKeeps`, `InsertRangeKeeps` with
its three cases, `EraseKeeps`, ...); `SplicedFacts` gives the element at each place of
the sequence they stand for.  The blocks come last: `Owners` says that what is
allocated is exactly what the vectors have, each its own, which also shows that there
is a fresh block (`FreshBlockIsFree`, by the pigeonhole principle).

`SortProofs` proves all the properties of `Sort`: `SameElementsTheorem`
(`SameElements`), `StaysInsideTheorem` (`StaysInside`), `SeparatedTheorem`
(`Separated`), `SortedTheorem` (`SortedUnlessHeapSort`) and `ProgressTheorem`
(`EveryTurnProgresses`), for every array of integers, with and without the branchless
partition, and for all thresholds that satisfy `ThresholdAssumption`: the smallest
segment that is partitioned has four elements and nine candidates are different
elements, the sizes of blocks and of the fraction are positive.  The thresholds of the
code are among them.

The five follow from one inductive invariant, `SortInv`.  It says of each action more
than they do:

* The array is the input composed with a permutation (`Rearranged`), and a step
  permutes only the segment of the current call.  Equal numbers of equal elements, as
  `SameElements` says it, would not tell where elements went; a permutation that is the
  identity outside a segment keeps every border of that segment (`RearrangedBorder`).
* The segment of every call lies between two borders (`GoodCalls`): nothing before a
  border is greater than anything behind it.
* Every border that is still missing is inside the segment of some call (`Covered`),
  unless heap sort was used.  When no call is left all borders are there, which is that
  the array is sorted.  The property about the end alone says nothing before the end.
* The partition that is going on has the form that its next turn relies on:
  `RightPart`, `LeftPart` and `BlockPart`.  The first two hold the sentinel
  that keeps each search without bounds check inside: until the ends have met, the pair
  just found is exchanged first, so that each search has an element to stop at.
  `BlockPart` says that the offsets left in a block list exactly the elements on the wrong
  side among those scanned, in order, and that at most one block has any left.

The lemmas come in the order of the code: permutations and swaps; insertion sort, which
may run without a bound only because of the border (`Guarded`); heap sort, which
permutes although it does not sort (`SiftedDownIs` holds for any root and length that
stay inside, and the exchanged arguments do); the two partitions; the blocks, where a
cycle through pairs (`ExchangedChangesSides`) and pairs swapped one by one
(`SwapsChangeSides`) both send every element of one list to the other side; the stack of
calls (`CallReturns`, `CallSplits`, `CallShrinks`).  Then there is one lemma per action
(`SmallStep` ... `BalancedStep`).  `Work` is a sum over the stack, and `WorkOfLonger`
says what one call more adds to it.  Recursive functions are shown to have their
defining equation by `RecursionExists`: a function defined by recursion exists if a rank
decreases.

`ProofLemmas` has what more than one of these needs. The provers cannot apply an
induction theorem, since it takes an operator, but they can apply the well-ordering
of the numbers: `LeastNatural` gives a least counterexample, and that is how each
fact by induction is proved here (for sequences, `ShortestSequence` in
`FileProofs`). `Accumulates` describes a function that joins the pieces of a
sequence one after the other; it exists, only grows, and what it makes of two parts
joined is the two results joined (`AccumulationExists`, `AccumulationGrows`,
`AccumulationSplits`). `Beginning` in `Unpack` and `Markers` in `Program` are such
functions.

Only model-checked:

* `ThreadPool` for other programs: jobs that add jobs, or wait, inside jobs.  With
  them the properties hold only as long as no slot is filled again before its
  finalizer has read its parent, as in the setups of `pool`.
* `Archive` and `HashContainers`.
* `StopsForItsInputs` of `Program`, which does not hold for arbitrarily long files:
  doubling the size to read may pass the limit of memory on the way.
* The liveness properties, of the deque, the pool, the driver, the program:
  liveness is out of TLAPS's reach.

## 8. What the runs found

* `pool_reuse`: `finalize_job` reads `j->parent` after the decrement that makes
  the slot of `j` free.  The worker that owns the slot may have filled it
  again.  In the run the finalizer then takes the `ttl` of a running job to 0,
  against the assertion in `get_current_job`.
* `unpack_invalid`: when directories cannot be made,
  `ix_create_directories_and_file` returns `ix_FileHandle()`, which converts to
  an option that is not an error.  The entry is lost without a message, and the
  exit status does not count it.
* `sort_heap`: when `pdqsort_loop` falls back to heap sort, `sort_heap` calls
  `sift_down` with its arguments exchanged, and the segment stays unsorted.

Seen while modelling, without a run of their own:

* Two entries with one path: the test at `textunpack/textunpack_cli.cpp` 724-768
  expects `Failed to open`; the POSIX branch (`ix/ix_file.cpp` 976) opens the
  file twice, the entries overwrite each other, and nobody reports it.  `NoCrossTalk`
  and `EveryEntryIsThereOrReported` say what the file may hold then.
* A write that fails (`ix/ix_file.cpp` 1123) drops what is left and tells nobody: the
  file of an entry, or the archive that is packed, is cut short, and the exit status is
  0.  `EveryEntryIsThereOrReported` and `NoticedFailuresAreTold` are stated with
  this exception; what a status of 0 says is that no failure was noticed.
* An entry without END line is written with the NUL that `textunpack_main`
  appends to its input (`textunpack/textunpack_cli.cpp` 342); the tests compare C
  strings and cannot see it.
* Saturated displacements: `emplace_bucket` (`ix/ix_hash_container_detail.cpp` 24)
  may shift a key behind one with the same saturated displacement and smaller
  higher bits, where no search gets, and `erase` subtracts one from saturated
  displacements.  In the compiled code 300 keys in one chain lose a key, and then
  an erase writes through a null pointer.
* `--num-threads 0` passes the check and aborts in `ix_ThreadPool`'s `reserve`; a
  directory given as the archive aborts in `load_file_handle`, because some file
  systems say it is 2^63 - 1 bytes long.  `StopsForItsInputs` allows just these.
* The word `p`, wherever it stands, is eaten as `--pack`
  (`textunpack/textunpack_cli.cpp` 257), which the help text does not say; `-p`
  is not eaten.  `-W` silences the errors of packing and unpacking too.  The exit status is the
  number of failures modulo 256: 256 failures are a success.
  `NoticedFailuresAreTold` is stated with these exceptions.
* `ix_StackVector::reserve` (`ix/ix_StackVector.hpp` 216) destructs the bytes of
  `m_initial_data` and not its elements, which are left as they were moved from.
  `ix_Vector_erase` of several elements (`ix/ix_Vector_util.hpp` 190) destructs one of
  them; it is only used for pointers.  `Vectors` has both (`Left`), and
  `ObjectsAreAliveInTurn` says that nothing else is left.  `ix_Vector::push_back` of one of its own elements reads it after it
  was moved away if the vector has to grow.
* The assignment of an `ix_Buffer` frees what it had, an array it borrowed
  included (`ix/ix_Buffer.cpp` 72): callers do not assign to such buffers.

## 9. Not modelled, and simplifications

* The memory orders of the deque's atomics, and the relaxed ones of `ttl`: all
  steps are sequentially consistent.
* Grain of the thread pool: the check of the `ttl` in `wait` (`ix/ix_ThreadPool.cpp`
  378) is one step with the pop or the steal that follows it, and so are `steal_top`
  and the push of what was stolen (280-285); the number of workers (259) is the one
  at the moment of the steal; the append to the vector of workers (419) is one step;
  `finalize_job` reads `j->parent` once and not twice (240 and 245), both after the
  slot is free.
* Job pools that are full of roots nobody waits for (they spin for ever),
  initial capacities that are no power of two.
* The branch of `ix_create_directories_and_file` for directories of exactly
  `ix_MAX_PATH` characters (it returns like a failed directory); files and directories
  that are there before `Unpack` starts.
* Archives whose last line is a BEGIN without newline; `#+EXPORT_BEGINx` in the
  first line (the first search does not compare the blank); quoted markers in the
  middle of a line in the round trip (the code strips them, `--pack` does not
  quote).
* Reserving fewer elements in a hash container than it holds; what the hash
  containers do once a saturated displacement has misled them.
* Files: temporary names, removal, renaming, locks, mapping, seeking and
  truncating, each one system call; the branches for Windows but the sharing of
  open files.
* Command line: numerals come with their values (`strtoul` does the work), words
  are compared as wholes.
* Vectors: constructors from ranges and lists are reserving and appending; spans
  and array views change nothing.  The branches for types that are moved by
  `memmove` have no steps of their own.
* Writer: the assignment to a buffer that has borrowed its array (`ix/ix_Buffer.cpp`
  72, section 8).
* The logger prints under one mutex; behind it is only the time of the previous
  message, which is read before the lock and written after it, so that two
  threads may see a negative difference.  The system manager is a stack of
  functions that one thread fills and empties once.
* Strings, parsing and formatting of numbers, arithmetic, hashing, random
  numbers, time: functions without state, or with numerical properties at a
  width TLC cannot enumerate.  The test framework, the Windows layer, vendored and
  generated code (`amalgam.cpp` repeats the whole program in one file).

## 10. Plan

1. (done) The deque, its abstract queue, its proofs.
2. (done) The thread pool.
3. (done) The driver with the file system; the archive format; sorting.
4. (done) The hash containers; files, buffers and writers; the command line and
   the program around it; vectors.
5. (done) Proofs about `Files` and `Writer`: `HandlesOwnDescriptors`,
   `RegionsHaveOneOwner`, `StaysInRegion`.
6. (done) The deque's refinement; the safety properties of the driver, with writes
   that fail; what the program reads, its exit status, and where its options stand.
7. (done) The safety properties of the pool, as the program uses it.
8. (done) What a file gets through its writers; what vectors hold; that the sort sorts.
9. Theorems about `HashContainers`; the pool with jobs inside jobs, on condition
   that no slot is filled again while its finalizer has not read its parent.
