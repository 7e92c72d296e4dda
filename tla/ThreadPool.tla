----------------------------- MODULE ThreadPool -----------------------------
(***************************************************************************)
(* ix_ThreadPool and ix_Worker (ix_ThreadPool.cpp): fork-join jobs on a    *)
(* work-stealing pool.  Worker 0 is the thread that owns the pool (it runs *)
(* the script of its setup); each other worker is a thread that loops over *)
(* execute_job_maybe.                                                      *)
(*                                                                         *)
(* The deques are the atomic queues that JobStealingDeque is shown to      *)
(* implement.  Every access to a field of a job that another thread may    *)
(* touch (ttl, parent) is an action of its own.  What the program gives    *)
(* the pool to do is a script: a sequence of the calls below.              *)
(*   [op |-> "empty"]            root = add_empty_job()                    *)
(*   [op |-> "root", entry |-> e]   root = add_job(e)                      *)
(*   [op |-> "child", entry |-> e]  add_job(root, e), or, from a job that  *)
(*                      made no root, add_job(get_current_job(), e)        *)
(*   [op |-> "wait"]                wait(root)                             *)
(*   [op |-> "shutdown"]            the pool's shutdown(), by worker 0     *)
(***************************************************************************)
EXTENDS Integers, Sequences, FiniteSets, Functions

CONSTANTS
  NumWorkers,    \* m_option.num_worker_threads
  MaxPoolSize,   \* the largest m_option.job_pool_size
  Entries,       \* the functions jobs are made of
  Body,          \* what each of them does: a script
  Setups,        \* the options of the pool, each with what worker 0 does: a script
  NoJob          \* nullptr

ASSUME WorkersAssumption == NumWorkers \in Nat \ {0}

\* The calls of a script.
Ops == [op : {"empty", "wait", "shutdown"}] \cup [op : {"root", "child"}, entry : Entries]

ASSUME SetupsAssumption ==
  Setups \subseteq [job_pool_size : 1 .. MaxPoolSize, spwan_workes_lazily : BOOLEAN,
                    main : Seq(Ops)]
ASSUME BodyAssumption == Body \in [Entries -> Seq(Ops)]
ASSUME PoolAssumption == MaxPoolSize \in Nat /\ NoJob \notin (0 .. NumWorkers - 1) \X Nat

VARIABLES
  option,               \* m_option, with the script
  ttl, parent, entry,   \* the fields of every ix_Job
  next,                 \* m_next_job_index % m_job_pool.size() of each worker
  deque,                \* m_jobs of each worker, the oldest job first
  stack,                \* the call stack of each worker, the innermost job last
  call,                 \* the library call each worker is in
  spawned,              \* m_workers.size()
  stopping,             \* m_should_die of the extra workers
  exited,               \* the extra workers whose thread function has returned
  ancestor              \* history: the root of the tree each job belongs to

fields == <<ttl, parent, entry, ancestor>>
threads == <<option, spawned, stopping, exited>>
vars == <<fields, next, deque, stack, call, threads>>

Workers == 0 .. NumWorkers - 1
PoolSize == option.job_pool_size
Slots == 0 .. MaxPoolSize - 1
JobIds == Workers \X Slots    \* job i of the pool of worker w

\* pc "run": at the head of the script of the innermost frame, or in the loop
\* of the thread function when there is no frame.
Running == [pc |-> "run", job |-> NoJob, n |-> 0, victim |-> 0]

Frame(j, code) == [job |-> j, code |-> code, root |-> NoJob, first |-> 0]

Init ==
  /\ option \in Setups
  /\ ttl = [j \in JobIds |-> 0]
  /\ parent = [j \in JobIds |-> NoJob]
  /\ entry = [j \in JobIds |-> CHOOSE e \in Entries : TRUE]
  /\ ancestor = [j \in JobIds |-> NoJob]
  /\ next = [w \in Workers |-> 0]
  /\ deque = [w \in Workers |-> <<>>]
  /\ stack = [w \in Workers |-> IF w = 0 THEN <<Frame(NoJob, option.main)>> ELSE <<>>]
  /\ call = [w \in Workers |-> Running]
  /\ spawned = IF option.spwan_workes_lazily THEN 0 ELSE NumWorkers
  /\ stopping = FALSE
  /\ exited = {}

-----------------------------------------------------------------------------
(* The frame and the call a worker is in.                                  *)

Started(w) == w < spawned /\ w \notin exited

Top(w) == stack[w][Len(stack[w])]

\* The next call of the innermost script of w is one of `ops'.
AtOp(w, ops) ==
  /\ stack[w] # <<>>
  /\ Top(w).code # <<>>
  /\ Head(Top(w).code).op \in ops

At(w, pc) == call[w].pc = pc

Goto(w, pc) == call' = [call EXCEPT ![w].pc = pc]

\* The call at the head of the innermost script returns; r is its root now.
Return(w, r) ==
  /\ stack' = [stack EXCEPT ![w][Len(stack[w])] =
                 [Top(w) EXCEPT !.code = Tail(@), !.root = r, !.first = 0]]
  /\ call' = [call EXCEPT ![w] = Running]

\* The job a child is added to.
ParentOfChild(w) == IF Top(w).root # NoJob THEN Top(w).root ELSE Top(w).job

-----------------------------------------------------------------------------
(* add_empty_job, add_job, allocate_job                                    *)

AddOps == {"empty", "root", "child"}

\* The pool's add_empty_job and add_job start a worker if workers are missing;
\* a worker's own start none.  Then allocate_job starts its scan.
Add(w) ==
  /\ At(w, "run") /\ AtOp(w, AddOps)
  /\ stack' = [stack EXCEPT ![w][Len(stack[w])].first = next[w]]
  /\ call' = [call EXCEPT ![w] = [Running EXCEPT !.pc = "scan"]]
  /\ LET wanted == IF AtOp(w, {"empty"}) THEN 1 ELSE NumWorkers
     IN  spawned' = IF Top(w).job = NoJob /\ spawned < wanted
                    THEN spawned + 1 ELSE spawned
  /\ UNCHANGED <<fields, next, deque, option, stopping, exited>>

Candidate(w) == <<w, (Top(w).first + call[w].n) % PoolSize>>

\* One job of the ring is looked at: it is in use.
ScanNext(w) ==
  /\ At(w, "scan")
  /\ ttl[Candidate(w)] # 0
  /\ call' = IF call[w].n + 1 < PoolSize THEN [call EXCEPT ![w].n = @ + 1]
             ELSE [call EXCEPT ![w].pc = "full", ![w].n = 0]
  /\ UNCHANGED <<fields, next, deque, stack, threads>>

\* One job of the ring is looked at: it is free, and becomes the new job.
Claim(w) ==
  LET j == Candidate(w)
      op == Head(Top(w).code)
  IN  /\ At(w, "scan")
      /\ ttl[j] = 0
      /\ next' = [next EXCEPT ![w] = (@ + 1) % PoolSize]
      /\ \/ /\ op.op = "empty"
            /\ parent' = [parent EXCEPT ![j] = NoJob]
            /\ ttl' = [ttl EXCEPT ![j] = 1]
            /\ ancestor' = [ancestor EXCEPT ![j] = j]
            /\ Return(w, j)
            /\ UNCHANGED entry
         \/ /\ op.op = "root"
            /\ parent' = [parent EXCEPT ![j] = NoJob]
            /\ ttl' = [ttl EXCEPT ![j] = 2]
            /\ ancestor' = [ancestor EXCEPT ![j] = j]
            /\ entry' = [entry EXCEPT ![j] = op.entry]
            /\ call' = [call EXCEPT ![w] = [Running EXCEPT !.pc = "push", !.job = j]]
            /\ UNCHANGED stack
         \/ /\ op.op = "child"
            /\ parent' = [parent EXCEPT ![j] = ParentOfChild(w)]
            /\ ttl' = [ttl EXCEPT ![j] = 1]
            /\ ancestor' = [ancestor EXCEPT ![j] = ancestor[ParentOfChild(w)]]
            /\ entry' = [entry EXCEPT ![j] = op.entry]
            /\ call' = [call EXCEPT ![w] = [Running EXCEPT !.pc = "adopt", !.job = j]]
            /\ UNCHANGED stack
  /\ UNCHANGED <<deque, threads>>

\* The parent must outlive its new child.
Adopt(w) ==
  /\ At(w, "adopt")
  /\ ttl' = [ttl EXCEPT ![ParentOfChild(w)] = @ + 1]
  /\ Goto(w, "push")
  /\ UNCHANGED <<parent, entry, ancestor, next, deque, stack, threads>>

Push(w) ==
  /\ At(w, "push")
  /\ deque' = [deque EXCEPT ![w] = Append(@, call[w].job)]
  /\ Return(w, IF AtOp(w, {"root"}) THEN call[w].job ELSE Top(w).root)
  /\ UNCHANGED <<fields, next, threads>>

-----------------------------------------------------------------------------
(* execute_job_maybe, get_executable_job                                   *)

\* w is in a loop over execute_job_maybe: the thread function's, wait's, or
\* allocate_job's when every job of the pool is in use.  A thread may have
\* read m_should_die before it was set.
Executing(w) ==
  /\ Started(w)
  /\ \/ At(w, "run") /\ stack[w] = <<>>
     \/ At(w, "wait") /\ ttl[Top(w).root] # 1
     \/ At(w, "full")

\* execute_job_maybe runs the entry of j on top of what w was doing.
Enter(w, j) ==
  /\ stack' = [stack EXCEPT ![w] = Append(@, Frame(j, Body[entry[j]]))]
  /\ call' = [call EXCEPT ![w] = Running]

PopOwn(w) ==
  LET n == Len(deque[w])
  IN  /\ Executing(w)
      /\ n > 0
      /\ deque' = [deque EXCEPT ![w] = SubSeq(@, 1, n - 1)]
      /\ Enter(w, deque[w][n])
      /\ UNCHANGED <<fields, next, threads>>

StealFirst(w, v) ==
  /\ Executing(w)
  /\ deque[w] = <<>>
  /\ v # w /\ v < spawned /\ deque[v] # <<>>
  /\ deque' = [deque EXCEPT ![v] = Tail(@)]
  /\ call' = [call EXCEPT ![w] = [pc |-> "count", job |-> Head(deque[v]),
                                  n |-> spawned, victim |-> v]]
  /\ UNCHANGED <<fields, next, stack, threads>>

\* How many more to take follows from the victim's size, read on its own, and
\* the number of workers at the start of the search.
StealCount(w) ==
  LET size == Len(deque[call[w].victim])
      share == (2 * size) \div call[w].n
  IN  /\ At(w, "count")
      /\ call' = [call EXCEPT ![w].pc = "batch",
                              ![w].n = IF share = 0 THEN 1 ELSE share]
      /\ UNCHANGED <<fields, next, deque, stack, threads>>

\* Mutant: the victim keeps what it is robbed of.
StealCopies(w) ==
  LET v == call[w].victim
  IN  /\ At(w, "batch")
      /\ call[w].n > 0 /\ deque[v] # <<>>
      /\ deque' = [deque EXCEPT ![w] = Append(@, Head(deque[v]))]
      /\ call' = [call EXCEPT ![w].n = @ - 1]
      /\ UNCHANGED <<fields, next, stack, threads>>

StealMore(w) ==
  LET v == call[w].victim
  IN  /\ At(w, "batch")
      /\ call[w].n > 0 /\ deque[v] # <<>>
      /\ deque' = [deque EXCEPT ![v] = Tail(@), ![w] = Append(@, Head(deque[v]))]
      /\ call' = [call EXCEPT ![w].n = @ - 1]
      /\ UNCHANGED <<fields, next, stack, threads>>

\* The batch is complete, or steal_top failed, as it may at any time.
StealDone(w) ==
  /\ At(w, "batch")
  /\ Enter(w, call[w].job)
  /\ UNCHANGED <<fields, next, deque, threads>>

\* allocate_job scans again, whether or not execute_job_maybe found a job.
Rescan(w) ==
  /\ At(w, "full")
  /\ deque[w] = <<>>
  /\ Goto(w, "scan")
  /\ UNCHANGED <<fields, next, deque, stack, threads>>

-----------------------------------------------------------------------------
(* finalize_job, wait                                                      *)

\* An entry has returned: its worker finalizes the job.
Finish(w) ==
  /\ At(w, "run")
  /\ stack[w] # <<>> /\ Top(w).code = <<>> /\ Top(w).job # NoJob
  /\ call' = [call EXCEPT ![w] = [Running EXCEPT !.pc = "release", !.job = Top(w).job]]
  /\ UNCHANGED <<fields, next, deque, stack, threads>>

Wait(w) ==
  /\ At(w, "run") /\ AtOp(w, {"wait"})
  /\ Goto(w, "wait")
  /\ UNCHANGED <<fields, next, deque, stack, threads>>

\* The loop of wait ends when only the waiter holds the job.
WaitOver(w) ==
  /\ At(w, "wait")
  /\ ttl[Top(w).root] = 1
  /\ call' = [call EXCEPT ![w] = [Running EXCEPT !.pc = "release", !.job = Top(w).root]]
  /\ UNCHANGED <<fields, next, deque, stack, threads>>

\* Mutant: a finalizer goes on to the parent of a job that is not done.
ReleaseAlwaysDone(w) ==
  LET j == call[w].job
  IN  /\ At(w, "release")
      /\ ttl' = [ttl EXCEPT ![j] = @ - 1]
      /\ call' = [call EXCEPT ![w].pc = "climb", ![w].n = 1]
      /\ UNCHANGED <<parent, entry, ancestor, next, deque, stack, threads>>

\* fetch_sub on ttl; n remembers whether the job is done.
Release(w) ==
  LET j == call[w].job
  IN  /\ At(w, "release")
      /\ ttl' = [ttl EXCEPT ![j] = @ - 1]
      /\ call' = [call EXCEPT ![w].pc = "climb", ![w].n = IF ttl[j] = 1 THEN 1 ELSE 0]
      /\ UNCHANGED <<parent, entry, ancestor, next, deque, stack, threads>>

\* finalize_job returns: from wait, or from a job to the loop that ran it,
\* which is allocate_job's, wait's or the thread function's.
Finalized(w) ==
  LET below == SubSeq(stack[w], 1, Len(stack[w]) - 1)
      pc == IF below = <<>> THEN "run"
            ELSE IF Head(below[Len(below)].code).op = "wait" THEN "wait" ELSE "scan"
  IN  IF AtOp(w, {"wait"}) THEN Return(w, NoJob)
      ELSE /\ stack' = [stack EXCEPT ![w] = below]
           /\ call' = [call EXCEPT ![w] = [Running EXCEPT !.pc = pc]]

\* Mutant: a finished child never tells its parent.
ClimbNowhere(w) ==
  /\ At(w, "climb")
  /\ Finalized(w)
  /\ UNCHANGED <<fields, next, deque, threads>>

\* finalize_job reads j->parent after the fetch_sub that may have freed j.
Climb(w) ==
  LET p == parent[call[w].job]
  IN  /\ At(w, "climb")
      /\ \/ /\ call[w].n = 1 /\ p # NoJob
            /\ call' = [call EXCEPT ![w].pc = "release", ![w].job = p]
            /\ UNCHANGED stack
         \/ /\ call[w].n = 0 \/ p = NoJob
            /\ Finalized(w)
      /\ UNCHANGED <<fields, next, deque, threads>>

-----------------------------------------------------------------------------
(* shutdown                                                                *)

\* Mutant: shutdown joins threads it did not tell to stop.
ShutdownUntold ==
  /\ At(0, "run") /\ AtOp(0, {"shutdown"})
  /\ Goto(0, "join")
  /\ UNCHANGED <<fields, next, deque, stack, threads>>

Shutdown ==
  /\ At(0, "run") /\ AtOp(0, {"shutdown"})
  /\ stopping' = TRUE
  /\ Goto(0, "join")
  /\ UNCHANGED <<fields, next, deque, stack, option, spawned, exited>>

ThreadExit(w) ==
  /\ w # 0 /\ Started(w) /\ stopping
  /\ At(w, "run") /\ stack[w] = <<>>
  /\ exited' = exited \cup {w}
  /\ UNCHANGED <<fields, next, deque, stack, call, option, spawned, stopping>>

\* All threads are joined and the workers destroyed, with the jobs they hold.
Joined ==
  /\ At(0, "join")
  /\ \A w \in 1 .. spawned - 1 : w \in exited
  /\ ttl' = [j \in JobIds |-> 0]
  /\ parent' = [j \in JobIds |-> NoJob]
  /\ ancestor' = [j \in JobIds |-> NoJob]
  /\ next' = [w \in Workers |-> 0]
  /\ deque' = [w \in Workers |-> <<>>]
  /\ Return(0, NoJob)
  /\ spawned' = 0 /\ stopping' = FALSE /\ exited' = {}
  /\ UNCHANGED <<entry, option>>

-----------------------------------------------------------------------------

Step(w) ==
  \/ Add(w) \/ ScanNext(w) \/ Claim(w) \/ Adopt(w) \/ Push(w)
  \/ PopOwn(w) \/ (\E v \in Workers : StealFirst(w, v))
  \/ StealCount(w) \/ StealMore(w) \/ StealDone(w) \/ Rescan(w)
  \/ Finish(w) \/ Wait(w) \/ WaitOver(w) \/ Release(w) \/ Climb(w)
  \/ ThreadExit(w)

Next == (\E w \in Workers : Step(w)) \/ Shutdown \/ Joined

Spec == Init /\ [][Next]_vars

\* Every thread keeps running, and a loop over execute_job_maybe that can find
\* a job does: it probes every other worker in each round, and steal_top fails
\* only because some thread took a job, which happens once per job.
FairSpec == Spec /\ WF_vars(Shutdown \/ Joined) /\ \A w \in Workers : WF_vars(Step(w))

-----------------------------------------------------------------------------
(* Properties                                                              *)

\* The jobs that are waiting to run: in a deque, or in the hands of a worker
\* about to push or to enter them.
Waiting == (UNION {Range(deque[w]) : w \in Workers})
           \cup {call[w].job : w \in {x \in Workers :
                               call[x].pc \in {"adopt", "push", "count", "batch"}}}

\* The finalizer that runs in the innermost frame of w: of the waiter, or of
\* the job whose entry has returned.
Finalizing(w) == call[w].pc \in {"release", "climb"}

\* The jobs whose entry has been entered and has not returned.
Active ==
  (UNION {{stack[w][i].job : i \in {n \in DOMAIN stack[w] :
             n = Len(stack[w]) /\ Finalizing(w) => AtOp(w, {"wait"})}} : w \in Workers})
  \ {NoJob}

\* ix_ASSERT(job->ttl != 0) in get_executable_job, ix_ASSERT(job->ttl > 0) in
\* steal_top and get_current_job: no job is freed before its entry returns, so
\* no slot is reused under a job that still waits or runs.
UnfinishedJobsAreLive == \A j \in Waiting \cup Active : ttl[j] > 0

\* The same assertion where get_current_job evaluates it: at a call by which a
\* running entry adds a child to itself.
CurrentJobIsLive ==
  \A w \in Workers :
    At(w, "run") /\ AtOp(w, {"child"}) /\ Top(w).root = NoJob => ttl[Top(w).job] > 0

\* wait(root) returns only after the entry of every job of the tree of root has
\* returned, on whichever worker it ran: what cli.cpp relies on when it reads
\* the number of failed entries.
WaitCoversTree ==
  \A w \in Workers :
    call[w].pc = "release" /\ AtOp(w, {"wait"}) =>
      /\ ttl[Top(w).root] = 1
      /\ \A j \in Waiting \cup Active : ancestor[j] # Top(w).root

\* ttl counts exactly what keeps a job: its own entry until it has returned,
\* the wait that is to come, every child added to it and not freed yet, and
\* every subtraction a finalizer has decided on and not carried out.  One count
\* too few and a slot is reused under a running job; one too many and wait
\* never returns.
Owed(j) ==
  Cardinality({k \in JobIds : k # j /\ parent[k] = j /\ ttl[k] > 0
                 /\ \A w \in Workers : ~(At(w, "adopt") /\ call[w].job = k)})
  + Cardinality({w \in Workers : At(w, "climb") /\ call[w].n = 1
                                  /\ parent[call[w].job] = j})
  + Cardinality({w \in Workers : At(w, "release") /\ call[w].job = j})

Awaited(j) ==
  \E w \in Workers :
    \/ At(w, "push") /\ AtOp(w, {"root"}) /\ call[w].job = j
    \/ \E i \in DOMAIN stack[w] :
         /\ stack[w][i].root = j
         /\ i = Len(stack[w]) /\ Finalizing(w) => ~AtOp(w, {"wait"})

TtlCounts ==
  \A j \in JobIds :
    ttl[j] = Owed(j) + (IF j \in Waiting \cup Active THEN 1 ELSE 0)
                     + (IF Awaited(j) THEN 1 ELSE 0)

\* Whatever is waited for is waited for in vain by nobody: the calls of worker 0
\* all return, even when jobs wait for jobs inside other jobs, when the job
\* pool is full, and when the pool is shut down with jobs left.
MainReturns == <>(stack[0] # <<>> /\ Len(stack[0]) = 1 /\ stack[0][1].code = <<>>)
=============================================================================
