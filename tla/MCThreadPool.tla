---------------------------- MODULE MCThreadPool ----------------------------
(***************************************************************************)
(* Programs for the thread pool, small enough to explore: what textunpack  *)
(* does with it, and what the tests of ix_ThreadPool.cpp do.               *)
(***************************************************************************)
EXTENDS ThreadPool

Empty == [op |-> "empty"]
Await == [op |-> "wait"]
Stop == [op |-> "shutdown"]
Root(e) == [op |-> "root", entry |-> e]
Child(e) == [op |-> "child", entry |-> e]

MCEntries == {"leaf", "parent", "waiter"}

\* "parent" adds two jobs to itself ("job addition from a job"); "waiter" makes a
\* root of its own and waits for it ("wait from a job").
MCBody == [e \in MCEntries |->
  CASE e = "leaf" -> <<>>
    [] e = "parent" -> <<Child("leaf"), Child("leaf")>>
    [] e = "waiter" -> <<Root("leaf"), Await>>]

Setup(size, lazily, main) ==
  [job_pool_size |-> size, spwan_workes_lazily |-> lazily, main |-> main]

\* textunpack_cli.cpp: one root, one job per entry of the archive, more jobs than
\* the job pool holds.
Flat ==
  Setup(3, FALSE,
    <<Empty, Child("leaf"), Child("leaf"), Child("leaf"), Child("leaf"), Child("leaf"), Await>>)

\* Jobs that add jobs, and a job that waits inside another.
Nested == Setup(6, FALSE, <<Empty, Child("parent"), Child("waiter"), Await>>)

\* "lazy spawn" and "many reallocation": workers start one by one, a pool is
\* shut down with jobs left and used again.
Lazy ==
  Setup(5, TRUE,
    <<Empty, Child("leaf"), Child("parent"), Child("leaf"), Stop,
      Root("parent"), Child("leaf"), Await, Stop>>)

MCSetups == {Flat, Nested, Lazy}

\* A slot is free for reuse while the finalizer of its last job still reads it.
ReuseSetups == {Setup(3, FALSE, <<Empty, Child("leaf"), Child("parent"), Await>>)}
=============================================================================
