-------------------------- MODULE JobStealingDeque --------------------------
(***************************************************************************)
(* ix_JobStealingDeque (ix_ThreadPool.hpp, ix_ThreadPool.cpp): the         *)
(* circular work-stealing deque in which every worker keeps its jobs.      *)
(*                                                                         *)
(* One thread, the owner, calls push_bottom and pop_bottom; any number of  *)
(* thieves call steal_top.  Every access to a location that two threads    *)
(* share (m_top, m_bottom, m_job_array, a slot) is one action, so every    *)
(* interleaving of these accesses is a behaviour.  Memory is sequentially  *)
(* consistent: the reorderings that the two seq_cst fences forbid are not  *)
(* behaviours of this module.                                              *)
(*                                                                         *)
(* m_bottom and m_job_array are written by the owner only, so the owner's  *)
(* local copies `b' and `job_array' are these variables themselves.        *)
(***************************************************************************)
EXTENDS Integers, Sequences

CONSTANTS
  Jobs,             \* the jobs the owner may push, each at most once
  NoJob,            \* nullptr
  Garbage,          \* the content of a slot that was never written
  Owner,            \* the worker that owns the deque
  Thieves,          \* the workers that steal from it
  Origin,           \* MAX_NUM_NATIVE_THREADS: where m_top and m_bottom start
  InitialCapacity   \* m_initial_capacity

ASSUME OriginAssumption == Origin \in Nat \ {0}
ASSUME CapacityAssumption == InitialCapacity \in Nat \ {0}
ASSUME NamesAssumption ==
  /\ Owner \notin Thieves
  /\ NoJob \notin Jobs
  /\ Garbage \notin Jobs \cup {NoJob}

VARIABLES
  top,      \* m_top
  bottom,   \* m_bottom
  arrays,   \* every JobArray allocated: the last is m_job_array, the others
            \* are m_garbages, which nothing frees while the deque lives
  local,    \* for each thread: where it is and its local variables
  pushed,   \* history: the jobs whose push_bottom has taken effect
  taken     \* history: how often each job was handed to each thread

shared == <<top, bottom, arrays>>
history == <<pushed, taken>>
vars == <<top, bottom, arrays, local, pushed, taken>>

Threads == Thieves \cup {Owner}

Idle == [pc |-> "idle", t |-> 0, array |-> 0, job |-> NoJob]

PCs == {"idle", "push_resize", "push_slot", "push_bottom",
        "pop_top", "pop_cas", "pop_restore",
        "steal_bottom", "steal_array", "steal_slot", "steal_cas"}

\* Mutant: the indices start at zero.
InitAtZero ==
  /\ top = 0 /\ bottom = 0
  /\ arrays = <<>>
  /\ local = [p \in Threads |-> Idle]
  /\ pushed = {}
  /\ taken = [p \in Threads |-> [j \in Jobs |-> 0]]

Init ==
  /\ top = Origin
  /\ bottom = Origin
  /\ arrays = <<>>
  /\ local = [p \in Threads |-> Idle]
  /\ pushed = {}
  /\ taken = [p \in Threads |-> [j \in Jobs |-> 0]]

-----------------------------------------------------------------------------
(* Slots: index i of the deque lives at i & (capacity - 1).  The capacity  *)
(* is a power of two, so the mask is the remainder.  A JobArray is the      *)
(* sequence of its slots; uninitialized ones hold Garbage.                 *)

CurrentArray == arrays[Len(arrays)]

Capacity == IF arrays = <<>> THEN 0 ELSE Len(CurrentArray)

Position(i, capacity) == (i % capacity) + 1

Slot(array, i) == array[Position(i, Len(array))]

\* Mutant: the slots are copied as they lie, whatever the new mask.
ResizedByPosition(t) ==
  LET capacity == IF arrays = <<>> THEN InitialCapacity ELSE 2 * Capacity
  IN  [s \in 1 .. capacity |-> IF s <= Capacity THEN CurrentArray[s] ELSE Garbage]

\* The array push_bottom allocates when the current one is full: twice as
\* large, holding what the old array holds at the indices t .. bottom - 1.
Resized(t) ==
  LET capacity == IF arrays = <<>> THEN InitialCapacity ELSE 2 * Capacity
      Kept(s) == {i \in t .. bottom - 1 : Position(i, capacity) = s}
  IN  [s \in 1 .. capacity |-> IF Kept(s) = {} THEN Garbage
                              ELSE Slot(CurrentArray, CHOOSE i \in Kept(s) : TRUE)]

Goto(p, pc) == local' = [local EXCEPT ![p].pc = pc]

Return(p) == local' = [local EXCEPT ![p] = Idle]

Hand(p, j) == taken' = [taken EXCEPT ![p][j] = @ + 1]

-----------------------------------------------------------------------------
(* push_bottom                                                             *)

\* Mutant: the array is resized one push too late.
PushLoadLate(j) ==
  /\ local[Owner].pc = "idle"
  /\ j \notin pushed
  /\ local' = [local EXCEPT ![Owner] =
                 [pc |-> IF Capacity < bottom - top \/ arrays = <<>>
                         THEN "push_resize" ELSE "push_slot",
                  t |-> top, array |-> 0, job |-> j]]
  /\ UNCHANGED <<shared, history>>

\* Loads m_bottom, m_top and m_job_array and decides whether to resize.
PushLoad(j) ==
  /\ local[Owner].pc = "idle"
  /\ j \notin pushed
  /\ local' = [local EXCEPT ![Owner] =
                 [pc |-> IF Capacity < bottom - top + 1
                         THEN "push_resize" ELSE "push_slot",
                  t |-> top, array |-> 0, job |-> j]]
  /\ UNCHANGED <<shared, history>>

\* Copies the live slots to a larger array and publishes it.
PushResize ==
  /\ local[Owner].pc = "push_resize"
  /\ arrays' = Append(arrays, Resized(local[Owner].t))
  /\ Goto(Owner, "push_slot")
  /\ UNCHANGED <<top, bottom, history>>

PushSlot ==
  /\ local[Owner].pc = "push_slot"
  /\ arrays' = [arrays EXCEPT ![Len(arrays)][Position(bottom, Capacity)] =
                  local[Owner].job]
  /\ Goto(Owner, "push_bottom")
  /\ UNCHANGED <<top, bottom, history>>

PushBottom ==
  /\ local[Owner].pc = "push_bottom"
  /\ bottom' = bottom + 1
  /\ pushed' = pushed \cup {local[Owner].job}
  /\ Return(Owner)
  /\ UNCHANGED <<top, arrays, taken>>

-----------------------------------------------------------------------------
(* pop_bottom                                                              *)

\* Reserves the last index by lowering m_bottom before m_top is read.
PopReserve ==
  /\ local[Owner].pc = "idle"
  /\ bottom' = bottom - 1
  /\ Goto(Owner, "pop_top")
  /\ UNCHANGED <<top, arrays, history>>

\* Mutant: a deque with one job counts as empty.
PopEmptyEarly ==
  /\ local[Owner].pc = "pop_top"
  /\ bottom <= top
  /\ Goto(Owner, "pop_restore")
  /\ UNCHANGED <<shared, history>>

PopEmpty ==
  /\ local[Owner].pc = "pop_top"
  /\ bottom < top
  /\ Goto(Owner, "pop_restore")
  /\ UNCHANGED <<shared, history>>

\* Mutant: the last job is taken without the CAS.
PopManyLast ==
  /\ local[Owner].pc = "pop_top"
  /\ top <= bottom
  /\ Hand(Owner, Slot(CurrentArray, bottom))
  /\ Return(Owner)
  /\ UNCHANGED <<shared, pushed>>

\* At least two jobs: no thief can reach the last one, so no CAS is needed.
PopMany ==
  /\ local[Owner].pc = "pop_top"
  /\ top < bottom
  /\ Hand(Owner, Slot(CurrentArray, bottom))
  /\ Return(Owner)
  /\ UNCHANGED <<shared, pushed>>

\* Exactly one job: the owner must race the thieves for it.
PopLast ==
  /\ local[Owner].pc = "pop_top"
  /\ top = bottom
  /\ local' = [local EXCEPT ![Owner] =
                 [pc |-> "pop_cas", t |-> top, array |-> 0,
                  job |-> Slot(CurrentArray, bottom)]]
  /\ UNCHANGED <<shared, history>>

PopCas ==
  /\ local[Owner].pc = "pop_cas"
  /\ \/ /\ top = local[Owner].t
        /\ top' = top + 1
        /\ Hand(Owner, local[Owner].job)
        /\ Goto(Owner, "pop_restore")
     \/ /\ top # local[Owner].t
        /\ local' = [local EXCEPT ![Owner].pc = "pop_restore",
                                  ![Owner].job = NoJob]
        /\ UNCHANGED <<top, taken>>
  /\ UNCHANGED <<bottom, arrays, pushed>>

PopRestore ==
  /\ local[Owner].pc = "pop_restore"
  /\ bottom' = bottom + 1
  /\ Return(Owner)
  /\ UNCHANGED <<top, arrays, history>>

-----------------------------------------------------------------------------
(* steal_top                                                               *)

StealTop(p) ==
  /\ local[p].pc = "idle"
  /\ local' = [local EXCEPT ![p].pc = "steal_bottom", ![p].t = top]
  /\ UNCHANGED <<shared, history>>

StealBottom(p) ==
  /\ local[p].pc = "steal_bottom"
  /\ \/ bottom <= local[p].t /\ Return(p)
     \/ bottom > local[p].t /\ Goto(p, "steal_array")
  /\ UNCHANGED <<shared, history>>

StealArray(p) ==
  /\ local[p].pc = "steal_array"
  /\ local' = [local EXCEPT ![p].pc = "steal_slot", ![p].array = Len(arrays)]
  /\ UNCHANGED <<shared, history>>

StealSlot(p) ==
  /\ local[p].pc = "steal_slot"
  /\ local' = [local EXCEPT ![p].pc = "steal_cas",
                            ![p].job = Slot(arrays[local[p].array], local[p].t)]
  /\ UNCHANGED <<shared, history>>

\* Mutant: m_top is raised whatever it is by now.
StealUnchecked(p) ==
  /\ local[p].pc = "steal_cas"
  /\ top' = top + 1
  /\ Hand(p, local[p].job)
  /\ Return(p)
  /\ UNCHANGED <<bottom, arrays, pushed>>

StealCas(p) ==
  /\ local[p].pc = "steal_cas"
  /\ \/ /\ top = local[p].t
        /\ top' = top + 1
        /\ Hand(p, local[p].job)
     \/ /\ top # local[p].t
        /\ UNCHANGED <<top, taken>>
  /\ Return(p)
  /\ UNCHANGED <<bottom, arrays, pushed>>

-----------------------------------------------------------------------------

OwnerStep ==
  \/ \E j \in Jobs : PushLoad(j)
  \/ PushResize \/ PushSlot \/ PushBottom
  \/ PopReserve \/ PopEmpty \/ PopMany \/ PopLast \/ PopCas \/ PopRestore

ThiefStep(p) ==
  StealTop(p) \/ StealBottom(p) \/ StealArray(p) \/ StealSlot(p) \/ StealCas(p)

Next == OwnerStep \/ \E p \in Thieves : ThiefStep(p)

Spec == Init /\ [][Next]_vars

\* execute_job_maybe pops whenever its worker is in its loop, so the owner
\* keeps popping; nothing obliges a thief to choose this deque.
FairSpec == Spec /\ WF_vars(OwnerStep) /\ WF_vars(PopReserve)

-----------------------------------------------------------------------------
(* Properties                                                              *)

\* While pop_bottom holds its reservation, the job at `bottom' is still in
\* the deque: it leaves when m_top is read (PopMany) or raised (PopCas).
Reserved == local[Owner].pc \in {"pop_top", "pop_cas", "pop_restore"}

End == IF Reserved THEN bottom + 1 ELSE bottom

At(i) == Slot(CurrentArray, i)

Handed(j) == \E p \in Threads : taken[p][j] > 0

\* The state has the types ix_ThreadPool.hpp declares.  m_bottom is unsigned:
\* `m_bottom - 1' in pop_bottom never goes below zero ("Prevent overflow").
TypeOK ==
  /\ top \in Nat
  /\ bottom \in Nat
  /\ arrays \in Seq(Seq(Jobs \cup {Garbage}))
  /\ local \in [Threads -> [pc : PCs, t : Nat, array : Nat,
                            job : Jobs \cup {Garbage, NoJob}]]
  /\ pushed \in SUBSET Jobs
  /\ taken \in [Threads -> [Jobs -> Nat]]

\* No job is handed out twice: pop_bottom and concurrent steal_top calls never
\* return the same job, so no entry runs twice.
HandedOnce ==
  \A p, q \in Threads : \A j \in Jobs :
    /\ taken[p][j] <= 1
    /\ taken[p][j] > 0 /\ taken[q][j] > 0 => p = q

\* No job is lost: a job whose push_bottom has returned and which nobody was
\* handed is in the current array, at exactly one index a pop or a steal can
\* still reach; a job somebody was handed is at none.  A resize that races
\* with steals, or a slot overwritten too early, would break it.
NoJobLost ==
  /\ \A j \in pushed :
       Handed(j) \/ \E i \in top .. End - 1 :
                       At(i) = j /\ \A k \in (top .. End - 1) \ {i} : At(k) # j
  /\ \A i \in top .. End - 1 : At(i) \in pushed /\ ~Handed(At(i))

\* pop_bottom returns nullptr only if it left nothing behind: by then every
\* job ever pushed has been handed to somebody.
PopFailsOnlyWhenEmpty ==
  local[Owner].pc = "pop_restore" /\ local[Owner].job = NoJob
    => \A j \in pushed : Handed(j)

\* Every operation takes effect at one instant between its call and return:
\* the deque implements WorkStealingQueue, so the owner pops the newest job
\* and thieves steal the oldest, whatever arrays they read.
Abstract == INSTANCE WorkStealingQueue
              WITH queue <- [k \in 1 .. End - top |-> At(top + k - 1)]
Linearizable == Abstract!Spec

\* Every pushed job is eventually handed to a thread, even if all thieves stop
\* in the middle of a steal.
EveryJobIsHandedOut == \A j \in Jobs : j \in pushed ~> Handed(j)
-----------------------------------------------------------------------------
(* The inductive invariant behind HandedOnce, NoJobLost and                *)
(* PopFailsOnlyWhenEmpty (proved in JobStealingDequeProofs).               *)

Pushing == local[Owner].pc \in {"push_resize", "push_slot", "push_bottom"}

\* The live indices top .. End - 1 fit the current array.
WindowInv ==
  /\ \A a \in 1 .. Len(arrays) : Len(arrays[a]) > 0
  /\ Origin <= top /\ top <= End /\ End - top <= Capacity
  /\ arrays = <<>> => End = Origin

\* What the owner knows in the middle of an operation.  Its value of m_top may
\* be stale, and then it only overestimates the number of live slots.
OwnerInv ==
  LET own == local[Owner]
  IN  /\ own.pc \in {"idle", "push_resize", "push_slot", "push_bottom",
                     "pop_top", "pop_cas", "pop_restore"}
      /\ Pushing => own.job \in Jobs \ pushed /\ own.t <= top
      /\ own.pc = "push_resize" => Capacity = bottom - own.t
      /\ own.pc \in {"push_slot", "push_bottom"} => bottom - own.t < Capacity
      /\ own.pc = "push_bottom" => At(bottom) = own.job
      /\ own.pc = "pop_cas" => /\ own.t = bottom /\ bottom <= top
                              /\ own.job = At(bottom)
      /\ own.pc = "pop_restore" => top = bottom + 1

\* A thief's m_top is never ahead of the real one.  While it is current, a
\* thief past the check of m_bottom has a live job in view, even if it reads
\* the slot from an array that has been replaced.
ThiefInv(p) ==
  LET me == local[p]
      InView == me.pc \in {"steal_array", "steal_slot", "steal_cas"}
  IN  /\ me.pc \in {"idle", "steal_bottom", "steal_array", "steal_slot", "steal_cas"}
      /\ me.pc # "idle" => Origin <= me.t /\ me.t <= top
      /\ InView => arrays # <<>>
      /\ InView /\ me.t = top => top < End
      /\ me.pc = "steal_slot" => me.array \in 1 .. Len(arrays)
      /\ me.pc = "steal_slot" /\ me.t = top =>
           Slot(arrays[me.array], top) = At(top)
      /\ me.pc = "steal_cas" /\ me.t = top => me.job = At(top)

\* The live indices hold exactly the pushed jobs that nobody was handed.
ContentsInv ==
  /\ \A i \in top .. End - 1 : At(i) \in pushed /\ ~Handed(At(i))
  /\ \A i, k \in top .. End - 1 : At(i) = At(k) => i = k
  /\ \A j \in pushed : Handed(j) \/ \E i \in top .. End - 1 : At(i) = j
  /\ \A j \in Jobs : Handed(j) => j \in pushed

IndInv ==
  /\ TypeOK
  /\ WindowInv
  /\ OwnerInv
  /\ \A p \in Thieves : ThiefInv(p)
  /\ ContentsInv
  /\ HandedOnce
=============================================================================
