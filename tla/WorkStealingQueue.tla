-------------------------- MODULE WorkStealingQueue --------------------------
(***************************************************************************)
(* What ix_JobStealingDeque promises to ix_Worker: a queue whose owner     *)
(* works at the back and whose thieves take from the front, every          *)
(* operation taking effect at one instant, and every pushed job handed to  *)
(* exactly one caller.  An operation that returns nullptr changes nothing; *)
(* steal_top may do so at any time, pop_bottom only when the queue is      *)
(* empty (JobStealingDeque!PopFailsOnlyWhenEmpty).                         *)
(***************************************************************************)
EXTENDS Integers, Sequences

CONSTANTS Jobs, Owner, Thieves

VARIABLES
  queue,    \* the jobs in the deque, the oldest first
  pushed,   \* the jobs pushed so far
  taken     \* how often each job was handed to each thread

vars == <<queue, pushed, taken>>

Init ==
  /\ queue = <<>>
  /\ pushed = {}
  /\ taken = [p \in Thieves \cup {Owner} |-> [j \in Jobs |-> 0]]

Hand(p, j) == taken' = [taken EXCEPT ![p][j] = @ + 1]

Push(j) ==
  /\ j \in Jobs \ pushed
  /\ queue' = Append(queue, j)
  /\ pushed' = pushed \cup {j}
  /\ UNCHANGED taken

Pop ==
  /\ queue # <<>>
  /\ queue' = SubSeq(queue, 1, Len(queue) - 1)
  /\ Hand(Owner, queue[Len(queue)])
  /\ UNCHANGED pushed

Steal(p) ==
  /\ queue # <<>>
  /\ queue' = Tail(queue)
  /\ Hand(p, Head(queue))
  /\ UNCHANGED pushed

\* The owner's pop of the only job may be ordered as either end's removal.
Next ==
  \/ \E j \in Jobs : Push(j)
  \/ Pop
  \/ \E p \in Thieves : Steal(p)

Spec == Init /\ [][Next]_vars
=============================================================================
