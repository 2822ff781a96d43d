------------------------------- MODULE TaskQueue -------------------------------
(***************************************************************************)
(* What a worker's queue promises the thread pool: a first-in-first-out    *)
(* channel that holds Capacity tasks, and that may be closed.              *)
(***************************************************************************)
EXTENDS Naturals, Sequences

CONSTANTS Task, Capacity

VARIABLES queue,      \* the tasks that are pushed and not popped
          output,     \* the task popped last
          closed      \* the worker was told to exit

Init == queue = <<>> /\ output \in Task /\ closed = FALSE

Put(t) == Len(queue) < Capacity /\ queue' = Append(queue, t) /\ UNCHANGED <<output, closed>>

Take == queue # <<>> /\ output' = Head(queue) /\ queue' = Tail(queue) /\ UNCHANGED closed

Close == closed' = TRUE /\ UNCHANGED <<queue, output>>

Next == Take \/ Close \/ \E t \in Task : Put(t)

Spec == Init /\ [][Next]_<<queue, output, closed>>
=============================================================================
