-------------------------- MODULE MCTaskScheduler --------------------------
(* Instances of TaskScheduler for TLC: two or three tasks, costs 1 and 2,  *)
(* and the record files a process may find.                                *)
EXTENDS TaskScheduler, SequencesExt

None == -1
EqualWeights == [i \in Tasks |-> 1]
Flops == [i \in Tasks |-> i + 1]
OneGroup == [i \in Tasks |-> "matmul"]

NoLog == {[i \in Tasks |-> <<>>]}
ShortLogs == [Tasks -> BoundedSeq(CostValues, 1)]
=============================================================================
