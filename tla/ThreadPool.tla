------------------------------- MODULE ThreadPool -------------------------------
(***************************************************************************)
(* The thread pool that runs the parallel loops of compiled programs       *)
(* (src/runtime/thread_pool.cc): the launcher that starts a task on every  *)
(* worker and waits for all of them, the barrier the tasks may meet at,    *)
(* and the workers.  A step is one access to a shared variable.  A         *)
(* worker's queue is the one of TaskQueue, which SpscTaskQueue implements. *)
(* Worker 0 is the launching thread (exclude_worker0_, the default), and   *)
(* worker t runs task t.  The tasks of a launch meet at the same number of *)
(* barriers, then succeed or fail.  The text of the errors is left out.    *)
(***************************************************************************)
EXTENDS Integers, Sequences, FiniteSets

CONSTANTS num_workers_used_,
          Capacity,         \* of a queue: kRingSize - 1
          MaxLaunches, MaxBarriers      \* bounds

ASSUME PoolAssumption ==
  /\ num_workers_used_ \in Nat \ {0, 1} /\ Capacity \in Nat \ {0}
  /\ MaxLaunches \in Nat /\ MaxBarriers \in Nat

Workers == 0 .. num_workers_used_ - 1
Threads == Workers \ {0}

VARIABLES
  queues_,                    \* of each thread but the first
  killed,                     \* their exit_now_: SignalForKill was called
  num_task, num_pending_, has_error_,
  sync_counter_,
  main,         \* Launch: "idle", "push", "run", "wait", "check"
  next,         \* i of its loop
  result,       \* what it returned
  phase,        \* of each worker: "idle", "run", "barrier", "finish", "error", "flag",
                \* "exited"
  barriers,     \* how many the tasks of this launch pass
  launches,
  entered, passed,            \* history: barriers entered and left in this launch
  ran, failed                 \* history: tasks that returned, and that failed

launcher == <<num_task, num_pending_, has_error_, sync_counter_, barriers>>
history == <<entered, passed, ran, failed>>
poolVars == <<queues_, killed, launcher, main, next, result, phase, launches, history>>

Tasks == 0 .. num_task - 1
NoTask == [t \in Workers |-> 0]

InitPool ==
  /\ queues_ = [t \in Threads |-> <<>>] /\ killed = FALSE
  /\ num_task = 0 /\ num_pending_ = 0 /\ has_error_ = FALSE /\ sync_counter_ = NoTask
  /\ main = "idle" /\ next = 0 /\ result = 0
  /\ phase = [t \in Workers |-> "idle"] /\ barriers = 0 /\ launches = 0
  /\ entered = NoTask /\ passed = NoTask /\ ran = NoTask /\ failed = {}
-----------------------------------------------------------------------------
(* Launch. *)

(* ParallelLauncher::Init. *)
Reset_Stale(n) == sync_counter_
Reset(n) == [t \in Workers |-> IF t < n THEN 0 ELSE sync_counter_[t]]

Launch(n, b) ==
  /\ main = "idle" /\ ~killed /\ launches < MaxLaunches
  /\ num_task' = n /\ num_pending_' = n /\ has_error_' = FALSE
  /\ sync_counter_' = Reset(n) /\ barriers' = b
  /\ entered' = NoTask /\ passed' = NoTask /\ ran' = NoTask /\ failed' = {}
  /\ main' = "push" /\ next' = 1 /\ launches' = launches + 1
  /\ UNCHANGED <<queues_, killed, result, phase>>

PushTask ==
  /\ main = "push" /\ next < num_task /\ Len(queues_[next]) < Capacity
  /\ queues_' = [queues_ EXCEPT ![next] = Append(@, next)]
  /\ next' = next + 1
  /\ UNCHANGED <<killed, launcher, main, result, phase, launches, history>>

(* The launching thread runs task 0. *)
RunFirst ==
  /\ main = "push" /\ next >= num_task
  /\ main' = "run" /\ phase' = [phase EXCEPT ![0] = "run"]
  /\ UNCHANGED <<queues_, killed, launcher, next, result, launches, history>>

(* WaitForJobs: the loop on num_pending_, then has_error_. *)
Done_Early == num_pending_ <= 1
Done == num_pending_ = 0

WaitForJobs ==
  /\ main = "wait" /\ Done
  /\ main' = "check"
  /\ UNCHANGED <<queues_, killed, launcher, next, result, phase, launches, history>>

ReturnResult ==
  /\ main = "check"
  /\ result' = IF has_error_ THEN -1 ELSE 0
  /\ main' = "idle"
  /\ UNCHANGED <<queues_, killed, launcher, next, phase, launches, history>>

(* The destructor closes the queues, and joins the workers. *)
Destroy ==
  /\ main = "idle" /\ ~killed
  /\ killed' = TRUE
  /\ UNCHANGED <<queues_, launcher, main, next, result, phase, launches, history>>
-----------------------------------------------------------------------------
(* RunWorker. *)

PopTask(t) ==
  /\ phase[t] = "idle"
  /\ \/ /\ killed /\ phase' = [phase EXCEPT ![t] = "exited"] /\ UNCHANGED queues_
     \/ /\ ~killed /\ queues_[t] # <<>>
        /\ phase' = [phase EXCEPT ![t] = "run"]
        /\ queues_' = [queues_ EXCEPT ![t] = Tail(@)]
  /\ UNCHANGED <<killed, launcher, main, next, result, launches, history>>

(* TVMBackendParallelBarrier: count, then spin until every other task has. *)
Met_Ahead(t) == \A u \in Tasks \ {t} : sync_counter_[u] > sync_counter_[t]
Met(t) == \A u \in Tasks \ {t} : sync_counter_[u] > sync_counter_[t] - 1

EnterBarrier(t) ==
  /\ phase[t] = "run" /\ passed[t] < barriers
  /\ sync_counter_' = [sync_counter_ EXCEPT ![t] = @ + 1]
  /\ entered' = [entered EXCEPT ![t] = @ + 1]
  /\ phase' = [phase EXCEPT ![t] = "barrier"]
  /\ UNCHANGED <<queues_, killed, num_task, num_pending_, has_error_, barriers, main, next,
                 result, launches, passed, ran, failed>>

LeaveBarrier(t) ==
  /\ phase[t] = "barrier" /\ Met(t)
  /\ passed' = [passed EXCEPT ![t] = @ + 1]
  /\ phase' = [phase EXCEPT ![t] = "run"]
  /\ UNCHANGED <<queues_, killed, launcher, main, next, result, launches, entered, ran, failed>>

(* flambda returns 0 or an error. *)
Return(t) ==
  /\ phase[t] = "run" /\ passed[t] = barriers
  /\ ran' = [ran EXCEPT ![t] = @ + 1]
  /\ \/ phase' = [phase EXCEPT ![t] = "finish"] /\ UNCHANGED failed
     \/ phase' = [phase EXCEPT ![t] = "error"] /\ failed' = failed \cup {t}
  /\ UNCHANGED <<queues_, killed, launcher, main, next, result, launches, entered, passed>>

(* Worker t is through with its task. *)
Through(t) ==
  /\ phase' = [phase EXCEPT ![t] = "idle"]
  /\ main' = IF t = 0 THEN "wait" ELSE main

Signal == num_pending_ - 1

SignalJobFinish(t) ==
  /\ phase[t] = "finish"
  /\ num_pending_' = Signal /\ Through(t)
  /\ UNCHANGED <<queues_, killed, num_task, has_error_, sync_counter_, barriers, next, result,
                 launches, history>>

(* SignalJobError counts the job, then stores has_error_. *)
SignalJobError(t) ==
  \/ /\ phase[t] = "error"
     /\ num_pending_' = Signal /\ phase' = [phase EXCEPT ![t] = "flag"]
     /\ UNCHANGED <<queues_, killed, num_task, has_error_, sync_counter_, barriers, main, next,
                    result, launches, history>>
  \/ /\ phase[t] = "flag"
     /\ has_error_' = TRUE /\ Through(t)
     /\ UNCHANGED <<queues_, killed, num_task, num_pending_, sync_counter_, barriers, next,
                    result, launches, history>>

LaunchStep == PushTask \/ RunFirst \/ WaitForJobs \/ ReturnResult
RunTask(t) ==
  EnterBarrier(t) \/ LeaveBarrier(t) \/ Return(t) \/ SignalJobFinish(t) \/ SignalJobError(t)

(* The loops that wait for the tasks, and for the others at a barrier. *)
Yield ==
  /\ (main = "wait" /\ ~Done) \/ (\E t \in Workers : phase[t] = "barrier" /\ ~Met(t))
  /\ UNCHANGED poolVars

(* The workers are joined, nothing is left to happen. *)
Joined == (\A t \in Threads : phase[t] = "exited") /\ UNCHANGED poolVars

PoolNext ==
  \/ \E n \in 1 .. num_workers_used_, b \in 0 .. MaxBarriers : Launch(n, b)
  \/ LaunchStep \/ Destroy
  \/ \E t \in Workers : RunTask(t)
  \/ \E t \in Threads : PopTask(t)
  \/ Yield \/ Joined

PoolSpec == InitPool /\ [][PoolNext]_poolVars

(* Every thread runs. *)
FairPoolSpec ==
  /\ PoolSpec /\ WF_poolVars(LaunchStep)
  /\ \A t \in Workers : WF_poolVars(RunTask(t))
  /\ \A t \in Threads : WF_poolVars(PopTask(t))
-----------------------------------------------------------------------------
(* The types of the variables. *)
PoolTypeOK ==
  /\ queues_ \in [Threads -> Seq(Workers)] /\ \A t \in Threads : Len(queues_[t]) <= Capacity
  /\ killed \in BOOLEAN /\ has_error_ \in BOOLEAN
  /\ num_task \in 0 .. num_workers_used_ /\ num_pending_ \in 0 .. num_workers_used_
  /\ sync_counter_ \in [Workers -> 0 .. MaxBarriers] /\ barriers \in 0 .. MaxBarriers
  /\ main \in {"idle", "push", "run", "wait", "check"} /\ next \in 0 .. num_workers_used_
  /\ result \in {0, -1} /\ launches \in 0 .. MaxLaunches
  /\ phase \in [Workers -> {"idle", "run", "barrier", "finish", "error", "flag", "exited"}]
  /\ entered \in [Workers -> 0 .. MaxBarriers] /\ passed \in [Workers -> 0 .. MaxBarriers]
  /\ ran \in [Workers -> Nat] /\ failed \subseteq Workers

(* Launch returns when every task of the launch, and no other, has run,    *)
(* once, although a worker that signals an error may still be busy with    *)
(* that while the next launch is on its way: the closure of the loop may   *)
(* be freed.                                                               *)
LaunchJoins ==
  main \in {"idle", "check"} =>
    \A t \in Workers : /\ ran[t] = IF t \in Tasks THEN 1 ELSE 0
                       /\ phase[t] \in {"idle", "flag", "exited"}

(* A barrier is one: no task of a launch leaves it before all of them have *)
(* entered it, in every launch.                                            *)
BarrierHolds == \A t, u \in Tasks : passed[t] <= entered[u]

(* The inductive invariant.  num_pending_ counts the tasks that have not   *)
(* signalled; a task is not pushed yet, queued, running or returned, and a *)
(* worker that still has to store has_error_ of an earlier launch may have *)
(* the next task waiting; at the barriers nobody is ahead by more than one.*)
Rest == {"idle", "flag", "exited"}
Unsignalled == {t \in Tasks : ~(ran[t] = 1 /\ phase[t] \in Rest)}
Pushed(t) == t \in Tasks /\ (main = "push" => t < next)
MainInv ==
  /\ main \in {"check", "idle"} => num_pending_ = 0
  /\ main # "idle" => num_task >= 1 /\ ~killed
  /\ main = "push" => next >= 1 /\ phase[0] = "idle" /\ ran[0] = 0
  /\ main = "run" => \/ ran[0] = 0 /\ phase[0] \in {"run", "barrier"}
                     \/ ran[0] = 1 /\ phase[0] \in {"finish", "error", "flag"}
  /\ main \in {"wait", "check", "idle"} =>
       phase[0] = "idle" /\ ran[0] = (IF num_task >= 1 THEN 1 ELSE 0)
ThreadInv(t) ==
  /\ phase[t] = "exited" => killed
  /\ \/ /\ ran[t] = 0 /\ queues_[t] = <<>> /\ phase[t] \in Rest
        /\ t \in Tasks => main = "push" /\ t >= next
     \/ ran[t] = 0 /\ queues_[t] = <<t>> /\ phase[t] \in {"idle", "flag"} /\ Pushed(t)
     \/ ran[t] = 0 /\ queues_[t] = <<>> /\ phase[t] \in {"run", "barrier"} /\ Pushed(t)
     \/ ran[t] = 1 /\ queues_[t] = <<>> /\ phase[t] \in {"finish", "error"} \cup Rest /\ Pushed(t)
SyncInv(t) ==
  /\ sync_counter_[t] = entered[t]
  /\ entered[t] = IF phase[t] = "barrier" THEN passed[t] + 1 ELSE passed[t]
  /\ entered[t] <= barriers
PoolInv ==
  /\ PoolTypeOK /\ num_pending_ = Cardinality(Unsignalled) /\ MainInv
  /\ \A t \in Threads : ThreadInv(t)
  /\ \A t \in Tasks : SyncInv(t)
  /\ BarrierHolds

(* A launch ends. *)
LaunchReturns == main # "idle" ~> main = "idle"

(* "0 when no error is thrown, -1 when failure happens". *)
ErrorsReported == main = "idle" => (result = -1 <=> failed # {})
=============================================================================
