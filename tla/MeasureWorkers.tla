---------------------------- MODULE MeasureWorkers ----------------------------
(***************************************************************************)
(* The builder and the runners of python/tvm/auto_scheduler/measure.py,    *)
(* behind SilentMeasure: a batch of inputs is built, several at a time,    *)
(* and then run, one at a time by the local runner and several at a time   *)
(* by the RPC runner.  Every build and every run is a call of              *)
(* call_func_with_timeout (utils.py): a thread starts a child process,     *)
(* waits for its answer or for the timeout, and gets rid of the child and  *)
(* of what the child started.  A child may crash, hang, or answer late.    *)
(***************************************************************************)
EXTENDS Integers, FiniteSets

CONSTANTS batch_size,    \* the number of inputs of a batch
          n_parallel,    \* of the builder and of the RPC runner
          Helper         \* compilers and linkers a child may start

ASSUME WorkersAssumption ==
  /\ batch_size \in Nat
  /\ n_parallel \in Nat \ {0}

Inputs == 1 .. batch_size

VARIABLES
  runner,    \* which runner the measurer has: "local" or "rpc"
  phase,     \* "build", then "run", then "done"
  call,      \* call_func_with_timeout for an input: where its thread is
  res,       \* the answer or the failure that the call took
  list,      \* the children still to be signalled
  child,     \* where the child process is
  attempt,   \* how often it has timed the program
  answer,    \* what the child is going to put
  que,       \* the queue between the two
  helper,    \* the processes that the child started
  dir,       \* the temporary directory of the build
  build_results, results

vars == <<runner, phase, call, res, list, child, attempt, answer, que, helper, dir, build_results, results>>

None == [error_no |-> "none", costs |-> "none"]

\* The error numbers of MeasureErrorNo that the workers report.
BuildError == {"INSTANTIATION_ERROR", "COMPILE_HOST", "BUILD_TIMEOUT"}
RunError == {"COMPILE_DEVICE", "RUNTIME_DEVICE", "RUN_TIMEOUT"}

\* What a child puts on the queue; the costs of a build are not used.
Result(error_no, costs) == [error_no |-> error_no, costs |-> costs]
Exception == Result("Exception", "none")
TimeoutError == Result("TimeoutError", "none")

Costs == {"stable", "noisy", "MAX_FLOAT", "none"}
Outcome == [error_no : {"none", "NO_ERROR", "Exception", "TimeoutError"} \cup BuildError \cup RunError, costs : Costs]

max_retry == 4

Init ==
  /\ runner \in {"local", "rpc"}
  /\ phase = "build"
  /\ call = [i \in Inputs |-> "todo"]
  /\ res = [i \in Inputs |-> None]
  /\ list = [i \in Inputs |-> {}]
  /\ child = [i \in Inputs |-> "none"]
  /\ attempt = [i \in Inputs |-> 0]
  /\ answer = [i \in Inputs |-> None]
  /\ que = [i \in Inputs |-> None]
  /\ helper = [i \in Inputs |-> [h \in Helper |-> "none"]]
  /\ dir = [i \in Inputs |-> "none"]
  /\ build_results = [i \in Inputs |-> None]
  /\ results = [i \in Inputs |-> None]
-------------------------------------------------------------------------------
(***************************************************************************)
(* The thread of the caller.                                               *)
(***************************************************************************)

Active == {i \in Inputs : call[i] \notin {"todo", "done"}}

\* Pools take any input that is left; the local runner takes them in order.
Turn(i) ==
  /\ call[i] = "todo"
  /\ IF phase = "run" /\ runner = "local"
     THEN \A j \in Inputs : j < i => call[j] = "done"
     ELSE Cardinality(Active) < n_parallel

Failed_BuildOnly(b) == b.error_no \in {"COMPILE_HOST", "BUILD_TIMEOUT"}

Failed(b) == b.error_no # "NO_ERROR"

\* An input whose build failed is not run: its result is that of the build.
Skip(i) ==
  /\ phase = "run"
  /\ Turn(i)
  /\ Failed(build_results[i])
  /\ call' = [call EXCEPT ![i] = "done"]
  /\ results' = [results EXCEPT ![i] = Result(build_results[i].error_no, "MAX_FLOAT")]
  /\ UNCHANGED <<runner, phase, res, list, child, attempt, answer, que, helper, dir, build_results>>

\* call_func_with_timeout makes a queue and a process of its own.
Start(i) ==
  /\ phase \in {"build", "run"}
  /\ Turn(i)
  /\ phase = "run" => ~Failed(build_results[i])
  /\ call' = [call EXCEPT ![i] = "get"]
  /\ child' = [child EXCEPT ![i] = "start"]
  /\ helper' = [helper EXCEPT ![i] = [h \in Helper |-> "none"]]
  /\ UNCHANGED <<runner, phase, res, list, attempt, answer, que, dir, build_results, results>>

Get(i) ==
  /\ call[i] = "get"
  /\ que[i] # None
  /\ res' = [res EXCEPT ![i] = que[i]]
  /\ call' = [call EXCEPT ![i] = "list"]
  /\ UNCHANGED <<runner, phase, list, child, attempt, answer, que, helper, dir, build_results, results>>

Timeout(i) ==
  /\ call[i] = "get"
  /\ que[i] = None
  /\ res' = [res EXCEPT ![i] = TimeoutError]
  /\ call' = [call EXCEPT ![i] = "list"]
  /\ UNCHANGED <<runner, phase, list, child, attempt, answer, que, helper, dir, build_results, results>>

\* kill_child_processes looks up the processes that the child has started and
\* that still run.  Those of a child that is dead have another parent by now.
ListChildren(i) ==
  /\ call[i] = "list"
  /\ list' = [list EXCEPT ![i] = {h \in Helper : child[i] # "dead" /\ helper[i][h] = "runs"}]
  /\ call' = [call EXCEPT ![i] = "signal"]
  /\ UNCHANGED <<runner, phase, res, child, attempt, answer, que, helper, dir, build_results, results>>

SendSignal(i, h) ==
  /\ call[i] = "signal"
  /\ h \in list[i]
  /\ IF helper[i][h] = "runs"
     THEN /\ helper' = [helper EXCEPT ![i][h] = "killed"]
          /\ list' = [list EXCEPT ![i] = @ \ {h}]
     ELSE /\ list' = [list EXCEPT ![i] = {}]   \* NoSuchProcess ends the loop
          /\ UNCHANGED helper
  /\ UNCHANGED <<runner, phase, call, res, child, attempt, answer, que, dir, build_results, results>>

Terminate_Skipped(i) ==
  /\ call[i] = "signal"
  /\ list[i] = {}
  /\ call' = [call EXCEPT ![i] = "join"]
  /\ UNCHANGED <<runner, phase, res, list, child, attempt, answer, que, helper, dir, build_results, results>>

Terminate(i) ==
  /\ call[i] = "signal"
  /\ list[i] = {}
  /\ child' = [child EXCEPT ![i] = IF @ = "dead" THEN @ ELSE "dying"]
  /\ call' = [call EXCEPT ![i] = "join"]
  /\ UNCHANGED <<runner, phase, res, list, attempt, answer, que, helper, dir, build_results, results>>

\* What local_build_worker makes of the outcome of its call.
BuildResult(r) ==
  CASE r = TimeoutError -> Result("BUILD_TIMEOUT", "none")
    [] r = Exception -> Result("COMPILE_HOST", "none")
    [] OTHER -> r

\* What local_run and _rpc_run_worker make of the outcome of their call.
MeasureResult(r) ==
  CASE r = TimeoutError -> Result("RUN_TIMEOUT", "MAX_FLOAT")
    [] r = Exception -> Result("RUNTIME_DEVICE", "MAX_FLOAT")
    [] OTHER -> r

Joined_NotAwaited(i) == call[i] = "join"

Joined(i) == call[i] = "join" /\ child[i] = "dead"

\* process.join returns, the process and the queue are deleted, and the call
\* returns.
Return(i) ==
  /\ Joined(i)
  /\ call' = [call EXCEPT ![i] = "done"]
  /\ attempt' = [attempt EXCEPT ![i] = 0]
  /\ answer' = [answer EXCEPT ![i] = None]
  /\ que' = [que EXCEPT ![i] = None]
  /\ res' = [res EXCEPT ![i] = None]
  /\ IF phase = "build"
     THEN /\ build_results' = [build_results EXCEPT ![i] = BuildResult(res[i])]
          /\ UNCHANGED results
     ELSE /\ results' = [results EXCEPT ![i] = MeasureResult(res[i])]
          /\ UNCHANGED build_results
  /\ UNCHANGED <<runner, phase, list, child, helper, dir>>

\* SilentMeasure runs what it has built.
Run ==
  /\ phase = "build"
  /\ \A i \in Inputs : call[i] = "done"
  /\ phase' = "run"
  /\ call' = [i \in Inputs |-> "todo"]
  /\ UNCHANGED <<runner, res, list, child, attempt, answer, que, helper, dir, build_results, results>>

SilentMeasured ==
  /\ phase = "run"
  /\ \A i \in Inputs : call[i] = "done"
  /\ phase' = "done"
  /\ UNCHANGED <<runner, call, res, list, child, attempt, answer, que, helper, dir, build_results, results>>

\* The measurer calls SilentMeasure again, for other inputs.
NextBatch ==
  /\ phase = "done"
  /\ phase' = "build"
  /\ call' = [i \in Inputs |-> "todo"]
  /\ helper' = [i \in Inputs |-> [h \in Helper |-> "none"]]
  /\ dir' = [i \in Inputs |-> "none"]
  /\ build_results' = [i \in Inputs |-> None]
  /\ results' = [i \in Inputs |-> None]
  /\ UNCHANGED <<runner, res, list, child, attempt, answer, que>>
-------------------------------------------------------------------------------
(***************************************************************************)
(* The child.  In the build phase it runs _timed_func, in the run phase    *)
(* _timed_eval_func (local) or _timed_rpc_run (rpc).                       *)
(***************************************************************************)

Answers(i, r) ==
  /\ answer' = [answer EXCEPT ![i] = r]
  /\ child' = [child EXCEPT ![i] = "put"]

Continues(i, where) ==
  /\ child' = [child EXCEPT ![i] = where]
  /\ UNCHANGED answer

\* The input is deserialized; that this fails is caught by _func_wrapper only.
Deserialize(i) ==
  /\ child[i] = "start"
  /\ \/ Continues(i, IF phase = "build" THEN "instantiate" ELSE "load")
     \/ Answers(i, Exception)
  /\ UNCHANGED <<runner, phase, call, res, list, attempt, que, helper, dir, build_results, results>>

Instantiate(i) ==
  /\ child[i] = "instantiate"
  /\ \/ /\ Continues(i, "compile")
        /\ dir' = [dir EXCEPT ![i] = "empty"]
     \/ /\ Answers(i, Result("INSTANTIATION_ERROR", "none"))
        /\ UNCHANGED dir
  /\ UNCHANGED <<runner, phase, call, res, list, attempt, que, helper, build_results, results>>

\* The compilers and linkers: of export_library when the library is built, of
\* load_module when the local runner links it.
UsesHelpers(i) == child[i] = "compile" \/ (child[i] = "load" /\ runner = "local")

Spawn(i, h) ==
  /\ UsesHelpers(i)
  /\ helper[i][h] = "none"
  /\ helper' = [helper EXCEPT ![i][h] = "runs"]
  /\ UNCHANGED <<runner, phase, call, res, list, child, attempt, answer, que, dir, build_results, results>>

HelperExits(i, h) ==
  /\ helper[i][h] = "runs"
  /\ helper' = [helper EXCEPT ![i][h] = "gone"]
  /\ UNCHANGED <<runner, phase, call, res, list, child, attempt, answer, que, dir, build_results, results>>

\* The child waits for the processes it has started.
HelpersDone(i) == \A h \in Helper : helper[i][h] # "runs"

\* The library is there when no compiler has been killed.
Compile(i) ==
  /\ child[i] = "compile"
  /\ HelpersDone(i)
  /\ \/ /\ \A h \in Helper : helper[i][h] # "killed"
        /\ dir' = [dir EXCEPT ![i] = "built"]
        /\ Answers(i, Result("NO_ERROR", "none"))
     \/ /\ Answers(i, Result("COMPILE_HOST", "none"))
        /\ UNCHANGED dir
  /\ UNCHANGED <<runner, phase, call, res, list, attempt, que, helper, build_results, results>>

\* The module is loaded, for the RPC runner on a device it has to wait for.
Load(i) ==
  /\ child[i] = "load"
  /\ HelpersDone(i)
  /\ \/ Continues(i, "time")
     \/ /\ child' = [child EXCEPT ![i] = "clean"]
        /\ answer' = [answer EXCEPT ![i] = Result("COMPILE_DEVICE", "MAX_FLOAT")]
  /\ UNCHANGED <<runner, phase, call, res, list, attempt, que, helper, dir, build_results, results>>

\* The local runner times again while the costs vary, but no more than
\* max_retry times; the RPC runner times once.
LastAttempt(i) == runner = "rpc" \/ attempt[i] + 1 = max_retry

TimeEvaluator(i) ==
  /\ child[i] = "time"
  /\ attempt' = [attempt EXCEPT ![i] = @ + 1]
  /\ \E costs \in {"stable", "noisy"} :
       /\ answer' = [answer EXCEPT ![i] = Result("NO_ERROR", costs)]
       /\ child' = [child EXCEPT ![i] = IF costs = "stable" \/ LastAttempt(i) THEN "clean" ELSE @]
  /\ UNCHANGED <<runner, phase, call, res, list, que, helper, dir, build_results, results>>

RunFails_KeepsCosts(i) ==
  /\ child[i] = "time"
  /\ answer' = [answer EXCEPT ![i] = Result("RUNTIME_DEVICE", @.costs)]
  /\ child' = [child EXCEPT ![i] = "clean"]
  /\ UNCHANGED <<runner, phase, call, res, list, attempt, que, helper, dir, build_results, results>>

\* The program, or the preparation of its arguments, raises an exception.
RunFails(i) ==
  /\ child[i] = "time"
  /\ answer' = [answer EXCEPT ![i] = Result("RUNTIME_DEVICE", "MAX_FLOAT")]
  /\ child' = [child EXCEPT ![i] = "clean"]
  /\ UNCHANGED <<runner, phase, call, res, list, attempt, que, helper, dir, build_results, results>>

Clean_OnSuccess(i) ==
  /\ child[i] = "clean"
  /\ dir' = [dir EXCEPT ![i] = IF answer[i].error_no = "NO_ERROR" THEN "none" ELSE @]
  /\ Continues(i, "put")
  /\ UNCHANGED <<runner, phase, call, res, list, attempt, que, helper, build_results, results>>

\* shutil.rmtree, after the try statements.
Clean(i) ==
  /\ child[i] = "clean"
  /\ dir' = [dir EXCEPT ![i] = "none"]
  /\ Continues(i, "put")
  /\ UNCHANGED <<runner, phase, call, res, list, attempt, que, helper, build_results, results>>

Put(i) ==
  /\ child[i] = "put"
  /\ que' = [que EXCEPT ![i] = answer[i]]
  /\ child' = [child EXCEPT ![i] = "exit"]
  /\ UNCHANGED <<runner, phase, call, res, list, attempt, answer, helper, dir, build_results, results>>

Alive(i) == child[i] \notin {"none", "dead"}

\* A child may crash at any point, ends when it has answered, and ends when it
\* has been signalled; what it started lives on.
Crash(i) ==
  /\ Alive(i)
  /\ child' = [child EXCEPT ![i] = "dead"]
  /\ UNCHANGED <<runner, phase, call, res, list, attempt, answer, que, helper, dir, build_results, results>>

\* Nothing is promised of how long a build or a run takes.
Busy(i) ==
  /\ Alive(i)
  /\ UNCHANGED vars
-------------------------------------------------------------------------------
Caller(i) ==
  \/ Skip(i) \/ Start(i) \/ Get(i) \/ Timeout(i) \/ ListChildren(i)
  \/ \E h \in Helper : SendSignal(i, h)
  \/ Terminate(i) \/ Return(i)

Child(i) ==
  \/ Deserialize(i) \/ Instantiate(i) \/ Compile(i) \/ Load(i) \/ TimeEvaluator(i)
  \/ RunFails(i) \/ Clean(i) \/ Put(i) \/ Crash(i) \/ Busy(i)
  \/ \E h \in Helper : Spawn(i, h) \/ HelperExits(i, h)

Next ==
  \/ \E i \in Inputs : Caller(i) \/ Child(i)
  \/ Run \/ SilentMeasured \/ NextBatch

Spec == Init /\ [][Next]_vars

\* The threads of the caller run, que.get keeps its timeout and a signalled
\* process dies.  Of builds and runs nothing is assumed.
Fairness ==
  /\ \A i \in Inputs : WF_vars(Caller(i)) /\ WF_vars(child[i] = "dying" /\ Crash(i))
  /\ WF_vars(Run \/ SilentMeasured)

FairSpec == Spec /\ Fairness
-------------------------------------------------------------------------------
\* The values of the variables; a program is timed max_retry times at most.
TypeOK ==
  /\ runner \in {"local", "rpc"}
  /\ phase \in {"build", "run", "done"}
  /\ call \in [Inputs -> {"todo", "get", "list", "signal", "join", "done"}]
  /\ res \in [Inputs -> Outcome]
  /\ list \in [Inputs -> SUBSET Helper]
  /\ child \in [Inputs -> {"none", "start", "instantiate", "compile", "load", "time", "clean", "put", "exit", "dying", "dead"}]
  /\ attempt \in [Inputs -> 0 .. max_retry]
  /\ answer \in [Inputs -> Outcome]
  /\ que \in [Inputs -> Outcome]
  /\ helper \in [Inputs -> [Helper -> {"none", "runs", "gone", "killed"}]]
  /\ dir \in [Inputs -> {"none", "empty", "built"}]
  /\ build_results \in [Inputs -> Outcome]
  /\ results \in [Inputs -> Outcome]

\* While the local runner times a program no other child is alive, not one of
\* a build that timed out nor the last run: terminate is followed by join.
MeasuredAlone ==
  \A i \in Inputs :
    (runner = "local" /\ child[i] = "time") => \A j \in Inputs \ {i} : ~Alive(j)

\* A child that loads a library finds one: a build that reports no error has
\* finished and nothing has removed its directory.
LibraryIsThere ==
  \A i \in Inputs : child[i] = "load" => dir[i] = "built"

\* What the measurer and the cost models rely on: a result carries measured
\* costs exactly when it carries no error, whatever failed and wherever.
CostsMeanSuccess ==
  \A i \in Inputs :
    results[i] # None =>
      (results[i].error_no = "NO_ERROR" <=> results[i].costs \in {"stable", "noisy"})

\* A program that was run leaves no temporary directory behind, though the
\* program itself may have failed to load; only calls that were cut off do.
CleanedUp ==
  \A i \in Inputs :
    results[i].error_no \in {"NO_ERROR", "COMPILE_DEVICE"} => dir[i] = "none"

\* Why these hold.  A call that has not begun or has returned has no child
\* and no answer; a child is where its phase can have brought it; the answer
\* of a build that succeeded stands for a library in the directory, from the
\* child by way of the queue to the run; the local runner goes through the
\* inputs in order.
Matches(r) == r.error_no = "NO_ERROR" <=> r.costs \in {"stable", "noisy"}

CallInv(i) ==
  /\ call[i] \in {"todo", "done"} =>
       /\ child[i] \in {"none", "dead"}
       /\ attempt[i] = 0 /\ answer[i] = None /\ que[i] = None /\ res[i] = None
  /\ child[i] \in {"start", "instantiate", "compile", "load"} => attempt[i] = 0 /\ answer[i] = None
  /\ child[i] = "time" => attempt[i] < max_retry
  /\ child[i] \notin {"exit", "dying", "dead"} => que[i] = None
  /\ res[i] \in {None, TimeoutError, que[i]}

BuildInv(i) ==
  phase = "build" =>
    /\ child[i] \notin {"load", "time", "clean"}
    /\ results[i] = None
    /\ call[i] # "done" => build_results[i] = None
    /\ "NO_ERROR" \in {answer[i].error_no, que[i].error_no, build_results[i].error_no} => dir[i] = "built"

RunInv(i) ==
  phase # "build" =>
    /\ child[i] \notin {"instantiate", "compile"}
    /\ call[i] = "todo" /\ ~Failed(build_results[i]) => dir[i] = "built"
    /\ child[i] \in {"start", "load", "time", "clean"} => dir[i] = "built"
    /\ Matches(answer[i]) /\ Matches(que[i]) /\ Matches(results[i])

IInv ==
  /\ TypeOK
  /\ \A i \in Inputs : CallInv(i) /\ BuildInv(i) /\ RunInv(i)
  /\ phase = "done" => \A i \in Inputs : call[i] = "done"
  /\ (phase = "run" /\ runner = "local") =>
       \A i, j \in Inputs : (call[i] # "todo" /\ j < i) => call[j] = "done"

\* Why directories are removed: in the run phase an answer or a result that a
\* program was loaded, or was not, comes from a child that is past Clean, and
\* no build reports such a failure.
CleanInv(i) ==
  /\ build_results[i].error_no # "COMPILE_DEVICE"
  /\ phase = "build" => "COMPILE_DEVICE" \notin {answer[i].error_no, que[i].error_no}
  /\ phase # "build" =>
       \A r \in {que[i], results[i]} \cup (IF child[i] = "put" THEN {answer[i]} ELSE {}) :
         r.error_no \in {"NO_ERROR", "COMPILE_DEVICE"} => dir[i] = "none"

CleanedInv == IInv /\ \A i \in Inputs : CleanInv(i)

\* Every batch is measured in the end, though children crash and hang.
BatchReturns == phase = "build" ~> phase = "done"
===============================================================================
