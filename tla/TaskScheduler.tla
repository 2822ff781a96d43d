--------------------------- MODULE TaskScheduler ---------------------------
(***************************************************************************)
(* The task scheduler of the auto-tuner                                    *)
(* (python/tvm/auto_scheduler/task_scheduler.py): it spends a budget of    *)
(* measurement trials on the tasks (subgraphs) of a network, one search    *)
(* round of one task at a time.                                            *)
(*                                                                         *)
(* A round is a call of the task's search policy.  What a policy promises  *)
(* is in SearchPolicy.tla; here a round is a sequence of measured costs,   *)
(* which the measurer also appends, batch by batch, to the record file     *)
(* (RecordToFile).  The process may crash at any point and be started      *)
(* again on the same record file, and tune may be called again on the      *)
(* same object.                                                            *)
(*                                                                         *)
(* Costs are natural numbers; MaxFloat (1e10 in the code) is both the      *)
(* initial value of best_costs and the cost of every failed measurement,   *)
(* so a record has error_no # 0 exactly when its cost is MaxFloat.  Python *)
(* indexes lists from 0 and TLA+ sequences from 1: history[k] of the code  *)
(* is history[i][k + 1] here.                                              *)
(***************************************************************************)
EXTENDS Integers, Sequences, FiniteSets, FiniteSetsExt, Functions

CONSTANTS
  NumTasks,              \* len(self.tasks)
  Strategy,              \* "round-robin" or "gradient"
  TransferCalls,         \* the calls, counted from 1, that are of transfer_tune
  NumMeasureTrials,      \* tune_option.num_measure_trials
  NumMeasuresPerRound,   \* tune_option.num_measures_per_round
  EarlyStopping,         \* tune_option.early_stopping, negative for none
  PerTaskEarlyStopping,  \* per_task_early_stopping, negative for None
  LoadLogFile,           \* TRUE: the record file is also load_log_file
  Costs, MaxFloat,       \* the costs a measurement can return
  TaskWeights, FlopCts, SimilarityTag, \* per task: weight, flops, tag
  AlphaNum, AlphaDen, Beta, BackwardWindowSize, GroupSlack,
  InitLogs,              \* record files tuning may start from
  MaxStarts              \* bound: calls of tune, over all processes

Tasks == 0 .. NumTasks - 1
NoTag == "none"
CostValues == Costs \cup {MaxFloat}

ASSUME ConstantsAssumption ==
  /\ NumTasks \in Nat \ {0}
  /\ Strategy \in {"round-robin", "gradient"}
  /\ TransferCalls \subseteq Nat /\ LoadLogFile \in BOOLEAN
  /\ NumMeasureTrials \in Int /\ NumMeasuresPerRound \in Int
  /\ EarlyStopping \in Int /\ PerTaskEarlyStopping \in Int
  /\ Costs \subseteq Nat /\ MaxFloat \in Nat
  /\ \A c \in Costs : c < MaxFloat
  /\ NumMeasureTrials < 0 => 0 \in Costs
  /\ TaskWeights \in [Tasks -> Nat] /\ FlopCts \in [Tasks -> Nat \ {0}]
  /\ DOMAIN SimilarityTag = Tasks
  /\ AlphaNum \in Nat /\ AlphaDen \in Nat \ {0} /\ AlphaNum <= AlphaDen
  /\ Beta \in Nat \ {0} /\ BackwardWindowSize \in Nat \ {0}
  /\ GroupSlack \in Nat /\ MaxStarts \in Nat
  /\ InitLogs \subseteq [Tasks -> Seq(CostValues)]

VARIABLES
  pc,          \* where tune is: "start", "warmup", "loop", "measure", "done"
               \* or "error" (the ValueError of a budget that is too small)
  caller,      \* the phase that called _tune_task, "warmup" or "loop"
  idx,         \* idx of the warm-up loop
  task_idx,    \* the task being tuned, or last tuned, by the main loop
  round,       \* costs measured so far in the current round
  task_cts, task_best_cts, task_costs_history, best_costs, dead_tasks,
  task_tags,   \* task_tags and group_task_ids: a task's group, or NoTag
  ct, best_ct, best_score,
  log,         \* per task, the costs in the record file, oldest first
  starts       \* how often tune was called

sched == <<task_cts, task_best_cts, task_costs_history, best_costs,
           dead_tasks, task_tags>>
vars == <<pc, caller, idx, task_idx, round, sched, ct, best_ct, best_score,
          log, starts>>
-----------------------------------------------------------------------------
(* The budget: tune with num_measure_trials < 0 measures nothing (empty    *)
(* builder and runner, which return cost 0) and makes one record per task. *)
num_measure_trials ==
  IF NumMeasureTrials < 0 THEN NumTasks ELSE NumMeasureTrials

num_measures_per_round ==
  LET share == num_measure_trials \div NumTasks
  IN IF NumMeasuresPerRound <= share THEN NumMeasuresPerRound ELSE share

MeasuredCosts == IF NumMeasureTrials < 0 THEN {0} ELSE CostValues

(* _compute_score: the weighted sum of the latencies. *)
Score(costs) ==
  LET sum[n \in 0 .. NumTasks] ==
        IF n = 0 THEN 0 ELSE sum[n - 1] + TaskWeights[n - 1] * costs[n - 1]
  IN sum[NumTasks]

(* The best cost after looking at the costs of a sequence s, one by one.   *)
BestOf_KeepsLast(best, s) == IF s = <<>> THEN best ELSE s[Len(s)]
BestOf(best, s) == Min({best} \cup Range(s))

(* int(x / n + 0.5) *)
RoundHalfUp(x, n) == (2 * x + n) \div (2 * n)
-----------------------------------------------------------------------------
(* __init__: the state of a new scheduler object. *)
FreshScheduler ==
  [cts |-> [i \in Tasks |-> 0], best |-> [i \in Tasks |-> MaxFloat],
   history |-> [i \in Tasks |-> <<>>]]

Init ==
  /\ pc = "start" /\ caller = "warmup" /\ idx = 0 /\ task_idx = -1
  /\ round = <<>>
  /\ task_cts = FreshScheduler.cts /\ task_best_cts = FreshScheduler.cts
  /\ task_costs_history = FreshScheduler.history
  /\ best_costs = FreshScheduler.best
  /\ dead_tasks = {} /\ task_tags = SimilarityTag
  /\ ct = 0 /\ best_ct = 0 /\ best_score = Score(FreshScheduler.best)
  /\ log \in InitLogs
  /\ starts = 0

(* _restore_status: count the records of each task, take the best cost of  *)
(* the successful ones, and turn record counts into round counts.          *)
RestoredBest_NewestOnly(i) ==
  IF log[i] = <<>> THEN best_costs[i] ELSE BestOf(best_costs[i], <<log[i][Len(log[i])]>>)
RestoredBest(i) == BestOf(best_costs[i], log[i])

RestoredBestCt(i) ==
  IF RestoredBest(i) < best_costs[i]
  THEN task_cts[i] + Min({k \in DOMAIN log[i] : log[i][k] = RestoredBest(i)})
  ELSE task_best_cts[i]

RestoreStatus ==
  LET records == [i \in Tasks |-> task_cts[i] + Len(log[i])]
      n == num_measures_per_round
  IN /\ best_costs' = [i \in Tasks |-> RestoredBest(i)]
     /\ dead_tasks' = dead_tasks \cup
          {i \in Tasks : /\ PerTaskEarlyStopping >= 0
                         /\ records[i] - RestoredBestCt(i) > PerTaskEarlyStopping}
     /\ task_cts' = [i \in Tasks |-> RoundHalfUp(records[i], n)]
     /\ task_best_cts' = [i \in Tasks |-> RoundHalfUp(RestoredBestCt(i), n)]
     /\ task_costs_history' =
          [i \in Tasks |-> Append(task_costs_history[i], RestoredBest(i))]
     /\ UNCHANGED task_tags

(* The prologue of tune and transfer_tune. *)
Tune ==
  /\ pc = "start" /\ starts < MaxStarts
  /\ starts' = starts + 1
  /\ ct' = 0 /\ best_ct' = 0
  /\ IF num_measures_per_round <= 0
     THEN pc' = "error" /\ UNCHANGED sched
     ELSE /\ pc' = "warmup"
          /\ IF LoadLogFile THEN RestoreStatus ELSE UNCHANGED sched
  /\ idx' = 0 /\ caller' = "warmup" /\ round' = <<>>
  /\ UNCHANGED <<task_idx, best_score, log>>
-----------------------------------------------------------------------------
(* The warm-up: tune skips a task with restored rounds, transfer_tune      *)
(* tunes every task, the second half with newly made policies.             *)
Transfer == starts \in TransferCalls

NeedsWarmup_NoHistory(i) == Transfer \/ task_costs_history[i] = <<>>
NeedsWarmup_SkipsMiddle(i) == Transfer /\ i # NumTasks \div 2
NeedsWarmup(i) == Transfer \/ task_cts[i] = 0

WarmupTask ==
  /\ pc = "warmup" /\ idx < NumTasks
  /\ idx' = idx + 1
  /\ IF NeedsWarmup(idx)
     THEN pc' = "measure" /\ caller' = "warmup" /\ task_idx' = idx
     ELSE UNCHANGED <<pc, caller, task_idx>>
  /\ IF Transfer /\ idx = NumTasks \div 2
     THEN best_ct' = ct /\ best_score' = Score(best_costs)
     ELSE UNCHANGED <<best_ct, best_score>>
  /\ round' = <<>>
  /\ UNCHANGED <<sched, ct, log, starts>>

EndWarmup ==
  /\ pc = "warmup" /\ idx = NumTasks
  /\ best_ct' = ct /\ best_score' = Score(best_costs)
  /\ pc' = IF Transfer THEN "done" ELSE "loop"
  /\ task_idx' = -1
  /\ UNCHANGED <<caller, idx, round, sched, ct, log, starts>>
-----------------------------------------------------------------------------
(* The gradient strategy.  Gradients are fractions <<numerator,            *)
(* denominator>> with a positive denominator.                              *)
Plus(a, b) == <<a[1] * b[2] + b[1] * a[2], a[2] * b[2]>>
Less(a, b) == a[1] * b[2] < b[1] * a[2]
Smaller(a, b) == IF Less(a, b) THEN a ELSE b

Group(i) ==
  IF task_tags[i] = NoTag THEN {}
  ELSE {j \in Tasks : task_tags[j] = task_tags[i]}

(* The member of a group with the most flops per second. *)
Fastest(group) ==
  CHOOSE j \in group : \A k \in group :
    FlopCts[k] * best_costs[j] <= FlopCts[j] * best_costs[k]

BackwardGrad_Reversed(i) ==
  LET h == task_costs_history[i]
  IN IF task_cts[i] <= Len(h) /\ task_cts[i] > BackwardWindowSize
     THEN <<h[task_cts[i] - BackwardWindowSize] - h[task_cts[i]], BackwardWindowSize>>
     ELSE <<0, 1>>
BackwardGrad(i) ==
  LET now == task_cts[i]
      before == task_cts[i] - BackwardWindowSize
      h == task_costs_history[i]
  IN IF now <= Len(h) /\ before >= 1
     THEN <<h[now] - h[before], BackwardWindowSize>>
     ELSE <<0, 1>>

ForwardGrad(i) ==
  LET g_next_1 == <<best_costs[i] * (task_cts[i] - 1), task_cts[i]>>
      j == Fastest(Group(i))
      g_next_2 == <<Beta * FlopCts[i] * best_costs[j], FlopCts[j]>>
      g_next == IF Cardinality(Group(i)) > 1
                THEN Smaller(g_next_1, g_next_2) ELSE g_next_1
  IN Plus(g_next, <<-best_costs[i], 1>>)

LiveGradient(i) ==
  LET b == BackwardGrad(i)
      f == ForwardGrad(i)
      sum == Plus(<<AlphaNum * b[1], b[2]>>, <<(AlphaDen - AlphaNum) * f[1], f[2]>>)
  IN <<TaskWeights[i] * sum[1], sum[2]>>

Gradient_DeadToo(i) == LiveGradient(i)
Gradient(i) == IF i \in dead_tasks THEN <<0, 1>> ELSE LiveGradient(i)

(* The tasks the strategy may pick: np.random.choice over all tasks when   *)
(* the gradients are all equal, otherwise the first smallest gradient.     *)
GradientChoice ==
  LET g == [i \in Tasks |-> Gradient(i)]
      smallest == {i \in Tasks : \A j \in Tasks : ~Less(g[j], g[i])}
  IN IF smallest = Tasks THEN Tasks
     ELSE {i \in smallest : \A j \in smallest : i <= j}

RoundRobinChoice ==
  LET after(d) == (task_idx + d) % NumTasks
      alive == {d \in 1 .. NumTasks : after(d) \notin dead_tasks}
  IN {i \in Tasks : \E d \in alive : i = after(d) /\ \A e \in alive : d <= e}

NextTasks ==
  IF Strategy = "round-robin" THEN RoundRobinChoice ELSE GradientChoice

KeepTuning_OneMore ==
  ct <= num_measure_trials /\ Cardinality(dead_tasks) < NumTasks
KeepTuning ==
  ct < num_measure_trials /\ Cardinality(dead_tasks) < NumTasks

SelectTask ==
  /\ pc = "loop" /\ KeepTuning
  /\ \E i \in NextTasks : task_idx' = i
  /\ pc' = "measure" /\ caller' = "loop" /\ round' = <<>>
  /\ UNCHANGED <<idx, sched, ct, best_ct, best_score, log, starts>>

EndLoop ==
  /\ pc = "loop" /\ ~KeepTuning
  /\ pc' = "done"
  /\ UNCHANGED <<caller, idx, task_idx, round, sched, ct, best_ct,
                 best_score, log, starts>>
-----------------------------------------------------------------------------
(* Inside continue_search_one_round: the measurer finishes a batch and its *)
(* callbacks append the records to the file.                               *)
BatchSizes == 1 .. (num_measures_per_round - Len(round))

MeasureBatch ==
  /\ pc = "measure"
  /\ \E k \in BatchSizes :
       \E batch \in [1 .. k -> MeasuredCosts] :
          /\ round' = round \o batch
          /\ log' = [log EXCEPT ![task_idx] = @ \o batch]
  /\ UNCHANGED <<pc, caller, idx, task_idx, sched, ct, best_ct, best_score,
                 starts>>

(* _adjust_similarity_group: a task much slower than the fastest member of *)
(* its group, though tuned much more than the others, leaves the group.    *)
LeavesGroup(i, cts, costs) ==
  LET group == Group(i)
  IN /\ Cardinality(group) > 1
     /\ \E j \in group : FlopCts[i] * costs[j] * Beta < FlopCts[j] * costs[i]
     /\ \A j \in group \ {i} : cts[i] > GroupSlack + cts[j]

(* A task is dead once a round found nothing to measure or it has not      *)
(* improved for a long while.                                              *)
RoundKillsTask(no_change_trials) ==
  \/ round = <<>>
  \/ PerTaskEarlyStopping >= 0 /\ no_change_trials > PerTaskEarlyStopping

(* What _tune_task makes of the costs its policy returned. *)
Untuned ==
  [cts |-> task_cts, best_cts |-> task_best_cts, costs |-> best_costs,
   dead |-> dead_tasks, history |-> task_costs_history, ct |-> ct]
Counted(i) ==
  LET cost == BestOf(best_costs[i], round)
      cts == task_cts[i] + 1
      best_ct_i == IF cost < best_costs[i] THEN cts ELSE task_best_cts[i]
      kills == RoundKillsTask((cts - best_ct_i) * num_measures_per_round)
  IN [cts |-> [task_cts EXCEPT ![i] = cts],
      best_cts |-> [task_best_cts EXCEPT ![i] = best_ct_i],
      costs |-> [best_costs EXCEPT ![i] = cost],
      dead |-> IF kills THEN dead_tasks \cup {i} ELSE dead_tasks,
      history |-> [task_costs_history EXCEPT ![i] = Append(@, cost)],
      ct |-> ct + Len(round)]
TunedTask_EmptyRoundIgnored(i) == IF round = <<>> THEN Untuned ELSE Counted(i)
TunedTask(i) == Counted(i)

(* The end of _tune_task and, when the main loop called it, the end of the *)
(* loop's iteration.                                                       *)
EndRound ==
  LET t == TunedTask(task_idx)
      stop == /\ EarlyStopping >= 0 /\ t.ct - best_ct >= EarlyStopping
              /\ \A j \in Tasks : t.costs[j] # MaxFloat
  IN /\ pc = "measure"
     /\ task_cts' = t.cts /\ task_best_cts' = t.best_cts
     /\ best_costs' = t.costs /\ dead_tasks' = t.dead
     /\ task_costs_history' = t.history /\ ct' = t.ct
     /\ IF caller = "warmup"
        THEN pc' = "warmup" /\ UNCHANGED <<task_tags, best_ct, best_score>>
        ELSE /\ task_tags' = IF LeavesGroup(task_idx, t.cts, t.costs)
                             THEN [task_tags EXCEPT ![task_idx] = NoTag] ELSE task_tags
             /\ IF Score(t.costs) < best_score
                THEN best_score' = Score(t.costs) /\ best_ct' = t.ct /\ pc' = "loop"
                ELSE /\ UNCHANGED <<best_score, best_ct>>
                     /\ pc' = IF stop THEN "done" ELSE "loop"
     /\ round' = <<>>
     /\ UNCHANGED <<caller, idx, task_idx, log, starts>>
-----------------------------------------------------------------------------
(* A crash loses the process; the script starts a new scheduler object on  *)
(* the same record file.                                                   *)
Crash ==
  /\ pc \notin {"start", "error"} /\ starts < MaxStarts
  /\ pc' = "start" /\ round' = <<>>
  /\ task_cts' = FreshScheduler.cts /\ task_best_cts' = FreshScheduler.cts
  /\ task_costs_history' = FreshScheduler.history
  /\ best_costs' = FreshScheduler.best
  /\ dead_tasks' = {} /\ task_tags' = SimilarityTag
  /\ UNCHANGED <<caller, idx, task_idx, ct, best_ct, best_score, log, starts>>

(* tune is called again on the same object. *)
TuneAgain ==
  /\ pc = "done" /\ starts < MaxStarts
  /\ pc' = "start"
  /\ UNCHANGED <<caller, idx, task_idx, round, sched, ct, best_ct, best_score,
                 log, starts>>

(* Nothing is left to do. *)
Terminated ==
  /\ \/ pc = "error"
     \/ pc = "done" /\ starts = MaxStarts
  /\ UNCHANGED vars

Step == Tune \/ WarmupTask \/ EndWarmup \/ SelectTask \/ EndLoop
          \/ MeasureBatch \/ EndRound

Next == Step \/ Crash \/ TuneAgain \/ Terminated

Spec == Init /\ [][Next]_vars
FairSpec == Spec /\ WF_vars(Step)
-----------------------------------------------------------------------------
(* The types of the scheduler's fields and of the loop variables of tune;  *)
(* a round never holds more than num_measures_per_round results.           *)
TypeOK ==
  /\ pc \in {"start", "warmup", "loop", "measure", "done", "error"}
  /\ caller \in {"warmup", "loop"}
  /\ idx \in 0 .. NumTasks
  /\ task_idx \in Tasks \cup {-1}
  /\ pc = "measure" => task_idx \in Tasks
  /\ round \in Seq(CostValues)
  /\ Len(round) > 0 => Len(round) <= num_measures_per_round
  /\ task_cts \in [Tasks -> Nat] /\ task_best_cts \in [Tasks -> Nat]
  /\ task_costs_history \in [Tasks -> Seq(CostValues)]
  /\ best_costs \in [Tasks -> CostValues]
  /\ dead_tasks \subseteq Tasks
  /\ DOMAIN task_tags = Tasks
  /\ ct \in Nat /\ best_ct \in Nat /\ best_ct <= ct
  /\ log \in [Tasks -> Seq(CostValues)]
  /\ starts \in 0 .. MaxStarts

(* The budget: a call of tune never measures num_measures_per_round        *)
(* programs or more beyond num_measure_trials, whatever was restored.      *)
BudgetRespected ==
  num_measures_per_round > 0 =>
    ct + Len(round) < num_measure_trials + num_measures_per_round

(* The main loop divides by task_cts[i] (line 489), and the comment above  *)
(* num_measures_per_round promises that every task is tuned at least once: *)
(* after the warm-up every task has a positive round count, even when      *)
(* rounding turned its restored records into 0 rounds.                     *)
EveryTaskTuned ==
  pc \in {"loop", "done"} \/ (pc = "measure" /\ caller = "loop")
    => \A i \in Tasks : task_cts[i] >= 1

(* With load_log_file the scheduler's best cost of a task is the best cost *)
(* in the record file, at every point of every process, except for the     *)
(* results of the round still running: a crash in the middle of a round    *)
(* loses no measured optimum.                                              *)
ResumeKnowsBest ==
  LoadLogFile /\ pc \in {"warmup", "loop", "measure", "done"} =>
    \A i \in Tasks :
      BestOf(MaxFloat, log[i]) =
        BestOf(best_costs[i], IF pc = "measure" /\ i = task_idx THEN round ELSE <<>>)

(* The latency history the gradient reads never rises, and ends in the     *)
(* task's best cost, also across _restore_status.                          *)
HistoryFalls ==
  \A i \in Tasks : LET h == task_costs_history[i] IN
    /\ \A k \in 1 .. Len(h) - 1 : h[k + 1] <= h[k]
    /\ h # <<>> => h[Len(h)] = best_costs[i]

(* "assert grad <= 0" (line 509) never fails. *)
GradientNotPositive ==
  pc = "loop" /\ Strategy = "gradient" =>
    \A i \in Tasks : ~Less(<<0, 1>>, Gradient(i))

(* While the main loop runs, best_score is the current score, so           *)
(* ct - best_ct counts the trials since the last improvement, which is     *)
(* what early stopping is about.                                           *)
BestScoreIsCurrent ==
  pc = "loop" => best_score = Score(best_costs)

(* The main loop never spends a round on a dead task, provided no gradient *)
(* of a live task is zero (positive weights and costs).                    *)
LoopTunesLiveTasks ==
  [][pc = "loop" /\ pc' = "measure" => task_idx' \notin dead_tasks]_vars

(* Every call of tune returns, crash or no crash: each round of the main   *)
(* loop measures something, which moves ct towards the budget, or kills    *)
(* its task.                                                               *)
Terminates == pc = "start" ~> pc \in {"done", "error"}
=============================================================================
