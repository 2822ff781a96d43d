---------------------------- MODULE SketchPolicy ----------------------------
(***************************************************************************)
(* Pruner's search policy for one task (src/auto_scheduler/search_policy/  *)
(* sketch_policy.cc).  A round samples an initial population, every few    *)
(* rounds drafts a "potential space" from it by an evolutionary search on  *)
(* the static analyzer's scores (PSA), joins draft, sample and the best    *)
(* measured states, searches again on the learned model's scores, picks    *)
(* states not yet measured, and measures them.  ContinueSearchOneRound     *)
(* does one round, Search rounds until its budget is spent, Search with a  *)
(* budget of one only the search.  The policy object outlives a call, also *)
(* one that raised; a new process preloads a policy from the record file.  *)
(*                                                                         *)
(* A state stands for its ToStr() after InferBound; a population, whose    *)
(* duplicates the code skips, is a set; a score is the same in every       *)
(* prediction by one model (so not the random model's).                    *)
(***************************************************************************)
EXTENDS MeasurerStatus, FiniteSets, FiniteSetsExt, Functions

CONSTANTS
  Key,                \* the task's workload key
  States, Sampleable, \* programs; those the initial rules can produce
  Costs,              \* costs of successful measurements
  Models, PSA,        \* scores of a learned model, [States -> Int]; of the PSA
  Population,         \* evolutionary_search_population
  MinPop,             \* sample_init_min_population
  UseMeasured,        \* sample_init_use_measured_ratio * population
  NumIters, NumItersPotential,    \* generations of the two searches
  PotentialSize, PotentialIter,   \* potential_space_size, potential_space_iter
  NumMeasure, NumRandom,          \* num_measure_per_iter_, eps_greedy of them
  RetryCount,         \* empty_retry_count
  NTrials, EarlyStopping, BatchSize,
  Ops,                \* the entry points used: "continue", "search", "best"
  Raises, Restarts,   \* may a call raise, may the process restart
  InitLogs,           \* record files there may be at the start
  MaxCalls            \* bound: calls and restarts

Results == [state : States, cost : Costs \cup {MaxFloat}]

ASSUME PolicyAssumption ==
  /\ Key \in Keys /\ FlopCt \in [Keys -> Int] /\ NoState \notin States
  /\ IsFiniteSet(States) /\ Sampleable \subseteq States
  /\ Models \subseteq [States -> Int] /\ Models # {}
  /\ PSA \in [States -> Int] /\ MaxFloat \in Nat
  /\ Costs \subseteq Nat /\ \A c \in Costs : c < MaxFloat
  /\ {Population, MinPop, PotentialIter, PotentialSize} \subseteq Nat \ {0}
  /\ {NumMeasure, BatchSize} \subseteq Nat \ {0}
  /\ {UseMeasured, NumIters, NumItersPotential} \subseteq Nat
  /\ {NumRandom, RetryCount, NTrials, EarlyStopping, MaxCalls} \subseteq Nat
  /\ NumRandom <= NumMeasure /\ NTrials > 1
  /\ Ops \subseteq {"continue", "search", "best"}
  /\ {Raises, Restarts} \subseteq BOOLEAN /\ InitLogs \subseteq Seq(Results)

VARIABLES
  pc,      \* "idle", "round", "sample", "assemble", "evolve", "pick",
           \* "measure", or "undefined" behaviour
  op,      \* the entry point of the call
  known, vector, costs,  \* measured_states_set_, measured_states_vector_ and
           \* measured_states_throughputs_ (their inverses)
  min_pop, change_iter, potential_space_cache,  \* sample_init_min_pop_, the
           \* latter modulo PotentialIter
  model,   \* program_cost_model
  call,    \* the call's ct, empty_retry_count and measurer status
  sample,  \* SampleInitPopulation: states, their number, unchange_cnt
  ga,      \* EvolutionarySearch: mode, generation, population, the part of it
           \* not yet visited, heap, in_heap, and all visited states
  best_states, random_states,  \* what is left of them to pick from
  inputs, results,             \* states to measure, their results so far
  log,     \* the record file's results for this task
  calls

policy == <<known, vector, costs, min_pop, change_iter, potential_space_cache, model>>
vars == <<pc, op, policy, call, sample, ga, best_states, random_states,
          inputs, results, log, calls>>
-----------------------------------------------------------------------------
(* PreloadMeasuredStates: every recorded state is known; the first record  *)
(* of a state, unless it failed, gives its throughput.                     *)
PreloadKnown_ValidOnly(records) ==
  {records[i].state : i \in {j \in DOMAIN records : records[j].cost # MaxFloat}}
PreloadKnown(records) == {records[i].state : i \in DOMAIN records}

(* One record of its loop: kept are the throughputs so far. *)
Keep(records, kept, i) ==
  IF \/ \E j \in 1 .. i - 1 : records[j].state = records[i].state
     \/ records[i].cost = MaxFloat
  THEN kept
  ELSE Append(kept, records[i])

Preloaded(records) ==
  LET kept[i \in 0 .. Len(records)] ==
        IF i = 0 THEN <<>> ELSE Keep(records, kept[i - 1], i)
  IN kept[Len(records)]

PreloadVector(records) ==
  [n \in DOMAIN Preloaded(records) |-> Preloaded(records)[n].state]

PreloadCosts_FirstSuccess(records) ==
  LET valid == SelectSeq(records, LAMBDA r : r.cost # MaxFloat)
  IN [n \in DOMAIN valid |-> valid[n].cost]
PreloadCosts(records) ==
  [n \in DOMAIN Preloaded(records) |-> Preloaded(records)[n].cost]

NoCall == [ct |-> 0, retry |-> RetryCount, m |-> ResetStatus]
NoSample == [states |-> {}, count |-> 0, unchanged |-> 0]
Evolution(mode, population, measured) ==
  [mode |-> mode, k |-> 0, todo |-> population,
   heap |-> {}, in_heap |-> measured, seen |-> {}]
NoEvolution == Evolution("final", {}, {})

(* The constructor, with PreloadMeasuredStates as its callback. *)
Init ==
  /\ pc = "idle" /\ op \in Ops /\ log \in InitLogs /\ calls = 0
  /\ known = PreloadKnown(log) /\ vector = PreloadVector(log)
  /\ costs = PreloadCosts(log)
  /\ min_pop = MinPop /\ change_iter = 0 /\ potential_space_cache = {}
  /\ model \in Models
  /\ call = NoCall /\ sample = NoSample /\ ga = NoEvolution
  /\ best_states = <<>> /\ random_states = <<>> /\ inputs = <<>> /\ results = <<>>

Call ==
  /\ pc = "idle" /\ calls < MaxCalls
  /\ op' \in Ops /\ pc' = "round" /\ calls' = calls + 1
  /\ UNCHANGED <<policy, call, sample, ga, best_states, random_states, inputs,
                 results, log>>

(* A call returns, or raises. *)
EndCall ==
  /\ pc' = "idle" /\ call' = NoCall /\ sample' = NoSample /\ ga' = NoEvolution
  /\ best_states' = <<>> /\ random_states' = <<>>
  /\ inputs' = <<>> /\ results' = <<>>
  /\ UNCHANGED <<op, calls>>

(* The loop of Search, and the one round of the others. *)
Round ==
  /\ pc = "round" /\ (op = "search" => call.ct < NTrials)
  /\ pc' = "sample" /\ sample' = NoSample
  /\ model' \in IF op = "search" /\ inputs # <<>> THEN Models ELSE {model}
  /\ inputs' = <<>> /\ results' = <<>>
  /\ UNCHANGED <<op, known, vector, costs, min_pop, change_iter,
                 potential_space_cache, call, ga, best_states, random_states,
                 log, calls>>

EndSearch ==
  /\ pc = "round" /\ op = "search" /\ call.ct >= NTrials
  /\ EndCall
  /\ UNCHANGED <<policy, log>>

(* SampleInitPopulation: one iteration, in which the rules and the model   *)
(* leave any number of valid states; after five without any the target is  *)
(* halved.                                                                 *)
ReducedTarget_ToZero(unchanged) == IF unchanged = 5 THEN min_pop \div 2 ELSE min_pop
ReducedTarget(unchanged) ==
  IF unchanged = 5 /\ min_pop > 1 THEN min_pop \div 2 ELSE min_pop

SampleIter(found) ==
  LET unchanged == IF found = {} THEN sample.unchanged + 1 ELSE 0
  IN /\ pc = "sample" /\ sample.count < min_pop
     /\ \E n \in IF found = {} THEN {0} ELSE Cardinality(found) .. Population :
          sample' = [states |-> sample.states \cup found,
                     count |-> sample.count + n,
                     unchanged |-> unchanged % 5]
     /\ min_pop' = ReducedTarget(unchanged)
     /\ UNCHANGED <<pc, op, known, vector, costs, change_iter,
                    potential_space_cache, model, call, ga, best_states,
                    random_states, inputs, results, log, calls>>

(* Every PotentialIter rounds the potential space is drafted anew. *)
EndSample ==
  /\ pc = "sample" /\ sample.count >= min_pop
  /\ IF change_iter = 0
     THEN /\ potential_space_cache' = {}
          /\ ga' = Evolution("potential", sample.states, known) /\ pc' = "evolve"
     ELSE UNCHANGED <<potential_space_cache, ga>> /\ pc' = "assemble"
  /\ UNCHANGED <<op, known, vector, costs, min_pop, change_iter, model, call, sample,
                 best_states, random_states, inputs, results, log, calls>>

(* Argsort(measured_states_throughputs_): largest throughput first. *)
Argsort ==
  {f \in [DOMAIN costs -> DOMAIN costs] :
     IsInjective(f) /\ \A i, j \in DOMAIN costs : i < j => costs[f[i]] <= costs[f[j]]}

num_use_measured == Min({Len(vector), UseMeasured})

(* The initial population and the random states; indices[i] is undefined   *)
(* beyond the throughputs.                                                 *)
Assemble ==
  /\ pc = "assemble" /\ num_use_measured <= Len(costs)
  /\ \E indices \in Argsort :
       LET population == potential_space_cache \cup sample.states
                         \cup {vector[indices[i]] : i \in 1 .. num_use_measured}
       IN /\ random_states' \in
               [1 .. (IF op = "best" THEN 0 ELSE 3 * NumRandom) -> population]
          /\ ga' = Evolution("final", population, known)
  /\ change_iter' = (change_iter + 1) % PotentialIter
  /\ pc' = "evolve" /\ sample' = NoSample
  /\ UNCHANGED <<op, known, vector, costs, min_pop, potential_space_cache, model,
                 call, best_states, inputs, results, log, calls>>

AssembleUndefined ==
  /\ pc = "assemble" /\ num_use_measured > Len(costs)
  /\ pc' = "undefined"
  /\ UNCHANGED <<op, policy, call, sample, ga, best_states, random_states,
                 inputs, results, log, calls>>
-----------------------------------------------------------------------------
(* EvolutionarySearch. *)
Scores == IF ga.mode = "potential" THEN PSA ELSE model
OutSize == IF ga.mode = "potential" THEN PotentialSize ELSE 2 * NumMeasure
LastIter == IF ga.mode = "potential" THEN NumItersPotential ELSE NumIters

(* heap.front(): with equal scores, any of them. *)
HeapFronts_Any == ga.heap
HeapFronts == {s \in ga.heap : \A t \in ga.heap : Scores[s] <= Scores[t]}

(* One state of the population and the heap of the best states. *)
Visit ==
  /\ pc = "evolve"
  /\ \E s \in ga.todo :
       LET rest == [ga EXCEPT !.todo = @ \ {s}, !.seen = @ \cup {s}] IN
       \/ /\ s \in ga.in_heap
          /\ ga' = rest
       \/ /\ s \notin ga.in_heap /\ Cardinality(ga.heap) < OutSize
          /\ ga' = [rest EXCEPT !.heap = @ \cup {s}, !.in_heap = @ \cup {s}]
       \/ /\ s \notin ga.in_heap /\ Cardinality(ga.heap) >= OutSize
          /\ \E front \in HeapFronts :
               ga' = IF Scores[s] > Scores[front]
                     THEN [rest EXCEPT !.heap = (@ \ {front}) \cup {s},
                                       !.in_heap = (@ \ {front}) \cup {s}]
                     ELSE rest
  /\ UNCHANGED <<pc, op, policy, call, sample, best_states, random_states,
                 inputs, results, log, calls>>

(* The next generation: mutations and copies of this one. *)
Mutate ==
  /\ pc = "evolve" /\ ga.todo = {} /\ ga.k < LastIter
  /\ \E next \in SUBSET States \ {{}} :
       /\ Cardinality(next) <= Population
       /\ ga' = [ga EXCEPT !.k = @ + 1, !.todo = next]
  /\ UNCHANGED <<pc, op, policy, call, sample, best_states, random_states,
                 inputs, results, log, calls>>

EndPotential ==
  /\ pc = "evolve" /\ ga.todo = {} /\ ga.k = LastIter /\ ga.mode = "potential"
  /\ potential_space_cache' = ga.heap
  /\ pc' = "assemble" /\ ga' = NoEvolution
  /\ UNCHANGED <<op, known, vector, costs, min_pop, change_iter, model, call,
                 sample, best_states, random_states, inputs, results, log, calls>>

(* Best first; Search with a budget of one returns the best, or its check  *)
(* that there is one fails.                                                *)
EndEvolution ==
  /\ pc = "evolve" /\ ga.todo = {} /\ ga.k = LastIter /\ ga.mode = "final"
  /\ IF op = "best"
     THEN EndCall
     ELSE /\ best_states' \in {q \in Injection(1 .. Cardinality(ga.heap), ga.heap) :
               \A i, j \in DOMAIN q : i < j => Scores[q[i]] >= Scores[q[j]]}
          /\ pc' = "pick" /\ ga' = NoEvolution
          /\ UNCHANGED <<op, call, sample, random_states, inputs, results, calls>>
  /\ UNCHANGED <<policy, log>>
-----------------------------------------------------------------------------
(* PickStatesWithEpsGreedy: the first num_good inputs rather from the best *)
(* states, the others rather from the random ones.                         *)
Limit_PerRound == NumMeasure
Limit == IF op = "search" THEN Min({NumMeasure, NTrials - call.ct}) ELSE NumMeasure

PrefersBest == Len(inputs) < NumMeasure - NumRandom

FromBest == best_states # <<>> /\ (PrefersBest \/ random_states = <<>>)

PickOne ==
  /\ pc = "pick" /\ Len(inputs) < Limit /\ best_states \o random_states # <<>>
  /\ LET s == IF FromBest THEN Head(best_states) ELSE Head(random_states) IN
     /\ best_states' = IF FromBest THEN Tail(best_states) ELSE best_states
     /\ random_states' = IF FromBest THEN random_states ELSE Tail(random_states)
     /\ IF s \in known
        THEN UNCHANGED <<known, vector, inputs>>
        ELSE known' = known \cup {s} /\ vector' = Append(vector, s)
             /\ inputs' = Append(inputs, s)
  /\ UNCHANGED <<pc, op, costs, min_pop, change_iter, potential_space_cache,
                 model, call, sample, ga, results, log, calls>>

PickDone == pc = "pick" /\ (Len(inputs) >= Limit \/ best_states \o random_states = <<>>)

(* Search retries a round without inputs, but not for ever. *)
Retried_Uncounted == call
Retried == [call EXCEPT !.retry = @ - 1]

EmptyRound ==
  /\ PickDone /\ op = "search" /\ inputs = <<>>
  /\ IF call.retry > 0
     THEN /\ call' = Retried /\ pc' = "round"
          /\ best_states' = <<>> /\ random_states' = <<>>
          /\ UNCHANGED <<op, sample, ga, inputs, results, calls>>
     ELSE EndCall
  /\ UNCHANGED <<policy, log>>

StartMeasure ==
  /\ PickDone /\ (op = "search" => inputs # <<>>)
  /\ call' = [call EXCEPT !.retry = RetryCount]
  /\ best_states' = <<>> /\ random_states' = <<>> /\ pc' = "measure"
  /\ UNCHANGED <<op, policy, sample, ga, inputs, results, log, calls>>

(* ProgramMeasurer::Measure: a batch is measured, accounted and recorded. *)
MeasureBatch ==
  /\ pc = "measure" /\ Len(results) < Len(inputs)
  /\ LET n == Min({BatchSize, Len(inputs) - Len(results)}) IN
     \E c \in [1 .. n -> Costs \cup {MaxFloat}] :
       LET batch == [j \in 1 .. n |->
                       [state |-> inputs[Len(results) + j], cost |-> c[j]]]
       IN /\ results' = results \o batch
          /\ log' = log \o batch
          /\ call' = [call EXCEPT !.m = AccountAll(@, Key, batch)]
  /\ UNCHANGED <<pc, op, policy, sample, ga, best_states, random_states, inputs, calls>>

Throughputs == costs \o [j \in DOMAIN results |-> results[j].cost]

Measured == pc = "measure" /\ Len(results) = Len(inputs)

(* The end of ContinueSearchOneRound. *)
EndContinue ==
  /\ Measured /\ op = "continue"
  /\ costs' = Throughputs
  /\ model' \in IF inputs = <<>> THEN {model} ELSE Models
  /\ EndCall
  /\ UNCHANGED <<known, vector, min_pop, change_iter, potential_space_cache, log>>

(* In Search: early stopping comes before the throughputs. *)
StopsEarly ==
  /\ call.ct + Len(inputs) - call.m.best_ct[Key] > EarlyStopping
  /\ Key \in call.m.has_valid

EndEarly ==
  /\ Measured /\ op = "search" /\ StopsEarly
  /\ EndCall
  /\ UNCHANGED <<policy, log>>

EndRound ==
  /\ Measured /\ op = "search" /\ ~ StopsEarly
  /\ costs' = Throughputs
  /\ call' = [call EXCEPT !.ct = @ + Len(inputs)]
  /\ pc' = "round"
  /\ UNCHANGED <<op, known, vector, min_pop, change_iter, potential_space_cache,
                 model, sample, ga, best_states, random_states, inputs, results,
                 log, calls>>

(* A rule, a model, PruneInvalidState, the measurer or a callback raises.  *)
Raise ==
  /\ Raises /\ pc \in {"round", "sample", "evolve", "measure"}
  /\ EndCall
  /\ UNCHANGED <<policy, log>>

(* The process ends, wherever it is; a new one makes a policy and preloads. *)
Restart ==
  /\ Restarts /\ calls < MaxCalls /\ calls' = calls + 1
  /\ pc' = "idle" /\ op' = op
  /\ known' = PreloadKnown(log) /\ vector' = PreloadVector(log)
  /\ costs' = PreloadCosts(log)
  /\ min_pop' = MinPop /\ change_iter' = 0 /\ potential_space_cache' = {}
  /\ model' \in Models
  /\ call' = NoCall /\ sample' = NoSample /\ ga' = NoEvolution
  /\ best_states' = <<>> /\ random_states' = <<>> /\ inputs' = <<>> /\ results' = <<>>
  /\ UNCHANGED log

(* No more calls, or undefined behaviour. *)
Terminated ==
  /\ (pc = "idle" /\ calls = MaxCalls) \/ pc = "undefined"
  /\ UNCHANGED vars

Step ==
  \/ Round \/ EndSearch \/ (\E found \in SUBSET Sampleable : SampleIter(found))
  \/ EndSample \/ Assemble \/ AssembleUndefined
  \/ Visit \/ Mutate \/ EndPotential \/ EndEvolution
  \/ PickOne \/ EmptyRound \/ StartMeasure
  \/ MeasureBatch \/ EndContinue \/ EndEarly \/ EndRound

Next == Call \/ Step \/ Raise \/ Restart \/ Terminated

Spec == Init /\ [][Next]_vars

(* A step of a call is taken eventually, and sampling at random finds a    *)
(* valid state eventually, if there is one.                                *)
SampleFinds == \E found \in SUBSET Sampleable \ {{}} : SampleIter(found)

FairSpec == Spec /\ WF_vars(Step) /\ WF_vars(SampleFinds)
-----------------------------------------------------------------------------
(* The types of the policy's fields; min_pop never falls below one. *)
TypeOK ==
  /\ pc \in {"idle", "round", "sample", "assemble", "evolve", "pick", "measure", "undefined"}
  /\ op \in Ops /\ known \subseteq States /\ vector \in Seq(States)
  /\ costs \in Seq(Costs \cup {MaxFloat})
  /\ min_pop \in 1 .. MinPop /\ change_iter \in 0 .. PotentialIter - 1
  /\ potential_space_cache \subseteq States /\ model \in Models
  /\ Cardinality(potential_space_cache) <= PotentialSize
  /\ call.ct \in Nat /\ call.retry \in 0 .. RetryCount
  /\ ga.heap \subseteq ga.in_heap
  /\ inputs \in Seq(States) /\ results \in Seq(Results) /\ log \in Seq(Results)

Abstract == INSTANCE SearchPolicy WITH
  recorded <- {log[i].state : i \in DOMAIN log},
  pending <- {inputs[i] : i \in Len(results) + 1 .. Len(inputs)}

(* The policy keeps its promise: no state is handed to the measurer twice  *)
(* by one process, and none that the record file holds, whatever sampling, *)
(* draft, model, random states, exceptions and restarts did.               *)
KeepsPromise == Abstract!Spec

(* The heap of EvolutionarySearch holds the best states visited that were  *)
(* never measured: as many as there is room for, and none outside it has a *)
(* better score.                                                           *)
HeapKeepsBest ==
  pc = "evolve" =>
    LET candidates == ga.seen \ known IN
    /\ ga.heap \subseteq candidates
    /\ Cardinality(ga.heap) = Min({OutSize, Cardinality(candidates)})
    /\ \A s \in ga.heap, t \in candidates \ ga.heap : Scores[s] >= Scores[t]

(* measured_states_throughputs_[i] is the throughput that was measured for *)
(* measured_states_vector_[i] and that the record file has for it first,   *)
(* so that the argsort of the one picks good states of the other.          *)
ThroughputsMatch ==
  pc \in {"idle", "round", "sample", "assemble", "evolve"} =>
    /\ Len(vector) = Len(costs)
    /\ IsInjective(vector)
    /\ \A i \in DOMAIN vector : \E j \in DOMAIN log :
         /\ log[j] = [state |-> vector[i], cost |-> costs[i]]
         /\ \A k \in 1 .. j - 1 : log[k].state # vector[i]

(* Search measures no more programs than its budget. *)
SearchBudget ==
  op = "search" =>
    call.ct + (IF pc \in {"pick", "measure"} THEN Len(inputs) ELSE 0) <= NTrials

(* Every call returns, although rounds may find nothing to measure. *)
CallReturns == (pc = "round") ~> (pc = "idle")

(* What search_policy.h says of the vectors ("The array of already         *)
(* measured states", "The throughputs of already measured states", lines   *)
(* 187 and 190): there is a throughput for each measured state whenever a  *)
(* round reads them.                                                       *)
ThroughputPerState == pc = "assemble" => Len(costs) = Len(vector)
=============================================================================
