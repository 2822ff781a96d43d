--------------------------- MODULE ProgramMeasurer ---------------------------
(***************************************************************************)
(* The program measurer (src/auto_scheduler/measure.cc).  Measure builds   *)
(* and runs its inputs batch by batch, keeps the best result of each       *)
(* workload, and after each batch calls the callbacks, of which one        *)
(* (RecordToFile) appends the batch to the record file.  A builder, a      *)
(* runner or a callback may raise, which ends the call of Measure but      *)
(* leaves the measurer as it is; the next call uses it again.              *)
(***************************************************************************)
EXTENDS MeasurerStatus, FiniteSets, FiniteSetsExt, SequencesExt, Functions

CONSTANTS States, Costs,        \* programs, costs of successful measurements
          BatchSize,            \* builder->n_parallel * 2
          MaxContinuousError,   \* max_continuous_error
          Verbose,              \* the verbosity the measurer is made with
          MaxInputs, MaxTrials  \* bounds: inputs of a call, results before the
                                \* last call, of the record file and since Reset

Results == [state : States, cost : Costs \cup {MaxFloat}]

ASSUME MeasurerAssumption ==
  /\ FlopCt \in [Keys -> Int] /\ MaxFloat \in Nat /\ NoState \notin States
  /\ Costs \subseteq Nat /\ \A c \in Costs : c < MaxFloat
  /\ BatchSize \in Nat \ {0} /\ MaxContinuousError \in Nat /\ Verbose \in Nat
  /\ MaxInputs \in Nat /\ MaxTrials \in Nat

VARIABLES
  pc,             \* "idle", "batch" (the loop of Measure), "callbacks"
  key, inputs,    \* the call: its workload key, the inputs not yet measured
  batch,          \* result_batch
  results,        \* the results Measure will return
  old_verbosity, verbose,
  m,              \* the measurer's status
  file,           \* the record file: key and result
  trace           \* everything accounted since the last Reset, in order

vars == <<pc, key, inputs, batch, results, old_verbosity, verbose, m, file, trace>>

Init ==
  /\ pc = "idle" /\ key \in Keys /\ inputs = <<>> /\ batch = <<>>
  /\ results = <<>> /\ old_verbosity = Verbose /\ verbose = Verbose
  /\ m = ResetStatus /\ file = <<>> /\ trace = <<>>

Reset ==
  /\ pc = "idle" /\ trace # <<>>
  /\ m' = ResetStatus /\ trace' = <<>>
  /\ UNCHANGED <<pc, key, inputs, batch, results, old_verbosity, verbose, file>>

(* Measure is called. *)
Measure ==
  /\ pc = "idle" /\ Len(trace) < MaxTrials /\ Len(file) < MaxTrials
  /\ key' \in Keys
  /\ inputs' \in BoundedSeq(States, MaxInputs)
  /\ results' = <<>> /\ old_verbosity' = verbose /\ pc' = "batch"
  /\ UNCHANGED <<batch, verbose, m, file, trace>>

(* SilentMeasure of the next batch, and the update of the best state. *)
BatchLength_Everything == Len(inputs)
BatchLength == Min({BatchSize, Len(inputs)})

MeasureBatch ==
  /\ pc = "batch" /\ inputs # <<>>
  /\ \E c \in [1 .. BatchLength -> Costs \cup {MaxFloat}] :
       LET measured == [j \in 1 .. BatchLength |-> [state |-> inputs[j], cost |-> c[j]]]
       IN /\ batch' = measured
          /\ m' = AccountAll(m, key, measured)
          /\ trace' = trace \o [j \in 1 .. BatchLength |-> <<key, measured[j]>>]
  /\ inputs' = SubSeq(inputs, BatchLength + 1, Len(inputs))
  /\ pc' = "callbacks"
  /\ UNCHANGED <<key, results, old_verbosity, verbose, file>>

(* The callbacks, the results, and the debug mode. *)
DebugMode(status) == status.error_ct > MaxContinuousError

Recorded == file \o [j \in DOMAIN batch |-> <<key, batch[j]>>]

Callbacks_ErrorsDropped ==
  /\ pc = "callbacks"
  /\ file' = SelectSeq(Recorded, LAMBDA r : r[2].cost # MaxFloat)
  /\ results' = results \o batch
  /\ verbose' = IF DebugMode(m) THEN 2 ELSE old_verbosity
  /\ batch' = <<>> /\ pc' = "batch"
  /\ UNCHANGED <<key, inputs, old_verbosity, m, trace>>
Callbacks ==
  /\ pc = "callbacks" /\ file' = Recorded
  /\ results' = results \o batch
  /\ verbose' = IF DebugMode(m) THEN 2 ELSE old_verbosity
  /\ batch' = <<>> /\ pc' = "batch"
  /\ UNCHANGED <<key, inputs, old_verbosity, m, trace>>

Return ==
  /\ pc = "batch" /\ inputs = <<>>
  /\ pc' = "idle"
  /\ UNCHANGED <<key, inputs, batch, results, old_verbosity, verbose, m, file, trace>>

(* The builder, the runner or a callback raises, the callback before or    *)
(* after RecordToFile: the call is over and its results are lost.          *)
Raise ==
  /\ \/ pc = "batch" /\ inputs # <<>> /\ file' = file
     \/ pc = "callbacks" /\ file' \in {file, Recorded}
  /\ pc' = "idle" /\ inputs' = <<>> /\ batch' = <<>> /\ results' = <<>>
  /\ UNCHANGED <<key, old_verbosity, verbose, m, trace>>

(* The bounds are reached. *)
Terminated ==
  /\ pc = "idle" /\ (Len(trace) >= MaxTrials \/ Len(file) >= MaxTrials)
  /\ UNCHANGED vars

Next == Terminated \/ Reset \/ Measure \/ MeasureBatch \/ Callbacks \/ Return \/ Raise

Spec == Init /\ [][Next]_vars
-----------------------------------------------------------------------------
(* The types of the measurer's fields. *)
TypeOK ==
  /\ pc \in {"idle", "batch", "callbacks"} /\ key \in Keys
  /\ inputs \in Seq(States) /\ batch \in Seq(Results) /\ results \in Seq(Results)
  /\ Len(batch) <= BatchSize
  /\ old_verbosity \in {Verbose, 2} /\ verbose \in {Verbose, 2}
  /\ m.ct \in Nat /\ m.error_ct \in 0 .. m.ct /\ m.has_valid \subseteq Keys
  /\ m.best_cost \in [Keys -> Costs \cup {MaxFloat}]
  /\ m.best_state \in [Keys -> States \cup {NoState}]
  /\ m.best_ct \in [Keys -> Nat]
  /\ trace \in Seq(Keys \X Results) /\ file \in Seq(Keys \X Results)

Successes(t, k) == {i \in DOMAIN t : t[i][1] = k /\ t[i][2].cost # MaxFloat}

(* What a status s says of the results t: of each workload's best program, *)
(* and of the errors at the end.                                           *)
FirstMinimum(s, t) ==
  \A k \in Keys :
    /\ k \in s.has_valid <=> Successes(t, k) # {}
    /\ IF Successes(t, k) = {} \/ FlopCt[k] <= 0
       THEN s.best_state[k] = NoState
       ELSE LET i == s.best_ct[k] + 1 IN
         /\ i \in Successes(t, k)
         /\ t[i][2] = [state |-> s.best_state[k], cost |-> s.best_cost[k]]
         /\ \A j \in Successes(t, k) :
              /\ t[j][2].cost >= s.best_cost[k]
              /\ t[j][2].cost = s.best_cost[k] => i <= j

Streak(s, t) ==
  /\ s.ct = Len(t)
  /\ \A i \in 0 .. s.error_ct - 1 : t[s.ct - i][2].cost = MaxFloat
  /\ s.error_ct < s.ct => t[s.ct - s.error_ct][2].cost # MaxFloat

(* For every workload the measurer remembers the first of its fastest      *)
(* programs since the last Reset, and that program's index among all       *)
(* measured programs, whatever workloads, failures and exceptions came in  *)
(* between; a workload has a valid result exactly when it has a best one,  *)
(* unless its flop_ct is not positive, and then it never has a best one.   *)
BestIsFirstMinimum == FirstMinimum(m, trace)

(* error_ct is the length of the run of failures that ends with the last   *)
(* measured program: across batches, calls and workloads, and whatever     *)
(* exception ended a call.                                                 *)
ErrorStreak == Streak(m, trace)

(* What Measure returns was recorded: at any point of a call, and after    *)
(* it, the results so far are the end of the record file, so the scheduler *)
(* never counts a trial that a restart would not find.                     *)
ResultsAreRecorded ==
  IsSuffix([j \in DOMAIN results |-> <<key, results[j]>>], file)
=============================================================================
