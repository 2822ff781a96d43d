------------------------ MODULE TaskSchedulerProofs ------------------------
(* Theorems about TaskScheduler, for every number of tasks, budget, record *)
(* file and number of restarts.                                            *)
EXTENDS TaskScheduler, TLAPS, FiniteSetTheorems

(* A non-empty set of natural numbers has a smallest element, which is     *)
(* what Min (the best cost of a list) chooses.                             *)
LEMMA MinOfNats ==
  ASSUME NEW S, S \subseteq Nat, S # {}
  PROVE  Min(S) \in S /\ \A y \in S : Min(S) <= y
<1>1. \E x \in S : \A y \in S : ~(<<y, x>> \in OpToRel(<, Nat))
  BY WFMin, NatLessThanWellFounded, Zenon
<1>2. PICK x \in S : \A y \in S : ~(<<y, x>> \in OpToRel(<, Nat))
  BY <1>1, Zenon
<1>3. ASSUME NEW y \in S, y < x PROVE FALSE
  <2>1. <<y, x>> \in Nat \X Nat /\ <<y, x>>[1] < <<y, x>>[2]
    BY <1>3, Zenon
  <2>2. <<y, x>> \in OpToRel(<, Nat)
    BY <2>1, Zenon DEF OpToRel
  <2>. QED
    BY <1>2, <2>2, Zenon
<1>4. x \in S /\ \A y \in S : x <= y
  BY <1>3
<1>. QED
  BY <1>4, Zenon DEF Min

(* Integer division rounds down. *)
LEMMA DivTimes ==
  ASSUME NEW a \in Int, NEW b \in Nat \ {0}
  PROVE  (a \div b) \in Int /\ b * (a \div b) <= a /\ (a >= 0 => a \div b >= 0)
  OBVIOUS

(* The rounded mean is a natural number. *)
LEMMA Rounding ==
  ASSUME NEW x \in Nat, NEW n \in Nat \ {0}
  PROVE  RoundHalfUp(x, n) \in Nat
  BY DivTimes DEF RoundHalfUp

(* Multiplication, one factor at a time. *)
LEMMA Product ==
  ASSUME NEW a \in Int, NEW b \in Int, NEW n \in Int, n >= 0
  PROVE  (a + 1) * n = a * n + n /\ a * n \in Int /\ (a <= b => a * n <= b * n)
<1>1. (a + 1) * n = a * n + n /\ a * n \in Int
  OBVIOUS
<1>2. ASSUME a <= b PROVE a * n <= b * n
  <2>1. b * n = a * n + (b - a) * n
    OBVIOUS
  <2>2. (b - a) * n >= 0
    BY <1>2
  <2>. QED
    BY <2>1, <2>2
<1>. QED
  BY <1>1, <1>2, Zenon

(* BestOf keeps costs in CostValues and never rises; the initial costs and *)
(* those of a failed measurement count as MaxFloat.                        *)
LEMMA CostsAreNats == CostValues \subseteq Nat
  BY ConstantsAssumption, Zenon DEF CostValues

(* The running minimum is one of the costs and no larger than any. *)
LEMMA BestOfProps ==
  ASSUME NEW b \in CostValues, NEW s \in Seq(CostValues)
  PROVE  /\ BestOf(b, s) \in CostValues
         /\ BestOf(b, s) \in {b} \cup Range(s)
         /\ BestOf(b, s) <= b
         /\ \A k \in DOMAIN s : BestOf(b, s) <= s[k]
<1>1. Range(s) \subseteq CostValues /\ \A k \in DOMAIN s : s[k] \in Range(s)
  BY DEF Range
<1>2. {b} \cup Range(s) \subseteq Nat /\ {b} \cup Range(s) # {}
  BY <1>1, CostsAreNats, Zenon
<1>3. /\ Min({b} \cup Range(s)) \in {b} \cup Range(s)
      /\ \A y \in {b} \cup Range(s) : Min({b} \cup Range(s)) <= y
  BY <1>2, MinOfNats, Zenon
<1>. QED
  BY <1>1, <1>3, Zenon DEF BestOf

(* It is the only such cost. *)
LEMMA BestOfUnique ==
  ASSUME NEW b \in CostValues, NEW s \in Seq(CostValues),
         NEW v \in {b} \cup Range(s), v <= b, \A k \in DOMAIN s : v <= s[k]
  PROVE  BestOf(b, s) = v
<1>. DEFINE w == BestOf(b, s)
<1>1. /\ w \in CostValues /\ w <= b /\ \A k \in DOMAIN s : w <= s[k]
      /\ w \in {b} \cup Range(s)
  BY BestOfProps, Zenon
<1>2. w \in Nat /\ v \in Nat
  <2>1. Range(s) \subseteq CostValues
    BY DEF Range
  <2>. QED
    BY <1>1, <2>1, CostsAreNats, Zenon
<1>3. w <= v
  BY <1>1, Zenon DEF Range
<1>4. v <= w
  BY <1>1, Zenon DEF Range
<1>. HIDE DEF w
<1>5. w = v
  BY <1>2, <1>3, <1>4
<1>. QED
  BY <1>5, Zenon DEF w

(* The minimum over no new cost is the old one. *)
LEMMA BestOfEmpty ==
  ASSUME NEW b \in CostValues PROVE BestOf(b, <<>>) = b
<1>1. <<>> \in Seq(CostValues) /\ DOMAIN <<>> = {} /\ b <= b
  BY CostsAreNats
<1>. QED
  BY <1>1, BestOfUnique, Zenon

(* What concatenation does to the length and to the elements. *)
LEMMA ConcatFacts ==
  ASSUME NEW s \in Seq(CostValues), NEW x \in Seq(CostValues)
  PROVE  /\ s \o x \in Seq(CostValues) /\ Len(s \o x) = Len(s) + Len(x)
         /\ \A i \in 1 .. Len(s) + Len(x) :
              (s \o x)[i] = IF i <= Len(s) THEN s[i] ELSE x[i - Len(s)]
  OBVIOUS

(* The costs of a history and its extension. *)
LEMMA RangeConcat ==
  ASSUME NEW s \in Seq(CostValues), NEW x \in Seq(CostValues)
  PROVE  Range(s \o x) = Range(s) \cup Range(x)
<1>1. /\ s \o x \in Seq(CostValues) /\ Len(s \o x) = Len(s) + Len(x)
      /\ \A i \in 1 .. Len(s) + Len(x) :
           (s \o x)[i] = IF i <= Len(s) THEN s[i] ELSE x[i - Len(s)]
  BY ConcatFacts, Zenon
<1>2. /\ DOMAIN s = 1 .. Len(s) /\ DOMAIN x = 1 .. Len(x) /\ Len(s) \in Nat
      /\ Len(x) \in Nat /\ DOMAIN (s \o x) = 1 .. Len(s) + Len(x)
  BY <1>1
<1>3. ASSUME NEW k \in DOMAIN (s \o x) PROVE (s \o x)[k] \in Range(s) \cup Range(x)
  BY <1>1, <1>2 DEF Range
<1>4. ASSUME NEW k \in DOMAIN s PROVE s[k] \in Range(s \o x)
  BY <1>1, <1>2 DEF Range
<1>5. ASSUME NEW k \in DOMAIN x PROVE x[k] \in Range(s \o x)
  <2>1. k + Len(s) \in DOMAIN (s \o x) /\ (s \o x)[k + Len(s)] = x[k]
    BY <1>1, <1>2
  <2>. QED
    BY <2>1, Zenon DEF Range
<1>6. Range(s \o x) \subseteq Range(s) \cup Range(x)
  BY <1>3, Zenon DEF Range
<1>7. Range(s) \subseteq Range(s \o x)
  BY <1>4, Zenon DEF Range
<1>8. Range(x) \subseteq Range(s \o x)
  BY <1>5, Zenon DEF Range
<1>. QED
  BY <1>6, <1>7, <1>8, Zenon

(* Looking at one list of costs and then at another is looking at both.    *)
LEMMA BestOfConcat ==
  ASSUME NEW b \in CostValues, NEW s \in Seq(CostValues), NEW x \in Seq(CostValues)
  PROVE  BestOf(b, s \o x) = BestOf(BestOf(b, s), x)
<1>. DEFINE m == BestOf(b, s)
            w == BestOf(m, x)
<1>1. /\ m \in CostValues /\ m \in {b} \cup Range(s) /\ m <= b
      /\ \A k \in DOMAIN s : m <= s[k]
  BY BestOfProps, Zenon
<1>2. /\ w \in CostValues /\ w \in {m} \cup Range(x) /\ w <= m
      /\ \A k \in DOMAIN x : w <= x[k]
  BY <1>1, BestOfProps, Zenon
<1>. HIDE DEF m, w
<1>3. s \o x \in Seq(CostValues) /\ Range(s \o x) = Range(s) \cup Range(x)
  BY RangeConcat, ConcatFacts, Zenon
<1>4. w \in {b} \cup Range(s \o x)
  BY <1>1, <1>2, <1>3, Zenon
<1>5. w \in Nat /\ m \in Nat /\ b \in Nat /\ Range(s) \subseteq Nat /\ Range(x) \subseteq Nat
  <2>1. Range(s) \subseteq CostValues /\ Range(x) \subseteq CostValues
    BY DEF Range
  <2>. QED
    BY <1>1, <1>2, <2>1, CostsAreNats, Zenon
<1>6. (\A y \in Range(s) : m <= y) /\ (\A y \in Range(x) : w <= y)
  BY <1>1, <1>2, Zenon DEF Range
<1>7. w <= b /\ \A y \in Range(s) \cup Range(x) : w <= y
  BY <1>1, <1>2, <1>5, <1>6
<1>8. \A k \in DOMAIN (s \o x) : w <= (s \o x)[k]
  BY <1>3, <1>7, Zenon DEF Range
<1>9. BestOf(b, s \o x) = w
  BY <1>3, <1>4, <1>7, <1>8, BestOfUnique, Zenon
<1>. QED
  BY <1>9, Zenon DEF w, m

(* The share of a round: one round of every task fits in the budget.       *)
LEMMA Share ==
  /\ num_measure_trials \in Int /\ num_measures_per_round \in Int
  /\ NumTasks \in Nat \ {0}
  /\ num_measures_per_round > 0 =>
       NumTasks * num_measures_per_round <= num_measure_trials
<1>1. num_measure_trials \in Int /\ NumTasks \in Nat \ {0} /\ NumMeasuresPerRound \in Int
  BY ConstantsAssumption DEF num_measure_trials
<1>. DEFINE share == num_measure_trials \div NumTasks
<1>2. share \in Int /\ NumTasks * share <= num_measure_trials
  BY <1>1, DivTimes, Zenon
<1>3. num_measures_per_round \in Int /\ num_measures_per_round <= share
  BY <1>1, <1>2 DEF num_measures_per_round
<1>. HIDE DEF share
<1>4. ASSUME num_measures_per_round > 0
      PROVE  NumTasks * num_measures_per_round <= NumTasks * share
  BY <1>1, <1>2, <1>3, <1>4
<1>. QED
  BY <1>1, <1>2, <1>3, <1>4
-----------------------------------------------------------------------------
(* What _restore_status computes has the types of the scheduler's fields.  *)
LEMMA RestoreTypes ==
  ASSUME TypeOK, num_measures_per_round > 0, RestoreStatus
  PROVE  /\ task_cts' \in [Tasks -> Nat] /\ task_best_cts' \in [Tasks -> Nat]
         /\ best_costs' \in [Tasks -> CostValues] /\ dead_tasks' \subseteq Tasks
         /\ task_costs_history' \in [Tasks -> Seq(CostValues)]
         /\ task_tags' = task_tags
<1>. DEFINE n == num_measures_per_round
<1>1. n \in Nat \ {0}
  BY Share
<1>2. ASSUME NEW i \in Tasks
      PROVE  /\ RestoredBest(i) \in CostValues /\ RestoredBestCt(i) \in Nat
             /\ task_cts[i] + Len(log[i]) \in Nat
  <2>1. /\ best_costs[i] \in CostValues /\ log[i] \in Seq(CostValues)
        /\ task_cts[i] \in Nat /\ task_best_cts[i] \in Nat
    BY Zenon DEF TypeOK
  <2>2. /\ RestoredBest(i) \in CostValues
        /\ RestoredBest(i) \in {best_costs[i]} \cup Range(log[i])
    BY <2>1, BestOfProps, Zenon DEF RestoredBest
  <2>. DEFINE K == {k \in DOMAIN log[i] : log[i][k] = RestoredBest(i)}
  <2>3. ASSUME RestoredBest(i) < best_costs[i] PROVE Min(K) \in Nat
    <3>0. best_costs[i] \in Nat /\ RestoredBest(i) \in Nat
      BY <2>1, <2>2, CostsAreNats, Zenon
    <3>1. RestoredBest(i) # best_costs[i]
      BY <2>3, <3>0
    <3>2. K # {}
      BY <2>2, <3>1, Zenon DEF Range
    <3>3. K \subseteq Nat
      BY <2>1
    <3>. QED
      BY <3>2, <3>3, MinOfNats, Zenon
  <2>4. RestoredBestCt(i) \in Nat
    BY <2>1, <2>3 DEF RestoredBestCt
  <2>. QED
    BY <2>1, <2>2, <2>4
<1>3. ASSUME NEW i \in Tasks
      PROVE  /\ RoundHalfUp(task_cts[i] + Len(log[i]), n) \in Nat
             /\ RoundHalfUp(RestoredBestCt(i), n) \in Nat
  BY <1>1, <1>2, Rounding, Zenon
<1>4. task_cts' \in [Tasks -> Nat]
  BY <1>3, Zenon DEF RestoreStatus
<1>5. task_best_cts' \in [Tasks -> Nat]
  BY <1>3, Zenon DEF RestoreStatus
<1>6. best_costs' \in [Tasks -> CostValues]
  BY <1>2, Zenon DEF RestoreStatus
<1>7. task_costs_history' \in [Tasks -> Seq(CostValues)]
  BY <1>2 DEF RestoreStatus, TypeOK
<1>8. dead_tasks' \subseteq Tasks /\ task_tags' = task_tags
  BY Zenon DEF RestoreStatus, TypeOK
<1>. QED
  BY <1>4, <1>5, <1>6, <1>7, <1>8, Zenon

(* What _tune_task computes has the types of the scheduler's fields.       *)
LEMMA TunedTypes ==
  ASSUME TypeOK, task_idx \in Tasks
  PROVE  LET t == TunedTask(task_idx) IN
         /\ t.cts \in [Tasks -> Nat] /\ t.best_cts \in [Tasks -> Nat]
         /\ t.costs \in [Tasks -> CostValues] /\ t.dead \subseteq Tasks
         /\ t.history \in [Tasks -> Seq(CostValues)]
         /\ t.ct = ct + Len(round) /\ t.ct \in Nat /\ t.ct >= ct
<1>1. BestOf(best_costs[task_idx], round) \in CostValues
  BY BestOfProps, Zenon DEF TypeOK
<1>2. ct \in Nat /\ Len(round) \in Nat
  BY DEF TypeOK
<1>. QED
  BY <1>1, <1>2 DEF TunedTask, Counted, TypeOK

(* The fields of a scheduler just constructed. *)
LEMMA FreshTypes ==
  /\ FreshScheduler.cts \in [Tasks -> Nat]
  /\ FreshScheduler.best \in [Tasks -> CostValues]
  /\ FreshScheduler.history \in [Tasks -> Seq(CostValues)]
  BY DEF FreshScheduler, CostValues

(* The types hold of a new scheduler. *)
LEMMA InitTypes == Init => TypeOK
<1>. SUFFICES ASSUME Init PROVE TypeOK
  BY Zenon
<1>1. 0 \in 0 .. NumTasks /\ 0 \in 0 .. MaxStarts /\ DOMAIN SimilarityTag = Tasks
  BY ConstantsAssumption
<1>2. log \in [Tasks -> Seq(CostValues)]
  BY ConstantsAssumption, Zenon DEF Init
<1>3. <<>> \in Seq(CostValues) /\ Len(<<>>) = 0
  OBVIOUS
<1>. QED
  BY <1>1, <1>2, <1>3, FreshTypes DEF Init, TypeOK

(* What a batch adds to the round and to the record file. *)
LEMMA Batch ==
  ASSUME TypeOK, MeasureBatch
  PROVE  \E batch \in Seq(CostValues) :
           /\ Len(batch) + Len(round) <= num_measures_per_round
           /\ round' = round \o batch
           /\ log' = [log EXCEPT ![task_idx] = @ \o batch]
<1>1. PICK k \in BatchSizes : \E batch \in [1 .. k -> MeasuredCosts] :
        /\ round' = round \o batch
        /\ log' = [log EXCEPT ![task_idx] = @ \o batch]
  BY Zenon DEF MeasureBatch
<1>2. PICK batch \in [1 .. k -> MeasuredCosts] :
        /\ round' = round \o batch
        /\ log' = [log EXCEPT ![task_idx] = @ \o batch]
  BY <1>1, ZenonT(40)
<1>3. k \in Nat /\ k + Len(round) <= num_measures_per_round
  BY Share DEF BatchSizes, TypeOK
<1>4. MeasuredCosts \subseteq CostValues
  BY ConstantsAssumption, Zenon DEF MeasuredCosts, CostValues
<1>5. batch \in Seq(CostValues) /\ Len(batch) = k
  BY <1>3, <1>4
<1>. QED
  BY <1>2, <1>3, <1>5, Zenon

(* Every step of the scheduler keeps the types. *)
LEMMA NextTypes == TypeOK /\ [Next]_vars => TypeOK'
<1>. SUFFICES ASSUME TypeOK, [Next]_vars PROVE TypeOK'
  BY Zenon
<1>. USE DEF TypeOK, sched
<1>c. NumTasks \in Nat \ {0} /\ MaxStarts \in Nat /\ DOMAIN SimilarityTag = Tasks
  BY ConstantsAssumption, Zenon
<1>e. <<>> \in Seq(CostValues) /\ Len(<<>>) = 0
  OBVIOUS
<1>1. CASE Tune
  <2>1. /\ pc' \in {"error", "warmup"} /\ starts < MaxStarts /\ starts' = starts + 1
        /\ ct' = 0 /\ best_ct' = 0 /\ idx' = 0 /\ caller' = "warmup"
        /\ round' = <<>> /\ UNCHANGED <<task_idx, log>>
    BY <1>1, Zenon DEF Tune
  <2>2. UNCHANGED sched \/ (num_measures_per_round > 0 /\ RestoreStatus)
    BY <1>1, Share DEF Tune
  <2>3. /\ task_cts' \in [Tasks -> Nat] /\ task_best_cts' \in [Tasks -> Nat]
        /\ best_costs' \in [Tasks -> CostValues] /\ dead_tasks' \subseteq Tasks
        /\ task_costs_history' \in [Tasks -> Seq(CostValues)]
        /\ DOMAIN task_tags' = Tasks
    <3>1. CASE UNCHANGED sched
      BY <3>1, Zenon
    <3>2. CASE num_measures_per_round > 0 /\ RestoreStatus
      BY <3>2, RestoreTypes, Zenon
    <3>. QED
      BY <2>2, <3>1, <3>2, Zenon
  <2>4. starts' \in 0 .. MaxStarts /\ idx' \in 0 .. NumTasks
    BY <2>1, <1>c
  <2>. QED
    BY <2>1, <2>3, <2>4, <1>e, SMT, SMTT(20)
<1>2. CASE WarmupTask
  <2>1. idx \in Tasks /\ idx + 1 \in 0 .. NumTasks
    BY <1>2, <1>c DEF WarmupTask, Tasks
  <2>2. /\ pc' \in {pc, "measure"} /\ caller' \in {caller, "warmup"}
        /\ task_idx' \in {task_idx, idx} /\ (pc' = "measure" => task_idx' = idx)
        /\ best_ct' \in {best_ct, ct} /\ idx' = idx + 1 /\ round' = <<>>
        /\ UNCHANGED <<sched, ct, log, starts>>
    BY <1>2, Zenon DEF WarmupTask
  <2>3. pc' \in {"start", "warmup", "loop", "measure", "done", "error"}
    BY <2>2, Zenon
  <2>4. task_idx' \in Tasks \cup {-1} /\ (pc' = "measure" => task_idx' \in Tasks)
    BY <2>1, <2>2, Zenon
  <2>5. best_ct' \in Nat /\ best_ct' <= ct'
    BY <2>2
  <2>6. caller' \in {"warmup", "loop"} /\ idx' \in 0 .. NumTasks
    BY <2>1, <2>2, Zenon
  <2>7. round' \in Seq(CostValues) /\ Len(round') = 0
    BY <2>2, <1>e, Zenon
  <2>8. UNCHANGED <<sched, ct, log, starts>>
    BY <2>2, Zenon
  <2>. QED
    BY <2>3, <2>4, <2>5, <2>6, <2>7, <2>8, SMT, SMTT(20)
<1>3. CASE EndWarmup
  BY <1>3, <1>e DEF EndWarmup
<1>4. CASE SelectTask
  <2>1. NextTasks \subseteq Tasks
    BY Zenon DEF NextTasks, GradientChoice, RoundRobinChoice
  <2>. QED
    BY <1>4, <2>1, <1>e, SMT, SMTT(20) DEF SelectTask
<1>5. CASE EndLoop
  BY <1>5, Zenon DEF EndLoop
<1>6. CASE MeasureBatch
  <2>1. PICK batch \in Seq(CostValues) :
          /\ Len(batch) + Len(round) <= num_measures_per_round
          /\ round' = round \o batch
          /\ log' = [log EXCEPT ![task_idx] = @ \o batch]
    BY <1>6, Batch, Zenon
  <2>2. round' \in Seq(CostValues) /\ Len(round') = Len(round) + Len(batch)
    BY <2>1, ConcatFacts, Zenon
  <2>3. log' \in [Tasks -> Seq(CostValues)]
    BY <2>1, ConcatFacts, Zenon
  <2>4. Len(round') <= num_measures_per_round
    BY <2>1, <2>2
  <2>. QED
    BY <1>6, <2>2, <2>3, <2>4, Zenon DEF MeasureBatch
<1>7. CASE EndRound
  <2>1. task_idx \in Tasks
    BY <1>7, Zenon DEF EndRound
  <2>. DEFINE t == TunedTask(task_idx)
  <2>2. /\ t.cts \in [Tasks -> Nat] /\ t.best_cts \in [Tasks -> Nat]
        /\ t.costs \in [Tasks -> CostValues] /\ t.dead \subseteq Tasks
        /\ t.history \in [Tasks -> Seq(CostValues)]
        /\ t.ct \in Nat /\ t.ct >= ct
    BY <2>1, TunedTypes, ZenonT(40)
  <2>3. /\ task_cts' = t.cts /\ task_best_cts' = t.best_cts /\ best_costs' = t.costs
        /\ dead_tasks' = t.dead /\ task_costs_history' = t.history /\ ct' = t.ct
        /\ round' = <<>> /\ UNCHANGED <<caller, idx, task_idx, log, starts>>
        /\ best_ct' \in {best_ct, t.ct} /\ pc' \in {"warmup", "loop", "done"}
        /\ task_tags' = task_tags \/ task_tags' = [task_tags EXCEPT ![task_idx] = NoTag]
    BY <1>7, Zenon DEF EndRound
  <2>. HIDE DEF t
  <2>4. DOMAIN task_tags' = Tasks
    BY <2>3, Zenon
  <2>5. best_ct' \in Nat /\ ct' \in Nat /\ best_ct' <= ct'
    BY <2>2, <2>3, SMT, SMTT(20)
  <2>6. pc' \in {"start", "warmup", "loop", "measure", "done", "error"} /\ pc' # "measure"
    BY <2>3, Zenon
  <2>7. /\ task_cts' \in [Tasks -> Nat] /\ task_best_cts' \in [Tasks -> Nat]
        /\ best_costs' \in [Tasks -> CostValues] /\ dead_tasks' \subseteq Tasks
        /\ task_costs_history' \in [Tasks -> Seq(CostValues)]
    BY <2>2, <2>3, Zenon
  <2>8. round' \in Seq(CostValues) /\ Len(round') = 0
    BY <2>3, <1>e, Zenon
  <2>9. UNCHANGED <<caller, idx, task_idx, log, starts>>
    BY <2>3, Zenon
  <2>. QED
    BY <2>4, <2>5, <2>6, <2>7, <2>8, <2>9
<1>8. CASE Crash
  BY <1>8, FreshTypes, <1>c, <1>e DEF Crash
<1>9. CASE TuneAgain \/ Terminated \/ UNCHANGED vars
  BY <1>9, Zenon DEF TuneAgain, Terminated, vars
<1>. QED
  BY <1>1, <1>2, <1>3, <1>4, <1>5, <1>6, <1>7, <1>8, <1>9, Zenon DEF Next, Step

(* The fields of the scheduler keep their types, and a round never holds   *)
(* more results than num_measures_per_round, in every run.                 *)
THEOREM TypesHold == Spec => []TypeOK
<1>1. QED
  BY InitTypes, NextTypes, PTL DEF Spec
-----------------------------------------------------------------------------
(* The warm-up gives each task one round of at most num_measures_per_round *)
(* trials, so after idx tasks ct is at most idx * num_measures_per_round;  *)
(* the main loop starts a round only below the budget.                     *)
BudgetInv ==
  LET n == num_measures_per_round IN
  /\ pc \notin {"start", "error"} => n > 0
  /\ pc # "measure" => round = <<>>
  /\ pc = "warmup" => ct <= idx * n
  /\ pc = "measure" /\ caller = "warmup" => idx >= 1 /\ ct <= (idx - 1) * n
  /\ pc = "measure" /\ caller = "loop" => ct < num_measure_trials
  /\ n > 0 => ct < num_measure_trials + n

(* The tasks the warm-up has passed have a positive round count. *)
TunedInv ==
  /\ pc = "warmup" => \A i \in Tasks : i < idx => task_cts[i] >= 1
  /\ pc = "measure" /\ caller = "warmup" =>
       task_idx = idx - 1 /\ \A i \in Tasks : i < idx - 1 => task_cts[i] >= 1
  /\ EveryTaskTuned

(* Before a restore, best_costs holds the initial value, or what a         *)
(* previous call of tune on the same object knew.                          *)
ResumeInv ==
  /\ LoadLogFile /\ pc = "start" =>
       \A i \in Tasks : best_costs[i] \in {MaxFloat, BestOf(MaxFloat, log[i])}
  /\ pc # "measure" => round = <<>>
  /\ ResumeKnowsBest
-----------------------------------------------------------------------------

(* A new scheduler has spent nothing. *)
LEMMA InitBudget == Init => BudgetInv
<1>1. num_measures_per_round > 0 => 0 < num_measure_trials + num_measures_per_round
  <2>1. ASSUME num_measures_per_round > 0 PROVE num_measure_trials >= 0
    BY <2>1, Share
  <2>. QED
    BY <2>1, Share
<1>. QED
  BY <1>1, Zenon DEF Init, BudgetInv

(* Every step keeps the count of the trials that were spent. *)
LEMMA NextBudget == TypeOK /\ BudgetInv /\ [Next]_vars => BudgetInv'
<1>. SUFFICES ASSUME TypeOK, BudgetInv, [Next]_vars PROVE BudgetInv'
  BY Zenon
<1>. DEFINE n == num_measures_per_round
            T == num_measure_trials
<1>n. n \in Int /\ T \in Int /\ NumTasks \in Nat \ {0} /\ (n > 0 => NumTasks * n <= T)
  BY Share, Zenon
<1>p. n > 0 => T >= 0
  BY <1>n
<1>t. ct \in Nat /\ idx \in 0 .. NumTasks /\ Len(round) \in Nat
      /\ (Len(round) > 0 => Len(round) <= n)
  BY DEF TypeOK
<1>m. n > 0 => /\ (idx + 1) * n = idx * n + n /\ idx * n = (idx - 1) * n + n
               /\ idx * n <= NumTasks * n /\ idx * n \in Int /\ (idx - 1) * n \in Int
               /\ 0 * n = 0
  <2>. SUFFICES ASSUME n > 0 PROVE /\ (idx + 1) * n = idx * n + n /\ idx * n = (idx - 1) * n + n
               /\ idx * n <= NumTasks * n /\ idx * n \in Int /\ (idx - 1) * n \in Int
               /\ 0 * n = 0
    BY Zenon
  <2>1. (idx + 1) * n = idx * n + n /\ idx * n \in Int /\ idx * n <= NumTasks * n
    BY <1>n, <1>t, Product
  <2>2. (idx - 1) + 1 = idx /\ ((idx - 1) + 1) * n = (idx - 1) * n + n /\ (idx - 1) * n \in Int
    BY <1>n, <1>t, Product
  <2>. QED
    BY <2>1, <2>2, <1>n
<1>. HIDE DEF n, T
<1>b. /\ pc \notin {"start", "error"} => n > 0
      /\ pc # "measure" => round = <<>>
      /\ pc = "warmup" => ct <= idx * n
      /\ pc = "measure" /\ caller = "warmup" => idx >= 1 /\ ct <= (idx - 1) * n
      /\ pc = "measure" /\ caller = "loop" => ct < T
      /\ n > 0 => ct < T + n
  BY Zenon DEF BudgetInv, n, T
<1>g. SUFFICES
        /\ pc' \notin {"start", "error"} => n > 0
        /\ pc' # "measure" => round' = <<>>
        /\ pc' = "warmup" => ct' <= idx' * n
        /\ pc' = "measure" /\ caller' = "warmup" => idx' >= 1 /\ ct' <= (idx' - 1) * n
        /\ pc' = "measure" /\ caller' = "loop" => ct' < T
        /\ n > 0 => ct' < T + n
  BY Zenon DEF BudgetInv, n, T
<1>1. CASE Tune
  <2>1. n <= 0 => pc' = "error"
    BY <1>1, Zenon DEF Tune, n
  <2>2. n > 0 => pc' = "warmup" /\ ~(n <= 0)
    BY <1>1, <1>n DEF Tune, n
  <2>3. ct' = 0 /\ idx' = 0 /\ round' = <<>>
    BY <1>1, Zenon DEF Tune
  <2>4. n > 0 => ct' <= idx' * n
    BY <2>3, <1>m, <1>n
  <2>. QED
    BY <2>1, <2>2, <2>3, <2>4, <1>n, <1>p
<1>2. CASE WarmupTask
  <2>1. pc = "warmup" /\ idx' = idx + 1 /\ ct' = ct /\ round' = <<>>
    BY <1>2, Zenon DEF WarmupTask
  <2>2. (pc' = "measure" /\ caller' = "warmup") \/ pc' = "warmup"
    BY <1>2, Zenon DEF WarmupTask
  <2>3. n > 0 /\ ct <= idx * n /\ ct < T + n
    BY <2>1, <1>b, Zenon
  <2>4. idx' - 1 = idx /\ idx' >= 1 /\ ct <= idx' * n
    BY <2>1, <2>3, <1>m, <1>t, <1>n
  <2>. QED
    BY <2>1, <2>2, <2>3, <2>4, Zenon
<1>3. CASE EndWarmup
  BY <1>3, <1>b, Zenon DEF EndWarmup
<1>4. CASE SelectTask
  BY <1>4, <1>b, Zenon DEF SelectTask, KeepTuning, T
<1>5. CASE EndLoop
  BY <1>5, <1>b, Zenon DEF EndLoop
<1>6. CASE MeasureBatch
  BY <1>6, <1>b, Zenon DEF MeasureBatch
<1>7. CASE EndRound
  <2>1. /\ pc = "measure" /\ round' = <<>> /\ idx' = idx
        /\ caller = "warmup" => pc' = "warmup"
        /\ caller # "warmup" => pc' \in {"loop", "done"}
    BY <1>7, Zenon DEF EndRound
  <2>2. ct' = ct + Len(round)
    BY <1>7, Zenon DEF EndRound, TunedTask, Counted
  <2>3. n > 0 /\ ct' <= ct + n
    BY <2>1, <2>2, <1>b, <1>t, <1>n, SMT, SMTT(20)
  <2>4. CASE caller = "warmup"
    <3>1. ct <= (idx - 1) * n /\ ct' <= idx * n
      BY <2>1, <2>3, <2>4, <1>b, <1>m, <1>n, <1>t, <2>2, SMT, SMTT(20)
    <3>2. ct' < T + n
      BY <3>1, <2>2, <2>3, <1>m, <1>n, <1>t, SMT, SMTT(20)
    <3>. QED
      BY <2>1, <2>3, <2>4, <3>1, <3>2, Zenon
  <2>5. CASE caller = "loop"
    <3>1. ct < T
      BY <2>1, <2>5, <1>b, Zenon
    <3>. QED
      BY <2>1, <2>2, <2>3, <2>5, <3>1, <1>n, <1>t, SMT, SMTT(20)
  <2>. QED
    BY <2>4, <2>5, Zenon DEF TypeOK
<1>8. CASE Crash
  BY <1>8, <1>b, Zenon DEF Crash
<1>9. CASE TuneAgain \/ Terminated \/ UNCHANGED vars
  BY <1>9, <1>b, Zenon DEF TuneAgain, Terminated, vars
<1>. QED
  BY <1>1, <1>2, <1>3, <1>4, <1>5, <1>6, <1>7, <1>8, <1>9, Zenon DEF Next, Step

(* The count keeps tune within its budget. *)
LEMMA BudgetFollows == TypeOK /\ BudgetInv => BudgetRespected
<1>. SUFFICES ASSUME TypeOK, BudgetInv, num_measures_per_round > 0
              PROVE  ct + Len(round) < num_measure_trials + num_measures_per_round
  BY Zenon DEF BudgetRespected
<1>. DEFINE n == num_measures_per_round
            T == num_measure_trials
<1>1. n \in Int /\ T \in Int /\ NumTasks \in Nat \ {0} /\ NumTasks * n <= T
  BY Share, Zenon
<1>2. ct \in Nat /\ idx \in 0 .. NumTasks /\ Len(round) \in Nat /\ Len(round) <= n
  BY Share, SMT, SMTT(20) DEF TypeOK
<1>3. CASE pc # "measure"
  <2>1. Len(round) = 0 /\ ct < T + n
    BY <1>3, Zenon DEF BudgetInv
  <2>. QED
    BY <2>1, <1>1, <1>2, SMT, SMTT(20)
<1>4. CASE pc = "measure" /\ caller = "loop"
  <2>1. ct < T
    BY <1>4, Zenon DEF BudgetInv
  <2>. QED
    BY <2>1, <1>1, <1>2, SMT, SMTT(20)
<1>5. CASE pc = "measure" /\ caller = "warmup"
  <2>1. ct <= (idx - 1) * n
    BY <1>5, Zenon DEF BudgetInv
  <2>2. (idx - 1) * n <= NumTasks * n /\ (idx - 1) * n \in Int /\ NumTasks * n \in Int
    BY <1>1, <1>2, Product, SMT, SMTT(20)
  <2>3. ((idx - 1) + 1) * n = (idx - 1) * n + n /\ (idx - 1) + 1 = idx
    BY <1>1, <1>2, Product, SMT, SMTT(20)
  <2>4. idx * n <= NumTasks * n
    BY <1>1, <1>2, Product, SMT, SMTT(20)
  <2>. HIDE DEF n, T
  <2>. QED
    BY <2>1, <2>2, <2>3, <2>4, <1>1, <1>2, SMT, SMTT(20) DEF n, T
<1>. QED
  BY <1>3, <1>4, <1>5, Zenon DEF TypeOK

(* A call of tune never measures num_measures_per_round programs or more   *)
(* beyond the budget.                                                      *)
THEOREM BudgetHolds == Spec => []BudgetRespected
<1>1. QED
  BY InitTypes, NextTypes, InitBudget, NextBudget, BudgetFollows, PTL DEF Spec
-----------------------------------------------------------------------------

(* Every step keeps the round counts of the tasks the warm-up has passed   *)
(* positive.                                                               *)
LEMMA NextTuned == TypeOK /\ TypeOK' /\ TunedInv /\ [Next]_vars => TunedInv'
<1>. SUFFICES ASSUME TypeOK, TypeOK', TunedInv, [Next]_vars PROVE TunedInv'
  BY Zenon
<1>n. NumTasks \in Nat \ {0}
  BY ConstantsAssumption, Zenon
<1>i. \A i \in Tasks : i \in Int /\ 0 <= i /\ i < NumTasks
  BY <1>n, SMT, SMTT(20) DEF Tasks
<1>t. /\ idx \in 0 .. NumTasks /\ task_cts \in [Tasks -> Nat] /\ NumTasks \in Nat \ {0}
      /\ \A i \in Tasks : i \in Int /\ 0 <= i /\ i < NumTasks
  BY <1>n, <1>i, Zenon DEF TypeOK
<1>. USE DEF TunedInv, EveryTaskTuned
<1>1. CASE Tune
  <2>1. pc' \in {"error", "warmup"} /\ idx' = 0
    BY <1>1, Zenon DEF Tune
  <2>. QED
    BY <2>1, <1>t, SMT, SMTT(20)
<1>2. CASE WarmupTask
  <2>1. /\ pc = "warmup" /\ idx' = idx + 1 /\ task_cts' = task_cts
        /\ IF NeedsWarmup(idx)
           THEN pc' = "measure" /\ caller' = "warmup" /\ task_idx' = idx
           ELSE UNCHANGED <<pc, caller, task_idx>>
    BY <1>2, Zenon DEF WarmupTask, sched
  <2>2. CASE NeedsWarmup(idx)
    BY <2>1, <2>2, <1>t, SMT, SMTT(20)
  <2>3. CASE ~NeedsWarmup(idx)
    <3>1. idx \in Tasks => task_cts[idx] >= 1
      BY <2>3, <1>t, SMT, SMTT(20) DEF NeedsWarmup
    <3>2. \A i \in Tasks : i < idx + 1 => task_cts[i] >= 1
      BY <2>1, <3>1, <1>t, SMT, SMTT(20)
    <3>. QED
      BY <2>1, <2>3, <3>2, Zenon
  <2>. QED
    BY <2>2, <2>3, Zenon
<1>3. CASE EndWarmup
  <2>1. \A i \in Tasks : task_cts[i] >= 1
    BY <1>3, <1>t, Zenon DEF EndWarmup
  <2>2. pc' \in {"loop", "done"} /\ task_cts' = task_cts
    BY <1>3, Zenon DEF EndWarmup, sched
  <2>. QED
    BY <2>1, <2>2, Zenon
<1>4. CASE SelectTask
  BY <1>4, Zenon DEF SelectTask, sched
<1>5. CASE EndLoop
  BY <1>5, Zenon DEF EndLoop, sched
<1>6. CASE MeasureBatch
  BY <1>6, Zenon DEF MeasureBatch, sched
<1>7. CASE EndRound
  <2>1. /\ pc = "measure" /\ UNCHANGED <<caller, idx, task_idx>>
        /\ caller = "warmup" => pc' = "warmup"
        /\ caller # "warmup" => pc' \in {"loop", "done"}
    BY <1>7, Zenon DEF EndRound
  <2>2. task_cts' = [task_cts EXCEPT ![task_idx] = task_cts[task_idx] + 1] /\ task_idx \in Tasks
    BY <1>7, Zenon DEF EndRound, TunedTask, Counted, TypeOK
  <2>3. \A i \in Tasks : task_cts'[i] >= task_cts[i] /\ task_cts'[task_idx] >= 1
    BY <2>2, <1>t, SMT, SMTT(20)
  <2>4. \A i \in Tasks : task_cts'[i] \in Nat
    BY Zenon DEF TypeOK
  <2>5. CASE caller = "warmup"
    <3>1. task_idx = idx - 1 /\ \A i \in Tasks : i < idx - 1 => task_cts[i] >= 1
      BY <2>1, <2>5, Zenon
    <3>2. \A i \in Tasks : i < idx => task_cts'[i] >= 1
      BY <3>1, <2>3, <2>4, <1>t, SMT, SMTT(20)
    <3>. QED
      BY <2>1, <2>5, <3>2, Zenon
  <2>6. CASE caller = "loop"
    <3>1. \A i \in Tasks : task_cts'[i] >= 1
      BY <2>1, <2>3, <2>4, <2>6, <1>t, SMT, SMTT(20)
    <3>. QED
      BY <2>1, <2>6, <3>1, Zenon
  <2>. QED
    BY <2>5, <2>6, Zenon DEF TypeOK
<1>8. CASE Crash
  BY <1>8, Zenon DEF Crash
<1>9. CASE TuneAgain \/ Terminated \/ UNCHANGED vars
  BY <1>9, Zenon DEF TuneAgain, Terminated, vars, sched
<1>. QED
  BY <1>1, <1>2, <1>3, <1>4, <1>5, <1>6, <1>7, <1>8, <1>9, Zenon DEF Next, Step

(* After the warm-up every task has been tuned, so the gradient's division *)
(* by task_cts[i] is defined, whatever the restored record counts round to.*)
THEOREM EveryTaskTunedHolds == Spec => []EveryTaskTuned
<1>1. Init => TunedInv
  BY Zenon DEF Init, TunedInv, EveryTaskTuned
<1>2. TunedInv => EveryTaskTuned
  BY Zenon DEF TunedInv
<1>. QED
  BY <1>1, <1>2, InitTypes, NextTypes, NextTuned, PTL DEF Spec
-----------------------------------------------------------------------------

(* A new scheduler knows no cost. *)
LEMMA InitResume == Init => ResumeInv
  BY Zenon DEF Init, ResumeInv, ResumeKnowsBest, FreshScheduler

(* Every step keeps the best costs what a resumed scheduler should know. *)
LEMMA NextResume == TypeOK /\ ResumeInv /\ [Next]_vars => ResumeInv'
<1>. SUFFICES ASSUME TypeOK, ResumeInv, [Next]_vars PROVE ResumeInv'
  BY Zenon
<1>m. MaxFloat \in CostValues
  BY Zenon DEF CostValues
<1>t. /\ best_costs \in [Tasks -> CostValues] /\ log \in [Tasks -> Seq(CostValues)]
      /\ round \in Seq(CostValues)
  BY Zenon DEF TypeOK
<1>r. pc # "measure" => round = <<>>
  BY Zenon DEF ResumeInv
<1>k. ASSUME LoadLogFile, pc \in {"warmup", "loop", "done"}, NEW i \in Tasks
      PROVE  BestOf(MaxFloat, log[i]) = best_costs[i]
  BY <1>k, <1>t, BestOfEmpty, Zenon DEF ResumeInv, ResumeKnowsBest
<1>1. CASE Tune
  <2>1. round' = <<>> /\ log' = log /\ pc' \in {"error", "warmup"}
    BY <1>1, Zenon DEF Tune
  <2>2. ASSUME LoadLogFile, pc' = "warmup", NEW i \in Tasks
        PROVE  BestOf(MaxFloat, log[i]) = BestOf(best_costs'[i], <<>>)
    <3>1. RestoreStatus /\ pc = "start"
      BY <1>1, <2>2, Zenon DEF Tune
    <3>2. best_costs'[i] = BestOf(best_costs[i], log[i])
      BY <3>1, Zenon DEF RestoreStatus, RestoredBest
    <3>3. best_costs[i] \in {MaxFloat, BestOf(MaxFloat, log[i])}
      BY <3>1, <2>2, Zenon DEF ResumeInv
    <3>4. CASE best_costs[i] = BestOf(MaxFloat, log[i])
      <4>1. \A k \in DOMAIN log[i] : best_costs[i] <= log[i][k]
        BY <3>4, <1>m, <1>t, BestOfProps, Zenon
      <4>2. best_costs[i] <= best_costs[i]
        <5>1. best_costs[i] \in Nat
          BY <1>t, CostsAreNats, ZenonT(40)
        <5>. QED
          BY <5>1, SMT, SMTT(20)
      <4>3. BestOf(best_costs[i], log[i]) = best_costs[i]
        BY <1>t, <4>1, <4>2, BestOfUnique, Zenon
      <4>. QED
        BY <3>2, <3>4, <4>3, <1>t, BestOfEmpty, Zenon
    <3>5. CASE best_costs[i] = MaxFloat
      <4>1. BestOf(MaxFloat, log[i]) \in CostValues
        BY <1>m, <1>t, BestOfProps, Zenon
      <4>. QED
        BY <3>2, <3>5, <4>1, BestOfEmpty, Zenon
    <3>. QED
      BY <3>3, <3>4, <3>5, Zenon
  <2>. QED
    BY <2>1, <2>2, Zenon DEF ResumeInv, ResumeKnowsBest
<1>2. CASE WarmupTask \/ EndWarmup \/ SelectTask \/ EndLoop
  <2>1. /\ pc \in {"warmup", "loop"} /\ log' = log /\ best_costs' = best_costs
        /\ round' = <<>> /\ pc' # "start"
    BY <1>2, <1>r, Zenon DEF WarmupTask, EndWarmup, SelectTask, EndLoop, sched
  <2>2. ASSUME LoadLogFile, NEW i \in Tasks
        PROVE  BestOf(MaxFloat, log'[i]) = BestOf(best_costs'[i], <<>>)
    BY <2>1, <2>2, <1>k, <1>t, BestOfEmpty, Zenon
  <2>. QED
    BY <2>1, <2>2, Zenon DEF ResumeInv, ResumeKnowsBest
<1>3. CASE MeasureBatch
  <2>1. PICK batch \in Seq(CostValues) :
          /\ round' = round \o batch
          /\ log' = [log EXCEPT ![task_idx] = @ \o batch]
    BY <1>3, Batch, Zenon
  <2>2. /\ pc = "measure" /\ pc' = "measure" /\ task_idx' = task_idx
        /\ best_costs' = best_costs /\ task_idx \in Tasks
    BY <1>3, Zenon DEF MeasureBatch, sched, TypeOK
  <2>3. ASSUME LoadLogFile, NEW i \in Tasks, i # task_idx
        PROVE  BestOf(MaxFloat, log'[i]) = BestOf(best_costs'[i], <<>>)
    <3>1. log'[i] = log[i]
      BY <2>1, <2>3, <1>t, Zenon
    <3>. QED
      BY <2>2, <2>3, <3>1, Zenon DEF ResumeInv, ResumeKnowsBest
  <2>4. ASSUME LoadLogFile
        PROVE  BestOf(MaxFloat, log'[task_idx]) = BestOf(best_costs'[task_idx], round')
    <3>1. log'[task_idx] = log[task_idx] \o batch
      BY <2>1, <2>2, <1>t, Zenon
    <3>2. BestOf(MaxFloat, log[task_idx]) = BestOf(best_costs[task_idx], round)
      BY <2>2, <2>4, Zenon DEF ResumeInv, ResumeKnowsBest
    <3>3. /\ BestOf(MaxFloat, log[task_idx] \o batch)
               = BestOf(BestOf(MaxFloat, log[task_idx]), batch)
          /\ BestOf(best_costs[task_idx], round \o batch)
               = BestOf(BestOf(best_costs[task_idx], round), batch)
      BY <1>m, <1>t, <2>2, BestOfConcat, Zenon
    <3>. QED
      BY <2>1, <2>2, <3>1, <3>2, <3>3, ZenonT(40)
  <2>. QED
    BY <2>2, <2>3, <2>4, Zenon DEF ResumeInv, ResumeKnowsBest
<1>4. CASE EndRound
  <2>1. /\ pc = "measure" /\ round' = <<>> /\ log' = log /\ task_idx \in Tasks
        /\ pc' \in {"warmup", "loop", "done"}
    BY <1>4, Zenon DEF EndRound, TypeOK
  <2>2. best_costs' = [best_costs EXCEPT ![task_idx] = BestOf(best_costs[task_idx], round)]
    BY <1>4, Zenon DEF EndRound, TunedTask, Counted
  <2>3. ASSUME LoadLogFile, NEW i \in Tasks
        PROVE  BestOf(MaxFloat, log'[i]) = BestOf(best_costs'[i], <<>>)
    <3>1. CASE i # task_idx
      BY <2>1, <2>2, <2>3, <3>1, <1>t, Zenon DEF ResumeInv, ResumeKnowsBest
    <3>2. CASE i = task_idx
      <4>1. best_costs'[i] = BestOf(best_costs[i], round) /\ best_costs'[i] \in CostValues
        <5>1. best_costs'[i] = BestOf(best_costs[i], round)
          BY <2>1, <2>2, <3>2, <1>t, Zenon
        <5>2. best_costs[i] \in CostValues
          BY <1>t, Zenon
        <5>. QED
          BY <5>1, <5>2, <1>t, BestOfProps, Zenon
      <4>2. BestOf(MaxFloat, log[i]) = BestOf(best_costs[i], round)
        BY <2>1, <2>3, <3>2, Zenon DEF ResumeInv, ResumeKnowsBest
      <4>. QED
        BY <4>1, <4>2, <2>1, BestOfEmpty, Zenon
    <3>. QED
      BY <3>1, <3>2, Zenon
  <2>. QED
    BY <2>1, <2>3, Zenon DEF ResumeInv, ResumeKnowsBest
<1>5. CASE Crash
  BY <1>5, Zenon DEF Crash, FreshScheduler, ResumeInv, ResumeKnowsBest
<1>6. CASE TuneAgain
  BY <1>6, <1>k, <1>r, Zenon DEF TuneAgain, sched, ResumeInv, ResumeKnowsBest
<1>7. CASE Terminated \/ UNCHANGED vars
  <2>1. UNCHANGED <<pc, task_idx, round, best_costs, log>>
    BY <1>7, Zenon DEF Terminated, vars, sched
  <2>. QED
    BY <2>1, Zenon DEF ResumeInv, ResumeKnowsBest
<1>. QED
  BY <1>1, <1>2, <1>3, <1>4, <1>5, <1>6, <1>7, Zenon DEF Next, Step

(* Whatever the record files, the crashes and the calls of tune, the       *)
(* scheduler knows the best cost in the record file.                       *)
THEOREM ResumeKnowsBestHolds == Spec => []ResumeKnowsBest
<1>1. ResumeInv => ResumeKnowsBest
  BY Zenon DEF ResumeInv
<1>. QED
  BY <1>1, InitTypes, NextTypes, InitResume, NextResume, PTL DEF Spec
-----------------------------------------------------------------------------

(* Every step keeps the latency histories falling to the best cost. *)
LEMMA NextHistory == TypeOK /\ HistoryFalls /\ [Next]_vars => HistoryFalls'
<1>. SUFFICES ASSUME TypeOK, HistoryFalls, [Next]_vars, NEW i \in Tasks
              PROVE  LET h == task_costs_history'[i] IN
                     /\ \A k \in 1 .. Len(h) - 1 : h[k + 1] <= h[k]
                     /\ h # <<>> => h[Len(h)] = best_costs'[i]
  BY Zenon DEF HistoryFalls
<1>. DEFINE h == task_costs_history[i]
<1>h. /\ h \in Seq(CostValues) /\ \A k \in 1 .. Len(h) - 1 : h[k + 1] <= h[k]
      /\ h # <<>> => h[Len(h)] = best_costs[i]
  BY Zenon DEF HistoryFalls, TypeOK
<1>t. best_costs[i] \in CostValues /\ log[i] \in Seq(CostValues) /\ round \in Seq(CostValues)
  BY Zenon DEF TypeOK
<1>a. ASSUME NEW c \in CostValues, c <= best_costs[i]
      PROVE  /\ \A k \in 1 .. Len(Append(h, c)) - 1 : Append(h, c)[k + 1] <= Append(h, c)[k]
             /\ Append(h, c)[Len(Append(h, c))] = c
  <2>. HIDE DEF h
  <2>1. /\ Len(Append(h, c)) = Len(h) + 1 /\ Len(h) \in Nat
        /\ \A k \in 1 .. Len(h) : Append(h, c)[k] = h[k]
        /\ Append(h, c)[Len(h) + 1] = c
    BY <1>h, SMT, SMTT(20)
  <2>2. ASSUME NEW k \in 1 .. Len(h) PROVE Append(h, c)[k + 1] <= Append(h, c)[k]
    <3>1. CASE k = Len(h)
      <4>1. h # <<>> /\ h[Len(h)] = best_costs[i]
        BY <3>1, <2>1, <1>h, SMT, SMTT(20)
      <4>. QED
        BY <4>1, <3>1, <2>1, <1>a, Zenon
    <3>2. CASE k < Len(h)
      <4>1. k \in 1 .. Len(h) - 1 /\ k + 1 \in 1 .. Len(h)
        BY <3>2, <2>1, SMT, SMTT(20)
      <4>. QED
        BY <4>1, <2>1, <1>h, Zenon
    <3>. QED
      BY <3>1, <3>2, <2>1, SMT, SMTT(20)
  <2>. QED
    BY <2>1, <2>2, SMT, SMTT(20)
<1>1. CASE task_costs_history' = task_costs_history /\ best_costs' = best_costs
  BY <1>1, <1>h, Zenon
<1>2. CASE Tune /\ RestoreStatus
  <2>1. /\ best_costs'[i] = BestOf(best_costs[i], log[i])
        /\ task_costs_history'[i] = Append(h, BestOf(best_costs[i], log[i]))
    BY <1>2, Zenon DEF RestoreStatus, RestoredBest
  <2>2. BestOf(best_costs[i], log[i]) \in CostValues /\ BestOf(best_costs[i], log[i]) <= best_costs[i]
    BY <1>t, BestOfProps, Zenon
  <2>. HIDE DEF h
  <2>. QED
    BY <2>1, <2>2, <1>a, Zenon
<1>3. CASE EndRound
  <2>1. /\ best_costs' = [best_costs EXCEPT ![task_idx] = BestOf(best_costs[task_idx], round)]
        /\ task_costs_history' = [task_costs_history EXCEPT
             ![task_idx] = Append(@, BestOf(best_costs[task_idx], round))]
    BY <1>3, Zenon DEF EndRound, TunedTask, Counted
  <2>2. CASE i # task_idx
    BY <2>1, <2>2, <1>h, Zenon DEF TypeOK
  <2>3. CASE i = task_idx
    <3>1. /\ best_costs'[i] = BestOf(best_costs[i], round)
          /\ task_costs_history'[i] = Append(h, BestOf(best_costs[i], round))
      BY <2>1, <2>3, Zenon DEF TypeOK
    <3>2. BestOf(best_costs[i], round) \in CostValues /\ BestOf(best_costs[i], round) <= best_costs[i]
      BY <1>t, BestOfProps, Zenon
    <3>. HIDE DEF h
    <3>. QED
      BY <3>1, <3>2, <1>a, Zenon
  <2>. QED
    BY <2>2, <2>3, Zenon
<1>4. CASE Crash
  <2>1. task_costs_history'[i] = <<>>
    BY <1>4, Zenon DEF Crash, FreshScheduler
  <2>. QED
    BY <2>1, SMT, SMTT(20)
<1>. QED
  BY <1>1, <1>2, <1>3, <1>4, ZenonT(40)
     DEF Next, Step, Tune, WarmupTask, EndWarmup, SelectTask, EndLoop, MeasureBatch,
         TuneAgain, Terminated, vars, sched

(* The latency history of every task falls and ends in its best cost,      *)
(* across rounds, restores and restarts.                                   *)
THEOREM HistoryHolds == Spec => []HistoryFalls
<1>1. Init => HistoryFalls
  BY SMT, SMTT(20) DEF Init, HistoryFalls, FreshScheduler
<1>. QED
  BY <1>1, InitTypes, NextTypes, NextHistory, PTL DEF Spec
-----------------------------------------------------------------------------
(* The gradients of the main loop.                                         *)

(* Signs of products and of sums of products.                              *)
LEMMA Signs ==
  ASSUME NEW a \in Int, NEW n \in Int, a <= 0, n >= 0
  PROVE  /\ a * n \in Int /\ n * a \in Int /\ a * n <= 0 /\ n * a <= 0
         /\ a < 0 /\ n > 0 => a * n < 0 /\ n * a < 0
<1>1. a * n \in Int /\ n * a = a * n
  BY SMT, SMTT(20)
<1>2. a * n <= 0
  BY SMT, SMTT(20)
<1>3. ASSUME a < 0, n > 0 PROVE a * n < 0
  BY <1>3, SMT, SMTT(20)
<1>. QED
  BY <1>1, <1>2, <1>3, Zenon

(* A set of naturals with 0 and every successor is the set of naturals.    *)
LEMMA Naturals ==
  ASSUME NEW S \in SUBSET Nat, 0 \in S, \A n \in S : n + 1 \in S
  PROVE  S = Nat
<1>. SUFFICES ASSUME Nat \ S # {} PROVE FALSE
  BY Zenon
<1>. DEFINE x == Min(Nat \ S)
<1>1. x \in Nat \ S /\ \A y \in Nat \ S : x <= y
  BY MinOfNats, Zenon
<1>. HIDE DEF x
<1>2. x # 0 /\ x - 1 \in Nat
  BY <1>1, SMT, SMTT(20)
<1>3. x - 1 \in S
  BY <1>1, <1>2, SMT, SMTT(20)
<1>4. (x - 1) + 1 \in S /\ (x - 1) + 1 = x
  BY <1>1, <1>3, SMT, SMTT(20)
<1>. QED
  BY <1>1, <1>4, Zenon

(* Of two costs in the history the later is not the larger.                *)
LEMMA HistoryMonotone ==
  ASSUME TypeOK, HistoryFalls, NEW i \in Tasks,
         NEW m \in Nat, m >= 1, NEW n \in Nat, m <= n, n <= Len(task_costs_history[i])
  PROVE  task_costs_history[i][n] <= task_costs_history[i][m]
<1>. DEFINE h == task_costs_history[i]
            S == {d \in Nat : m + d <= Len(h) => h[m + d] <= h[m]}
<1>1. h \in Seq(CostValues) /\ Len(h) \in Nat /\ \A k \in 1 .. Len(h) : h[k] \in Nat
  <2>1. h \in Seq(CostValues)
    BY Zenon DEF TypeOK
  <2>. HIDE DEF h
  <2>2. Len(h) \in Nat /\ \A k \in 1 .. Len(h) : h[k] \in CostValues
    BY <2>1, SMT, SMTT(20)
  <2>. QED
    BY <2>1, <2>2, CostsAreNats, Zenon
<1>2. \A k \in 1 .. Len(h) - 1 : h[k + 1] <= h[k]
  BY Zenon DEF HistoryFalls
<1>. HIDE DEF h
<1>3. 0 \in S
  <2>1. m + 0 = m /\ h[m] \in Nat
    BY <1>1, SMT, SMTT(20) DEF h
  <2>. QED
    BY <2>1, SMT, SMTT(20)
<1>4. ASSUME NEW d \in S PROVE d + 1 \in S
  <2>. SUFFICES ASSUME m + (d + 1) <= Len(h) PROVE h[m + (d + 1)] <= h[m]
    BY SMT, SMTT(20)
  <2>1. d \in Nat /\ m + d \in 1 .. Len(h) - 1 /\ m + (d + 1) = (m + d) + 1
    BY <1>1, SMT, SMTT(20)
  <2>2. h[(m + d) + 1] <= h[m + d] /\ h[m + d] <= h[m]
    BY <1>1, <1>2, <2>1, SMT, SMTT(20)
  <2>3. h[m + d] \in Nat /\ h[(m + d) + 1] \in Nat /\ h[m] \in Nat
    BY <1>1, <2>1, SMT, SMTT(20)
  <2>4. h[(m + d) + 1] <= h[m]
    BY <2>2, <2>3, SMT, SMTT(20)
  <2>. QED
    BY <2>1, <2>4, Zenon
<1>5. n - m \in S
  <2>1. S \in SUBSET Nat /\ n - m \in Nat
    BY SMT, SMTT(20)
  <2>. HIDE DEF S
  <2>. QED
    BY <1>3, <1>4, <2>1, Naturals, Zenon
<1>6. m + (n - m) = n
  BY SMT, SMTT(20)
<1>. QED
  BY <1>5, <1>6, Zenon DEF h

(* A positive factor can be cancelled. *)
LEMMA Cancel ==
  ASSUME NEW x \in Int, NEW y \in Int, NEW q \in Nat \ {0}, q * x <= q * y
  PROVE  x <= y
<1>. SUFFICES ASSUME x > y PROVE FALSE
  BY SMT, SMTT(20)
<1>1. y + 1 <= x
  BY SMT, SMTT(20)
<1>2. (y + 1) * q = y * q + q /\ (y + 1) * q <= x * q /\ x * q \in Int /\ y * q \in Int
  BY <1>1, Product, SMT, SMTT(20)
<1>3. q * x = x * q /\ q * y = y * q
  BY SMT, SMTT(20)
<1>. QED
  BY <1>2, <1>3, SMT, SMTT(20)

(* The order of two fractions with positive denominators is transitive.    *)
LEMMA Chain ==
  ASSUME NEW a \in Nat, NEW b \in Nat, NEW c \in Nat,
         NEW p \in Nat \ {0}, NEW q \in Nat \ {0}, NEW r \in Nat \ {0},
         q * a <= p * b, r * b <= q * c
  PROVE  r * a <= p * c
<1>1. r * (q * a) <= r * (p * b) /\ p * (r * b) <= p * (q * c)
  BY Product, SMT, SMTT(20)
<1>2. r * (p * b) = p * (r * b)
  BY SMT, SMTT(20)
<1>3. r * (q * a) <= p * (q * c)
  <2>1. r * (q * a) \in Int /\ r * (p * b) \in Int /\ p * (q * c) \in Int
    BY SMT, SMTT(20)
  <2>. QED
    BY <1>1, <1>2, <2>1, SMT, SMTT(20)
<1>4. r * (q * a) = q * (r * a) /\ p * (q * c) = q * (p * c)
  BY SMT, SMTT(20)
<1>5. q * (r * a) <= q * (p * c)
  BY <1>3, <1>4, Zenon
<1>6. r * a \in Int /\ p * c \in Int
  BY SMT, SMTT(20)
<1>. QED
  BY <1>5, <1>6, Cancel, Zenon

(* A group of tasks with a member has one with the most flops per second,  *)
(* so the argmin of _gradient is defined.                                  *)
LEMMA FastestMember ==
  ASSUME TypeOK, NEW group \in SUBSET Tasks, group # {}
  PROVE  Fastest(group) \in group
<1>. DEFINE Beats(j, k) == FlopCts[k] * best_costs[j] <= FlopCts[j] * best_costs[k]
            Has(n) == \E j \in group : j < n /\ \A k \in group : k < n => Beats(j, k)
            S == {n \in Nat : (\E k \in group : k < n) => Has(n)}
<1>1. ASSUME NEW j \in group
      PROVE  j \in Nat /\ FlopCts[j] \in Nat \ {0} /\ best_costs[j] \in Nat
  <2>1. j \in Tasks /\ FlopCts \in [Tasks -> Nat \ {0}]
    BY ConstantsAssumption, Zenon
  <2>2. best_costs[j] \in CostValues
    BY <2>1, Zenon DEF TypeOK
  <2>3. j \in Nat
    BY <2>1, ConstantsAssumption, SMT, SMTT(20) DEF Tasks
  <2>. QED
    BY <2>1, <2>2, <2>3, CostsAreNats, Zenon
<1>2. ASSUME NEW j \in group, NEW k \in group PROVE Beats(j, k) \/ Beats(k, j)
  <2>1. FlopCts[k] * best_costs[j] \in Nat /\ FlopCts[j] * best_costs[k] \in Nat
    BY <1>1, SMT, SMTT(20)
  <2>. QED
    BY <2>1, SMT, SMTT(20)
<1>3. ASSUME NEW j \in group, NEW k \in group, NEW l \in group, Beats(j, k), Beats(k, l)
      PROVE  Beats(j, l)
  <2>. DEFINE fj == FlopCts[j]
              fk == FlopCts[k]
              fl == FlopCts[l]
              cj == best_costs[j]
              ck == best_costs[k]
              cl == best_costs[l]
  <2>1. /\ fj \in Nat \ {0} /\ fk \in Nat \ {0} /\ fl \in Nat \ {0}
        /\ cj \in Nat /\ ck \in Nat /\ cl \in Nat
    BY <1>1, Zenon
  <2>2. fk * cj <= fj * ck /\ fl * ck <= fk * cl
    BY <1>3, Zenon
  <2>. HIDE DEF fj, fk, fl, cj, ck, cl
  <2>3. fl * cj <= fj * cl
    BY <2>1, <2>2, Chain, Zenon
  <2>. QED
    BY <2>3, Zenon DEF fj, fk, fl, cj, ck, cl
<1>. HIDE DEF Beats
<1>4. 0 \in S
  BY <1>1, SMT, SMTT(20)
<1>5. ASSUME NEW n \in S PROVE n + 1 \in S
  <2>. SUFFICES ASSUME \E k \in group : k < n + 1 PROVE Has(n + 1)
    BY SMT, SMTT(20)
  <2>1. CASE n \notin group
    <3>1. \A k \in group : k < n + 1 <=> k < n
      BY <1>1, <2>1, SMT, SMTT(20)
    <3>. QED
      BY <3>1, Zenon
  <2>2. CASE n \in group /\ ~\E k \in group : k < n
    <3>1. ASSUME NEW k \in group, k < n + 1 PROVE k = n
      <4>1. k \in Nat /\ n \in Nat /\ ~(k < n)
        BY <1>1, <2>2, Zenon
      <4>. QED
        BY <3>1, <4>1, SMT, SMTT(20)
    <3>2. n < n + 1 /\ Beats(n, n)
      BY <1>2, <2>2, SMT, SMTT(20)
    <3>. QED
      BY <2>2, <3>1, <3>2, Zenon
  <2>3. CASE n \in group /\ \E k \in group : k < n
    <3>1. PICK j \in group : j < n /\ \A k \in group : k < n => Beats(j, k)
      BY <2>3, Zenon
    <3>2. \A k \in group : k < n + 1 => k = n \/ k < n
      BY <1>1, SMT, SMTT(20)
    <3>3. CASE Beats(j, n)
      <4>1. j < n + 1
        BY <1>1, <3>1, SMT, SMTT(20)
      <4>. QED
        BY <3>1, <3>2, <3>3, <4>1, Zenon
    <3>4. CASE Beats(n, j)
      <4>1. \A k \in group : k < n => Beats(n, k)
        BY <1>3, <2>3, <3>1, <3>4, Zenon
      <4>2. n < n + 1 /\ Beats(n, n)
        BY <1>2, <2>3, SMT, SMTT(20)
      <4>. QED
        BY <2>3, <3>2, <4>1, <4>2, Zenon
    <3>. QED
      BY <1>2, <2>3, <3>3, <3>4, Zenon
  <2>. QED
    BY <2>1, <2>2, <2>3, Zenon
<1>6. NumTasks \in S
  <2>1. S \in SUBSET Nat /\ NumTasks \in Nat
    BY ConstantsAssumption, Zenon
  <2>. HIDE DEF S
  <2>. QED
    BY <1>4, <1>5, <2>1, Naturals, Zenon
<1>7. \A k \in group : k < NumTasks
  BY ConstantsAssumption, SMT, SMTT(20) DEF Tasks
<1>8. \E j \in group : \A k \in group : Beats(j, k)
  BY <1>6, <1>7, Zenon
<1>. QED
  BY <1>8, Zenon DEF Beats, Fastest

(* The backward difference is not positive: it compares two costs of the   *)
(* falling history.                                                        *)
LEMMA BackwardFalls ==
  ASSUME TypeOK, HistoryFalls, NEW i \in Tasks
  PROVE  /\ BackwardGrad(i)[1] \in Int /\ BackwardGrad(i)[1] <= 0
         /\ BackwardGrad(i)[2] \in Nat \ {0}
<1>. DEFINE h == task_costs_history[i]
            now == task_cts[i]
            before == task_cts[i] - BackwardWindowSize
<1>1. now \in Nat /\ BackwardWindowSize \in Nat \ {0} /\ before \in Int
  BY ConstantsAssumption, SMT, SMTT(20) DEF TypeOK
<1>2. CASE now <= Len(h) /\ before >= 1
  <2>1. before \in Nat /\ before <= now
    BY <1>1, <1>2, SMT, SMTT(20)
  <2>2. h[now] <= h[before]
    BY <1>1, <1>2, <2>1, HistoryMonotone, Zenon
  <2>3. h[now] \in Nat /\ h[before] \in Nat
    <3>1. h \in Seq(CostValues)
      BY Zenon DEF TypeOK
    <3>. HIDE DEF h, now, before
    <3>2. h[now] \in CostValues /\ h[before] \in CostValues
      BY <1>1, <1>2, <2>1, <3>1, SMT, SMTT(20)
    <3>. QED
      BY <3>2, CostsAreNats, Zenon
  <2>4. BackwardGrad(i) = <<h[now] - h[before], BackwardWindowSize>>
    BY <1>2, Zenon DEF BackwardGrad
  <2>. HIDE DEF h, now, before
  <2>. QED
    BY <1>1, <2>2, <2>3, <2>4, SMT, SMTT(20)
<1>3. CASE ~(now <= Len(h) /\ before >= 1)
  <2>1. BackwardGrad(i) = <<0, 1>>
    BY <1>3, Zenon DEF BackwardGrad
  <2>. QED
    BY <2>1, SMT, SMTT(20)
<1>. QED
  BY <1>2, <1>3, Zenon

(* A fraction n / d that is at most c * (t - 1) / t lies below c.          *)
LEMMA FractionBelow ==
  ASSUME NEW n \in Int, NEW d \in Nat \ {0}, NEW c \in Nat, NEW t \in Nat \ {0},
         n * t <= (c * (t - 1)) * d
  PROVE  n + (-c) * d \in Int /\ n + (-c) * d <= 0 /\ (c > 0 => n + (-c) * d < 0)
<1>. DEFINE e == c * d
<1>1. e \in Nat /\ (c > 0 => e > 0) /\ (-c) * d = -e
  BY SMT, SMTT(20)
<1>2. (c * (t - 1)) * d = t * e - e
  BY SMT, SMTT(20)
<1>. HIDE DEF e
<1>3. n * t = t * n /\ t * n \in Int /\ t * e \in Int
  BY <1>1, SMT, SMTT(20)
<1>4. t * n <= t * e - e
  BY <1>2, <1>3, Zenon
<1>5. n <= e
  <2>1. t * n <= t * e
    BY <1>1, <1>3, <1>4, SMT, SMTT(20)
  <2>. QED
    BY <1>1, <2>1, Cancel, SMT, SMTT(20)
<1>6. ASSUME c > 0 PROVE n < e
  <2>1. n # e
    BY <1>1, <1>3, <1>4, <1>6, SMT, SMTT(20)
  <2>. QED
    BY <1>1, <1>5, <2>1, SMT, SMTT(20)
<1>. QED
  BY <1>1, <1>5, <1>6, SMT, SMTT(20)

(* The forward estimate g_next lies below the current cost: it is at most  *)
(* the optimistic guess cost * (t - 1) / t.                                *)
LEMMA ForwardFalls ==
  ASSUME TypeOK, NEW i \in Tasks, task_cts[i] >= 1
  PROVE  /\ ForwardGrad(i)[1] \in Int /\ ForwardGrad(i)[1] <= 0
         /\ best_costs[i] > 0 => ForwardGrad(i)[1] < 0
         /\ ForwardGrad(i)[2] \in Nat \ {0}
<1>. DEFINE c == best_costs[i]
            t == task_cts[i]
            j == Fastest(Group(i))
            g1 == <<c * (t - 1), t>>
            g2 == <<Beta * FlopCts[i] * best_costs[j], FlopCts[j]>>
            g == IF Cardinality(Group(i)) > 1 THEN Smaller(g1, g2) ELSE g1
<1>1. c \in Nat /\ t \in Nat \ {0} /\ c * (t - 1) \in Nat
  <2>1. c \in CostValues /\ t \in Nat /\ t >= 1
    BY Zenon DEF TypeOK
  <2>. HIDE DEF c, t
  <2>2. c \in Nat
    BY <2>1, CostsAreNats, Zenon
  <2>3. t \in Nat \ {0} /\ t - 1 \in Nat
    BY <2>1, SMT, SMTT(20)
  <2>. QED
    BY <2>2, <2>3, SMT, SMTT(20)
<1>2. CASE g = g1
  <2>1. ForwardGrad(i) = Plus(g1, <<-c, 1>>)
    BY <1>2, Zenon DEF ForwardGrad
  <2>. HIDE DEF c, t, g
  <2>2. ForwardGrad(i) = <<c * (t - 1) * 1 + (-c) * t, t * 1>>
    BY <2>1, Zenon DEF Plus
  <2>3. c * (t - 1) * 1 + (-c) * t = -c /\ t * 1 = t
    BY <1>1, SMT, SMTT(20)
  <2>4. ForwardGrad(i) = <<-c, t>>
    BY <2>2, <2>3, Zenon
  <2>. QED
    BY <1>1, <2>4, SMT, SMTT(20) DEF c
<1>3. CASE g # g1
  <2>1. Cardinality(Group(i)) > 1 /\ ~Less(g1, g2) /\ g = g2
    BY <1>3, ZenonT(40) DEF Smaller
  <2>2. Group(i) # {} /\ Group(i) \in SUBSET Tasks
    <3>1. Cardinality({}) = 0
      BY FS_EmptySet, Zenon
    <3>. QED
      BY <2>1, <3>1, SMT, SMTT(20) DEF Group
  <2>3. j \in Tasks
    BY <2>2, FastestMember, Zenon
  <2>. DEFINE n == Beta * FlopCts[i] * best_costs[j]
              d == FlopCts[j]
  <2>4. n \in Nat /\ d \in Nat \ {0}
    <3>1. best_costs[j] \in CostValues
      BY <2>3, Zenon DEF TypeOK
    <3>2. best_costs[j] \in Nat /\ FlopCts[i] \in Nat /\ Beta \in Nat /\ FlopCts[j] \in Nat \ {0}
      BY <2>3, <3>1, CostsAreNats, ConstantsAssumption, Zenon
    <3>3. \A a, b \in Nat : a * b \in Nat
      BY SMT, SMTT(20)
    <3>4. Beta * FlopCts[i] \in Nat
      BY <3>2, <3>3, Zenon
    <3>. QED
      BY <3>2, <3>3, <3>4, Zenon
  <2>5. ForwardGrad(i) = Plus(g2, <<-c, 1>>)
    BY <2>1, Zenon DEF ForwardGrad
  <2>6. ~(c * (t - 1) * d < n * t)
    BY <2>1, Zenon DEF Less
  <2>7. g2 = <<n, d>>
    BY Zenon
  <2>. HIDE DEF c, t, n, d, g, g1, g2, j
  <2>8. n * t <= (c * (t - 1)) * d
    <3>1. n * t \in Int /\ (c * (t - 1)) * d \in Int
      BY <1>1, <2>4, SMT, SMTT(20)
    <3>. QED
      BY <2>6, <3>1, SMT, SMTT(20)
  <2>9. n + (-c) * d \in Int /\ n + (-c) * d <= 0 /\ (c > 0 => n + (-c) * d < 0)
    BY <1>1, <2>4, <2>8, FractionBelow, SMT, SMTT(20)
  <2>10. ForwardGrad(i) = <<n * 1 + (-c) * d, d * 1>>
    BY <2>5, <2>7, Zenon DEF Plus
  <2>11. n * 1 = n /\ d * 1 = d
    BY <2>4, SMT, SMTT(20)
  <2>12. ForwardGrad(i) = <<n + (-c) * d, d>>
    BY <2>10, <2>11, Zenon
  <2>. QED
    BY <2>4, <2>9, <2>12, SMT, SMTT(20) DEF c
<1>. QED
  BY <1>2, <1>3, Zenon

(* The gradient of a task that was tuned is never positive, and negative   *)
(* when the task has a weight and a cost and the forward part counts.      *)
LEMMA GradientFalls ==
  ASSUME TypeOK, HistoryFalls, NEW i \in Tasks, task_cts[i] >= 1
  PROVE  /\ LiveGradient(i)[1] \in Int /\ LiveGradient(i)[1] <= 0
         /\ LiveGradient(i)[2] \in Nat \ {0}
         /\ TaskWeights[i] > 0 /\ AlphaNum < AlphaDen /\ best_costs[i] > 0
              => LiveGradient(i)[1] < 0
<1>. DEFINE b == BackwardGrad(i)
            f == ForwardGrad(i)
            a == AlphaNum
            e == AlphaDen - AlphaNum
            w == TaskWeights[i]
            s == (a * b[1]) * f[2] + (e * f[1]) * b[2]
<1>1. b[1] \in Int /\ b[1] <= 0 /\ b[2] \in Nat \ {0}
  BY BackwardFalls, Zenon
<1>2. f[1] \in Int /\ f[1] <= 0 /\ f[2] \in Nat \ {0} /\ (best_costs[i] > 0 => f[1] < 0)
  BY ForwardFalls, Zenon
<1>3. a \in Nat /\ e \in Nat /\ w \in Nat /\ (AlphaNum < AlphaDen => e > 0)
  BY ConstantsAssumption, SMT, SMTT(20)
<1>4. LiveGradient(i) = <<w * s, b[2] * f[2]>>
  BY Zenon DEF LiveGradient, Plus
<1>. HIDE DEF a, b, e, f, w
<1>5. (a * b[1]) * f[2] \in Int /\ (a * b[1]) * f[2] <= 0
  <2>1. a * b[1] \in Int /\ a * b[1] <= 0
    BY <1>1, <1>3, Signs, SMT, SMTT(20)
  <2>. QED
    BY <1>2, <2>1, Signs, SMT, SMTT(20)
<1>6. /\ (e * f[1]) * b[2] \in Int /\ (e * f[1]) * b[2] <= 0
      /\ AlphaNum < AlphaDen /\ best_costs[i] > 0 => (e * f[1]) * b[2] < 0
  <2>1. /\ e * f[1] \in Int /\ e * f[1] <= 0
        /\ AlphaNum < AlphaDen /\ best_costs[i] > 0 => e * f[1] < 0
    BY <1>2, <1>3, Signs, SMT, SMTT(20)
  <2>. QED
    BY <1>1, <2>1, Signs, SMT, SMTT(20)
<1>7. s \in Int /\ s <= 0 /\ (AlphaNum < AlphaDen /\ best_costs[i] > 0 => s < 0)
  BY <1>5, <1>6, SMT, SMTT(20)
<1>. HIDE DEF s
<1>8. w * s \in Int /\ w * s <= 0 /\ (w > 0 /\ s < 0 => w * s < 0)
  BY <1>3, <1>7, Signs, SMT, SMTT(20)
<1>9. b[2] * f[2] \in Nat \ {0}
  BY <1>1, <1>2, SMT, SMTT(20)
<1>10. LiveGradient(i)[1] = w * s /\ LiveGradient(i)[2] = b[2] * f[2]
  BY <1>4, SMT, SMTT(20)
<1>. QED
  BY <1>7, <1>8, <1>9, <1>10, Zenon DEF w

(* "assert grad <= 0" never fails, for every history of costs, weights,    *)
(* flop counts and groups of similar tasks.                                *)
THEOREM GradientNotPositiveHolds == Spec => []GradientNotPositive
<1>1. TypeOK /\ HistoryFalls /\ EveryTaskTuned => GradientNotPositive
  <2>. SUFFICES ASSUME TypeOK, HistoryFalls, EveryTaskTuned, pc = "loop", NEW i \in Tasks
                PROVE  ~Less(<<0, 1>>, Gradient(i))
    BY Zenon DEF GradientNotPositive
  <2>1. CASE i \in dead_tasks
    BY <2>1, SMT, SMTT(20) DEF Gradient, Less
  <2>2. CASE i \notin dead_tasks
    <3>1. task_cts[i] >= 1
      BY Zenon DEF EveryTaskTuned
    <3>2. LiveGradient(i)[1] \in Int /\ LiveGradient(i)[1] <= 0 /\ LiveGradient(i)[2] \in Nat
      BY <3>1, GradientFalls, Zenon
    <3>3. Gradient(i) = LiveGradient(i)
      BY <2>2, Zenon DEF Gradient
    <3>. HIDE DEF LiveGradient
    <3>. QED
      BY <3>2, <3>3, SMT, SMTT(20) DEF Less
  <2>. QED
    BY <2>1, <2>2, Zenon
<1>. QED
  BY <1>1, TypesHold, HistoryHolds, EveryTaskTunedHolds, PTL

(* A round of the main loop goes to a live task, when every task has a     *)
(* weight and every measurement a cost and the forward part of the         *)
(* gradient counts: a dead task's gradient is 0, a live one's is below.    *)
THEOREM LoopTunesLiveTasksHolds ==
  ASSUME 0 \notin CostValues, \A i \in Tasks : TaskWeights[i] > 0, AlphaNum < AlphaDen
  PROVE  Spec => LoopTunesLiveTasks
<1>. DEFINE Live == pc = "loop" /\ pc' = "measure" => task_idx' \notin dead_tasks
<1>1. ASSUME TypeOK, HistoryFalls, EveryTaskTuned, Next PROVE Live
  <2>. SUFFICES ASSUME pc = "loop", pc' = "measure" PROVE task_idx' \notin dead_tasks
    BY Zenon
  <2>1. KeepTuning /\ task_idx' \in NextTasks
    BY <1>1, Zenon
       DEF Next, Step, Tune, WarmupTask, EndWarmup, SelectTask, EndLoop, MeasureBatch, EndRound,
                Crash, TuneAgain, Terminated, vars
  <2>2. CASE Strategy = "round-robin"
    BY <2>1, <2>2, Zenon DEF NextTasks, RoundRobinChoice
  <2>3. CASE Strategy = "gradient"
    <3>. SUFFICES ASSUME NEW d \in dead_tasks, d \in GradientChoice PROVE FALSE
      BY <2>1, <2>3, Zenon DEF NextTasks
    <3>1. dead_tasks # Tasks /\ dead_tasks \subseteq Tasks
      <4>1. Cardinality(Tasks) = NumTasks
        BY FS_Interval, ConstantsAssumption, SMT, SMTT(20) DEF Tasks
      <4>2. Cardinality(dead_tasks) < NumTasks /\ NumTasks \in Nat
        BY <2>1, ConstantsAssumption, Zenon DEF KeepTuning
      <4>3. dead_tasks # Tasks
        BY <4>1, <4>2, SMT, SMTT(20)
      <4>. QED
        BY <1>1, <4>3, ZenonT(40) DEF TypeOK
    <3>2. PICK l \in Tasks : l \notin dead_tasks
      BY <3>1, Zenon
    <3>3. task_cts[l] >= 1
      BY <1>1, Zenon DEF EveryTaskTuned
    <3>4. best_costs[l] > 0
      <4>1. best_costs[l] \in CostValues
        BY <1>1, Zenon DEF TypeOK
      <4>2. best_costs[l] # 0 /\ best_costs[l] \in Nat
        BY <4>1, CostsAreNats, Zenon
      <4>. QED
        BY <4>2, SMT, SMTT(20)
    <3>5. LiveGradient(l)[1] \in Int /\ LiveGradient(l)[1] < 0 /\ LiveGradient(l)[2] \in Nat
      BY <1>1, <3>3, <3>4, GradientFalls, Zenon
    <3>6. Gradient(l) = LiveGradient(l) /\ Gradient(d) = <<0, 1>> /\ d \in Tasks
      BY <3>1, <3>2, ZenonT(40) DEF Gradient
    <3>. DEFINE g == [k \in Tasks |-> Gradient(k)]
                smallest == {k \in Tasks : \A m \in Tasks : ~Less(g[m], g[k])}
    <3>7. Less(g[l], g[d])
      BY <3>5, <3>6, SMT, SMTT(20) DEF Less
    <3>8. d \notin smallest
      BY <3>6, <3>7, Zenon
    <3>9. GradientChoice \subseteq smallest
      BY <3>6, <3>8, Zenon DEF GradientChoice
    <3>. QED
      BY <3>8, <3>9, Zenon
  <2>. QED
    BY <2>2, <2>3, ConstantsAssumption, Zenon
<1>2. TypeOK /\ HistoryFalls /\ EveryTaskTuned /\ [Next]_vars => [Live]_vars
  BY <1>1, Zenon
<1>. QED
  BY <1>2, TypesHold, HistoryHolds, EveryTaskTunedHolds, PTL DEF Spec, LoopTunesLiveTasks
-----------------------------------------------------------------------------
(* The score, task by task.                                                *)
LEMMA ScoreSteps ==
  ASSUME NEW costs
  PROVE  \E sum :
           /\ sum[0] = 0 /\ sum[NumTasks] = Score(costs)
           /\ \A n \in 1 .. NumTasks : sum[n] = sum[n - 1] + TaskWeights[n - 1] * costs[n - 1]
<1>. DEFINE Term(n) == TaskWeights[n - 1] * costs[n - 1]
            Sums(f, n) == f = [k \in 0 .. n |-> IF k = 0 THEN 0 ELSE f[k - 1] + Term(k)]
            S == {n \in Nat : \E f : Sums(f, n)}
<1>0. NumTasks \in Nat
  BY ConstantsAssumption, Zenon
<1>5. Score(costs) = (CHOOSE f : Sums(f, NumTasks))[NumTasks]
  BY Zenon DEF Score
<1>. HIDE DEF Term
<1>1. 0 \in S
  <2>. DEFINE f == [k \in 0 .. 0 |-> 0]
  <2>1. Sums(f, 0)
    BY SMT, SMTT(20)
  <2>. QED
    BY <2>1, Zenon
<1>2. ASSUME NEW n \in S PROVE n + 1 \in S
  <2>1. PICK f : Sums(f, n)
    BY Zenon
  <2>. DEFINE g == [k \in 0 .. n + 1 |-> IF k = n + 1 THEN f[n] + Term(n + 1) ELSE f[k]]
              r == [k \in 0 .. n + 1 |-> IF k = 0 THEN 0 ELSE g[k - 1] + Term(k)]
  <2>2. ASSUME NEW k \in 0 .. n + 1 PROVE g[k] = r[k]
    <3>1. CASE k = n + 1
      BY <3>1, SMT, SMTT(20)
    <3>2. CASE k # n + 1
      <4>1. k \in 0 .. n /\ g[k] = f[k] /\ (k # 0 => g[k - 1] = f[k - 1])
        BY <3>2, SMT, SMTT(20)
      <4>. QED
        BY <4>1, <2>1, Zenon
    <3>. QED
      BY <3>1, <3>2, ZenonT(40)
  <2>3. g = [k \in 0 .. n + 1 |-> g[k]] /\ r = [k \in 0 .. n + 1 |-> r[k]]
    BY SMT, SMTT(20)
  <2>4. g = r
    <3>. HIDE DEF g, r
    <3>. QED
      BY <2>2, <2>3, ZenonT(40)
  <2>. HIDE DEF g
  <2>5. Sums(g, n + 1) /\ n + 1 \in Nat
    BY <2>4, SMT, SMTT(20)
  <2>. HIDE DEF Sums
  <2>. QED
    BY <2>5, Zenon
<1>3. NumTasks \in S
  <2>1. S \in SUBSET Nat
    BY Zenon
  <2>. HIDE DEF S
  <2>. QED
    BY <1>0, <1>1, <1>2, <2>1, Naturals, Zenon
<1>. DEFINE h == CHOOSE f : Sums(f, NumTasks)
<1>4. Sums(h, NumTasks)
  BY <1>3, Zenon
<1>. HIDE DEF h
<1>6. h[0] = 0
  BY <1>0, <1>4, SMT, SMTT(20)
<1>7. ASSUME NEW n \in 1 .. NumTasks PROVE h[n] = h[n - 1] + Term(n)
  BY <1>0, <1>4, SMT, SMTT(20)
<1>. QED
  BY <1>5, <1>6, <1>7, Zenon DEF h, Term

(* No task's cost rises, so the score does not.                            *)
LEMMA ScoreMonotone ==
  ASSUME NEW c \in [Tasks -> Nat], NEW d \in [Tasks -> Nat], \A i \in Tasks : c[i] <= d[i]
  PROVE  Score(c) \in Nat /\ Score(d) \in Nat /\ Score(c) <= Score(d)
<1>1. PICK f : /\ f[0] = 0 /\ f[NumTasks] = Score(c)
               /\ \A n \in 1 .. NumTasks : f[n] = f[n - 1] + TaskWeights[n - 1] * c[n - 1]
  BY ScoreSteps, Zenon
<1>2. PICK g : /\ g[0] = 0 /\ g[NumTasks] = Score(d)
               /\ \A n \in 1 .. NumTasks : g[n] = g[n - 1] + TaskWeights[n - 1] * d[n - 1]
  BY ScoreSteps, ZenonT(40)
<1>. DEFINE S == {n \in Nat : n <= NumTasks => f[n] \in Nat /\ g[n] \in Nat /\ f[n] <= g[n]}
<1>3. NumTasks \in Nat
  BY ConstantsAssumption, ZenonT(40)
<1>4. 0 \in S
  BY <1>1, <1>2, SMT, SMTT(20)
<1>5. ASSUME NEW n \in S PROVE n + 1 \in S
  <2>. SUFFICES ASSUME n + 1 <= NumTasks
                PROVE  f[n + 1] \in Nat /\ g[n + 1] \in Nat /\ f[n + 1] <= g[n + 1]
    BY SMT, SMTT(20)
  <2>1. n \in Nat /\ n \in Tasks /\ n + 1 \in 1 .. NumTasks /\ (n + 1) - 1 = n
    BY <1>3, SMT, SMTT(20) DEF Tasks
  <2>2. f[n] \in Nat /\ g[n] \in Nat /\ f[n] <= g[n]
    BY <1>3, <2>1, SMT, SMTT(20)
  <2>. DEFINE w == TaskWeights[n]
              x == c[n]
              y == d[n]
  <2>3. f[n + 1] = f[n] + w * x /\ g[n + 1] = g[n] + w * y
    BY <1>1, <1>2, <2>1, Zenon
  <2>4. w \in Nat /\ x \in Nat /\ y \in Nat /\ x <= y
    BY <2>1, ConstantsAssumption, Zenon
  <2>. HIDE DEF w, x, y
  <2>5. w * x \in Nat /\ w * y \in Nat /\ w * x <= w * y
    <3>1. x * w <= y * w
      BY <2>4, Product, SMT, SMTT(20)
    <3>2. w * x = x * w /\ w * y = y * w /\ w * x \in Nat /\ w * y \in Nat
      BY <2>4, SMT, SMTT(20)
    <3>. QED
      BY <3>1, <3>2, ZenonT(40)
  <2>. QED
    BY <2>2, <2>3, <2>5, SMT, SMTT(20)
<1>6. NumTasks \in S
  <2>1. S \in SUBSET Nat
    BY Zenon
  <2>. HIDE DEF S
  <2>. QED
    BY <1>3, <1>4, <1>5, <2>1, Naturals, Zenon
<1>. QED
  BY <1>1, <1>2, <1>3, <1>6, SMT, SMTT(20)

(* In the main loop, its rounds included, best_score is the score of the   *)
(* best costs.                                                             *)
ScoreInv ==
  pc = "loop" \/ (pc = "measure" /\ caller = "loop") => best_score = Score(best_costs)

(* Every step of the main loop keeps best_score the score of the best      *)
(* costs.                                                                  *)
LEMMA NextScore == TypeOK /\ ScoreInv /\ [Next]_vars => ScoreInv'
<1>. SUFFICES ASSUME TypeOK, ScoreInv, [Next]_vars PROVE ScoreInv'
  BY Zenon
<1>. USE DEF ScoreInv
<1>1. CASE Tune
  BY <1>1, Zenon DEF Tune
<1>2. CASE WarmupTask
  BY <1>2, Zenon DEF WarmupTask, sched
<1>3. CASE EndWarmup
  BY <1>3, Zenon DEF EndWarmup, sched
<1>4. CASE SelectTask
  BY <1>4, Zenon DEF SelectTask, sched
<1>5. CASE EndLoop
  BY <1>5, Zenon DEF EndLoop
<1>6. CASE MeasureBatch
  BY <1>6, Zenon DEF MeasureBatch, sched
<1>7. CASE EndRound
  <2>. DEFINE i == task_idx
              cost == BestOf(best_costs[i], round)
              costs == [best_costs EXCEPT ![i] = cost]
  <2>1. i \in Tasks /\ best_costs \in [Tasks -> CostValues] /\ round \in Seq(CostValues)
    BY <1>7, Zenon DEF EndRound, TypeOK
  <2>2. TunedTask(i).costs = costs
    BY Zenon DEF TunedTask, Counted
  <2>3. cost \in CostValues /\ cost <= best_costs[i]
    BY <2>1, BestOfProps, Zenon
  <2>. HIDE DEF cost
  <2>4. costs \in [Tasks -> CostValues] /\ \A k \in Tasks : k # i => costs[k] = best_costs[k]
    BY <2>1, <2>3, Zenon
  <2>5. costs[i] = cost
    BY <2>1, Zenon
  <2>. HIDE DEF costs
  <2>6. best_costs \in [Tasks -> Nat] /\ costs \in [Tasks -> Nat]
    BY <2>1, <2>4, CostsAreNats, Zenon
  <2>7. \A k \in Tasks : costs[k] <= best_costs[k]
    BY <2>3, <2>4, <2>5, <2>6, SMT, SMTT(20)
  <2>8. Score(costs) \in Nat /\ Score(best_costs) \in Nat /\ Score(costs) <= Score(best_costs)
    BY <2>6, <2>7, ScoreMonotone, Zenon
  <2>9. pc = "measure" /\ best_costs' = costs /\ UNCHANGED caller
    BY <1>7, <2>2, Zenon DEF EndRound
  <2>10. CASE caller = "warmup"
    BY <1>7, <2>9, <2>10, Zenon DEF EndRound
  <2>11. CASE caller = "loop"
    <3>1. best_score' = IF Score(costs) < best_score THEN Score(costs) ELSE best_score
      BY <1>7, <2>2, <2>11, Zenon DEF EndRound
    <3>2. best_score = Score(best_costs)
      BY <2>9, <2>11, Zenon
    <3>3. best_score' = Score(costs)
      BY <2>8, <3>1, <3>2, SMT, SMTT(20)
    <3>. QED
      BY <2>9, <3>3, Zenon
  <2>. QED
    BY <2>10, <2>11, Zenon DEF TypeOK
<1>8. CASE Crash
  BY <1>8, Zenon DEF Crash
<1>9. CASE TuneAgain \/ Terminated \/ UNCHANGED vars
  BY <1>9, Zenon DEF TuneAgain, Terminated, vars, sched
<1>. QED
  BY <1>1, <1>2, <1>3, <1>4, <1>5, <1>6, <1>7, <1>8, <1>9, ZenonT(40) DEF Next, Step

(* The main loop keeps best_score up to date, so early stopping counts the *)
(* trials since the last improvement: no round raises a cost, so a score   *)
(* that is not lower is the same.                                          *)
THEOREM BestScoreIsCurrentHolds == Spec => []BestScoreIsCurrent
<1>1. Init => ScoreInv
  BY Zenon DEF Init, ScoreInv
<1>2. ScoreInv => BestScoreIsCurrent
  BY Zenon DEF ScoreInv, BestScoreIsCurrent
<1>. QED
  BY <1>1, <1>2, InitTypes, NextTypes, NextScore, PTL DEF Spec
=============================================================================
