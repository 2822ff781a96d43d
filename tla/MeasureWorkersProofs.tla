-------------------------- MODULE MeasureWorkersProofs --------------------------
(***************************************************************************)
(* For batches of every size, every n_parallel and every number of         *)
(* processes that a child starts: a local measurement is alone, a run      *)
(* finds its library, costs mean success, and a program that was loaded    *)
(* leaves no directory.  IInv is inductive, and CleanedInv with it; each   *)
(* of their parts has a lemma below, with one step for each action.        *)
(***************************************************************************)
EXTENDS MeasureWorkers, TLAPS

\* The outcomes that the actions write.
LEMMA Outcomes ==
  /\ None \in Outcome /\ Exception \in Outcome /\ TimeoutError \in Outcome
  /\ Result("INSTANTIATION_ERROR", "none") \in Outcome
  /\ Result("NO_ERROR", "none") \in Outcome
  /\ Result("COMPILE_HOST", "none") \in Outcome
  /\ Result("COMPILE_DEVICE", "MAX_FLOAT") \in Outcome
  /\ Result("RUNTIME_DEVICE", "MAX_FLOAT") \in Outcome
  /\ \A c \in {"stable", "noisy"} : Result("NO_ERROR", c) \in Outcome
  /\ \A r \in Outcome : Result(r.error_no, "MAX_FLOAT") \in Outcome
  /\ \A r \in Outcome : BuildResult(r) \in Outcome /\ MeasureResult(r) \in Outcome
BY Zenon DEF Outcome, None, Exception, TimeoutError, Result, BuildResult, MeasureResult,
   BuildError, RunError, Costs

\* Type correctness.
LEMMA TypeStep ==
  ASSUME IInv, Next
  PROVE  TypeOK'
<1>1. ASSUME NEW i \in Inputs, Skip(i) PROVE TypeOK'
  BY <1>1, Outcomes, Zenon DEF Skip, Turn, IInv, TypeOK
<1>2. ASSUME NEW i \in Inputs, Start(i) PROVE TypeOK'
  BY <1>2, Outcomes, Zenon DEF Start, Turn, IInv, TypeOK
<1>3. ASSUME NEW i \in Inputs, Get(i) PROVE TypeOK'
  BY <1>3, Outcomes, Zenon DEF Get, IInv, TypeOK
<1>4. ASSUME NEW i \in Inputs, Timeout(i) PROVE TypeOK'
  BY <1>4, Outcomes, Zenon DEF Timeout, IInv, TypeOK
<1>5. ASSUME NEW i \in Inputs, ListChildren(i) PROVE TypeOK'
  BY <1>5, Outcomes, Zenon DEF ListChildren, IInv, TypeOK
<1>6. ASSUME NEW i \in Inputs, NEW h \in Helper, SendSignal(i, h) PROVE TypeOK'
  <2>1. CASE helper[i][h] = "runs"
    <3>1. helper' \in [Inputs -> [Helper -> {"none", "runs", "gone", "killed"}]]
      <4>1. helper' = [helper EXCEPT ![i] = [helper[i] EXCEPT ![h] = "killed"]]
        BY <1>6, <2>1, Zenon DEF SendSignal
      <4>2. [helper[i] EXCEPT ![h] = "killed"] \in [Helper -> {"none", "runs", "gone", "killed"}]
        BY Zenon DEF IInv, TypeOK
      <4>3. QED BY <4>1, <4>2, Zenon DEF IInv, TypeOK
    <3>2. list' \in [Inputs -> SUBSET Helper]
      <4>1. list' = [list EXCEPT ![i] = list[i] \ {h}]
        BY <1>6, <2>1, Zenon DEF SendSignal
      <4>2. list[i] \ {h} \in SUBSET Helper
        BY Zenon DEF IInv, TypeOK
      <4>3. QED BY <4>1, <4>2, Zenon DEF IInv, TypeOK
    <3>3. QED BY <1>6, <3>1, <3>2, Zenon DEF SendSignal, IInv, TypeOK
  <2>2. CASE helper[i][h] # "runs"
    <3>1. /\ list' = [list EXCEPT ![i] = {}]
          /\ UNCHANGED <<runner, phase, call, res, child, attempt, answer, que, helper, dir, build_results, results>>
      BY <1>6, <2>2, Zenon DEF SendSignal
    <3>2. QED BY <3>1, Zenon DEF IInv, TypeOK
  <2>3. QED BY <2>1, <2>2, Zenon
<1>7. ASSUME NEW i \in Inputs, Terminate(i) PROVE TypeOK'
  BY <1>7, Outcomes, Zenon DEF Terminate, IInv, TypeOK
<1>8. ASSUME NEW i \in Inputs, Return(i) PROVE TypeOK'
  <2>1. BuildResult(res[i]) \in Outcome /\ MeasureResult(res[i]) \in Outcome
    BY Outcomes, Zenon DEF IInv, TypeOK
  <2>2. build_results' \in [Inputs -> Outcome] /\ results' \in [Inputs -> Outcome]
    <3>1. CASE phase = "build"
      BY <1>8, <2>1, <3>1, Zenon DEF Return, IInv, TypeOK
    <3>2. CASE phase # "build"
      BY <1>8, <2>1, <3>2, Zenon DEF Return, IInv, TypeOK
    <3>3. QED BY <3>1, <3>2, Zenon
  <2>3. res' \in [Inputs -> Outcome] /\ que' \in [Inputs -> Outcome] /\ answer' \in [Inputs -> Outcome]
    BY <1>8, Outcomes, Zenon DEF Return, IInv, TypeOK
  <2>4. attempt' \in [Inputs -> 0 .. max_retry]
    BY <1>8, SMT, SMTT(20) DEF Return, max_retry, IInv, TypeOK
  <2>5. QED BY <1>8, <2>2, <2>3, <2>4, Zenon DEF Return, IInv, TypeOK
<1>9. ASSUME NEW i \in Inputs, Deserialize(i) PROVE TypeOK'
  <2>1. CASE Continues(i, "instantiate")
    BY <1>9, <2>1, Zenon DEF Deserialize, Continues, IInv, TypeOK
  <2>2. CASE Continues(i, "load")
    BY <1>9, <2>2, Zenon DEF Deserialize, Continues, IInv, TypeOK
  <2>3. CASE Answers(i, Exception)
    BY <1>9, <2>3, Outcomes, Zenon DEF Deserialize, Answers, IInv, TypeOK
  <2>4. QED BY <1>9, <2>1, <2>2, <2>3, Zenon DEF Deserialize
<1>10. ASSUME NEW i \in Inputs, Instantiate(i) PROVE TypeOK'
  <2>1. CASE Continues(i, "compile") /\ dir' = [dir EXCEPT ![i] = "empty"]
    BY <1>10, <2>1, Zenon DEF Instantiate, Continues, IInv, TypeOK
  <2>2. CASE Answers(i, Result("INSTANTIATION_ERROR", "none")) /\ UNCHANGED dir
    BY <1>10, <2>2, Outcomes, Zenon DEF Instantiate, Answers, IInv, TypeOK
  <2>3. QED BY <1>10, <2>1, <2>2, Zenon DEF Instantiate
<1>11. ASSUME NEW i \in Inputs, Compile(i) PROVE TypeOK'
  <2>1. CASE Answers(i, Result("NO_ERROR", "none")) /\ dir' = [dir EXCEPT ![i] = "built"]
    BY <1>11, <2>1, Outcomes, Zenon DEF Compile, Answers, IInv, TypeOK
  <2>2. CASE Answers(i, Result("COMPILE_HOST", "none")) /\ UNCHANGED dir
    BY <1>11, <2>2, Outcomes, Zenon DEF Compile, Answers, IInv, TypeOK
  <2>3. QED BY <1>11, <2>1, <2>2, Zenon DEF Compile
<1>12. ASSUME NEW i \in Inputs, Load(i) PROVE TypeOK'
  <2>1. CASE Continues(i, "time")
    BY <1>12, <2>1, Zenon DEF Load, Continues, IInv, TypeOK
  <2>2. CASE /\ child' = [child EXCEPT ![i] = "clean"]
             /\ answer' = [answer EXCEPT ![i] = Result("COMPILE_DEVICE", "MAX_FLOAT")]
    BY <1>12, <2>2, Outcomes, Zenon DEF Load, IInv, TypeOK
  <2>3. QED BY <1>12, <2>1, <2>2, Zenon DEF Load
<1>13. ASSUME NEW i \in Inputs, TimeEvaluator(i) PROVE TypeOK'
  <2>1. attempt[i] \in 0 .. 4 /\ attempt[i] < 4
    BY <1>13, Zenon DEF TimeEvaluator, IInv, CallInv, TypeOK, max_retry
  <2>2. attempt' \in [Inputs -> 0 .. max_retry]
    BY <1>13, <2>1, SMT, SMTT(20) DEF TimeEvaluator, IInv, TypeOK, max_retry
  <2>3. PICK costs \in {"stable", "noisy"} :
          /\ answer' = [answer EXCEPT ![i] = Result("NO_ERROR", costs)]
          /\ child' = [child EXCEPT ![i] = IF costs = "stable" \/ LastAttempt(i) THEN "clean" ELSE @]
    BY <1>13, Zenon DEF TimeEvaluator
  <2>4. answer' \in [Inputs -> Outcome]
    BY <2>3, Outcomes, Zenon DEF IInv, TypeOK
  <2>5. QED BY <1>13, <2>2, <2>3, <2>4, Zenon DEF TimeEvaluator, IInv, TypeOK
<1>14. ASSUME NEW i \in Inputs, RunFails(i) PROVE TypeOK'
  BY <1>14, Outcomes, Zenon DEF RunFails, IInv, TypeOK
<1>15. ASSUME NEW i \in Inputs, Clean(i) PROVE TypeOK'
  BY <1>15, Outcomes, Zenon DEF Clean, Continues, IInv, TypeOK
<1>16. ASSUME NEW i \in Inputs, Put(i) PROVE TypeOK'
  BY <1>16, Outcomes, Zenon DEF Put, IInv, TypeOK
<1>17. ASSUME NEW i \in Inputs, Crash(i) PROVE TypeOK'
  BY <1>17, Outcomes, Zenon DEF Crash, IInv, TypeOK
<1>18. ASSUME NEW i \in Inputs, Busy(i) PROVE TypeOK'
  BY <1>18, Outcomes, Zenon DEF Busy, vars, IInv, TypeOK
<1>19. ASSUME NEW i \in Inputs, NEW h \in Helper, Spawn(i, h) PROVE TypeOK'
  BY <1>19, Outcomes, Zenon DEF Spawn, IInv, TypeOK
<1>20. ASSUME NEW i \in Inputs, NEW h \in Helper, HelperExits(i, h) PROVE TypeOK'
  BY <1>20, Outcomes, Zenon DEF HelperExits, IInv, TypeOK
<1>21. ASSUME Run PROVE TypeOK'
  BY <1>21, Outcomes, Zenon DEF Run, IInv, TypeOK
<1>22. ASSUME SilentMeasured PROVE TypeOK'
  BY <1>22, Outcomes, Zenon DEF SilentMeasured, IInv, TypeOK
<1>23. ASSUME NextBatch PROVE TypeOK'
  BY <1>23, Outcomes, Zenon DEF NextBatch, IInv, TypeOK
<1>24. QED BY <1>1, <1>2, <1>3, <1>4, <1>5, <1>6, <1>7, <1>8, <1>9, <1>10, <1>11, <1>12, <1>13,
              <1>14, <1>15,
  <1>16, <1>17, <1>18, <1>19, <1>20, <1>21, <1>22, <1>23, Zenon DEF Next, Caller, Child

\* A call that has not begun or has returned has left nothing behind.
LEMMA CallStep ==
  ASSUME IInv, NEW k \in Inputs, Next
  PROVE  CallInv(k)'
<1>1. ASSUME NEW i \in Inputs, Skip(i) PROVE CallInv(k)'
  BY <1>1, Zenon DEF Skip, Turn, Failed, Result, IInv, TypeOK, CallInv, None, max_retry
<1>2. ASSUME NEW i \in Inputs, Start(i) PROVE CallInv(k)'
  BY <1>2, Zenon DEF Start, Turn, Failed, IInv, TypeOK, CallInv, None, max_retry
<1>3. ASSUME NEW i \in Inputs, Get(i) PROVE CallInv(k)'
  BY <1>3, Zenon DEF Get, IInv, TypeOK, CallInv, None, max_retry
<1>4. ASSUME NEW i \in Inputs, Timeout(i) PROVE CallInv(k)'
  BY <1>4, Zenon DEF Timeout, TimeoutError, Result, IInv, TypeOK, CallInv, None, max_retry
<1>5. ASSUME NEW i \in Inputs, ListChildren(i) PROVE CallInv(k)'
  BY <1>5, Zenon DEF ListChildren, IInv, TypeOK, CallInv, None, max_retry
<1>6. ASSUME NEW i \in Inputs, NEW h \in Helper, SendSignal(i, h) PROVE CallInv(k)'
  BY <1>6, Zenon DEF SendSignal, IInv, TypeOK, CallInv, None, max_retry
<1>7. ASSUME NEW i \in Inputs, Terminate(i) PROVE CallInv(k)'
  BY <1>7, Zenon DEF Terminate, IInv, TypeOK, CallInv, None, max_retry
<1>8. ASSUME NEW i \in Inputs, Return(i) PROVE CallInv(k)'
    BY <1>8, Zenon DEF Return, Joined, BuildResult, MeasureResult, Result, TimeoutError,
       Exception, IInv, TypeOK,
    CallInv, None, max_retry
<1>9. ASSUME NEW i \in Inputs, Deserialize(i) PROVE CallInv(k)'
  <2>1. CASE Continues(i, "instantiate")
    BY <1>9, <2>1, Zenon DEF Deserialize, Continues, IInv, TypeOK, CallInv
  <2>2. CASE Continues(i, "load")
    BY <1>9, <2>2, Zenon DEF Deserialize, Continues, IInv, TypeOK, CallInv
  <2>3. CASE Answers(i, Exception)
    BY <1>9, <2>3, Zenon DEF Deserialize, Answers, IInv, TypeOK, CallInv
  <2>4. QED BY <1>9, <2>1, <2>2, <2>3, Zenon DEF Deserialize
<1>10. ASSUME NEW i \in Inputs, Instantiate(i) PROVE CallInv(k)'
  <2>1. CASE Continues(i, "compile")
    BY <1>10, <2>1, Zenon DEF Instantiate, Continues, IInv, TypeOK, CallInv
  <2>2. CASE Answers(i, Result("INSTANTIATION_ERROR", "none"))
    BY <1>10, <2>2, Zenon DEF Instantiate, Answers, IInv, TypeOK, CallInv
  <2>3. QED BY <1>10, <2>1, <2>2, Zenon DEF Instantiate
<1>11. ASSUME NEW i \in Inputs, Compile(i) PROVE CallInv(k)'
  BY <1>11, SMT, SMTT(20) DEF Compile, Answers, Result, IInv, TypeOK, CallInv, None, max_retry
<1>12. ASSUME NEW i \in Inputs, Load(i) PROVE CallInv(k)'
  <2>1. CASE Continues(i, "time")
    BY <1>12, <2>1, SMT, SMTT(20) DEF Load, Continues, IInv, TypeOK, CallInv, max_retry
  <2>2. CASE /\ child' = [child EXCEPT ![i] = "clean"]
             /\ answer' = [answer EXCEPT ![i] = Result("COMPILE_DEVICE", "MAX_FLOAT")]
    BY <1>12, <2>2, Zenon DEF Load, IInv, TypeOK, CallInv
  <2>3. QED BY <1>12, <2>1, <2>2, Zenon DEF Load
<1>13. ASSUME NEW i \in Inputs, TimeEvaluator(i) PROVE CallInv(k)'
  <2>1. CASE k # i
    BY <1>13, <2>1 DEF TimeEvaluator, IInv, TypeOK, CallInv
  <2>2. CASE k = i
    <3>1. attempt[i] \in 0 .. 4 /\ attempt[i] < 4 /\ attempt'[i] = attempt[i] + 1
      BY <1>13, Zenon DEF TimeEvaluator, IInv, CallInv, TypeOK, max_retry
    <3>2. child'[i] = "clean" \/ (child'[i] = "time" /\ attempt[i] + 1 # 4)
      BY <1>13, Zenon DEF TimeEvaluator, LastAttempt, max_retry, IInv, TypeOK
    <3>3. call'[i] = call[i] /\ que'[i] = que[i] /\ res'[i] = res[i] /\ child[i] = "time"
      BY <1>13, Zenon DEF TimeEvaluator
    <3>4. QED BY <2>2, <3>1, <3>2, <3>3, SMT, SMTT(20) DEF IInv, CallInv, max_retry
  <2>3. QED BY <2>1, <2>2, Zenon
<1>14. ASSUME NEW i \in Inputs, RunFails(i) PROVE CallInv(k)'
  BY <1>14, Zenon DEF RunFails, Result, IInv, TypeOK, CallInv, None, max_retry
<1>15. ASSUME NEW i \in Inputs, Clean(i) PROVE CallInv(k)'
  BY <1>15, Zenon DEF Clean, Continues, IInv, TypeOK, CallInv, None, max_retry
<1>16. ASSUME NEW i \in Inputs, Put(i) PROVE CallInv(k)'
  BY <1>16, Zenon DEF Put, IInv, TypeOK, CallInv, None, max_retry
<1>17. ASSUME NEW i \in Inputs, Crash(i) PROVE CallInv(k)'
  BY <1>17, Zenon DEF Crash, Alive, IInv, TypeOK, CallInv, None, max_retry
<1>18. ASSUME NEW i \in Inputs, Busy(i) PROVE CallInv(k)'
  BY <1>18, Zenon DEF Busy, vars, IInv, TypeOK, CallInv, None, max_retry
<1>19. ASSUME NEW i \in Inputs, NEW h \in Helper, Spawn(i, h) PROVE CallInv(k)'
  BY <1>19, Zenon DEF Spawn, IInv, TypeOK, CallInv, None, max_retry
<1>20. ASSUME NEW i \in Inputs, NEW h \in Helper, HelperExits(i, h) PROVE CallInv(k)'
  BY <1>20, Zenon DEF HelperExits, IInv, TypeOK, CallInv, None, max_retry
<1>21. ASSUME Run PROVE CallInv(k)'
  BY <1>21, Zenon DEF Run, IInv, TypeOK, CallInv, None, max_retry
<1>22. ASSUME SilentMeasured PROVE CallInv(k)'
  BY <1>22, Zenon DEF SilentMeasured, IInv, TypeOK, CallInv, None, max_retry
<1>23. ASSUME NextBatch PROVE CallInv(k)'
  BY <1>23, Zenon DEF NextBatch, IInv, TypeOK, CallInv, None, max_retry
<1>24. QED BY <1>1, <1>2, <1>3, <1>4, <1>5, <1>6, <1>7, <1>8, <1>9, <1>10, <1>11, <1>12, <1>13,
              <1>14, <1>15,
  <1>16, <1>17, <1>18, <1>19, <1>20, <1>21, <1>22, <1>23, Zenon DEF Next, Caller, Child

\* In the build phase, an answer without error stands for a library.
LEMMA BuildStep ==
  ASSUME IInv, NEW k \in Inputs, Next
  PROVE  BuildInv(k)'
<1>1. ASSUME NEW i \in Inputs, Skip(i) PROVE BuildInv(k)'
  BY <1>1, Zenon DEF Skip, Turn, Failed, Result, IInv, TypeOK, CallInv, BuildInv, None
<1>2. ASSUME NEW i \in Inputs, Start(i) PROVE BuildInv(k)'
  BY <1>2, Zenon DEF Start, Turn, Failed, IInv, TypeOK, CallInv, BuildInv, None
<1>3. ASSUME NEW i \in Inputs, Get(i) PROVE BuildInv(k)'
  BY <1>3, Zenon DEF Get, IInv, TypeOK, CallInv, BuildInv, None
<1>4. ASSUME NEW i \in Inputs, Timeout(i) PROVE BuildInv(k)'
  BY <1>4, Zenon DEF Timeout, TimeoutError, Result, IInv, TypeOK, CallInv, BuildInv, None
<1>5. ASSUME NEW i \in Inputs, ListChildren(i) PROVE BuildInv(k)'
  BY <1>5, Zenon DEF ListChildren, IInv, TypeOK, CallInv, BuildInv, None
<1>6. ASSUME NEW i \in Inputs, NEW h \in Helper, SendSignal(i, h) PROVE BuildInv(k)'
  BY <1>6, Zenon DEF SendSignal, IInv, TypeOK, CallInv, BuildInv, None
<1>7. ASSUME NEW i \in Inputs, Terminate(i) PROVE BuildInv(k)'
  BY <1>7, Zenon DEF Terminate, IInv, TypeOK, CallInv, BuildInv, None
<1>8. ASSUME NEW i \in Inputs, Return(i) PROVE BuildInv(k)'
    BY <1>8, SMT, SMTT(20) DEF Return, Joined, BuildResult, MeasureResult, Result,
       TimeoutError, Exception, IInv, TypeOK,
    CallInv, BuildInv, None
<1>9. ASSUME NEW i \in Inputs, Deserialize(i) PROVE BuildInv(k)'
  BY <1>9, SMT, SMTT(20) DEF Deserialize, Continues, Answers, Exception, Result, IInv, TypeOK,
     CallInv, BuildInv, None
<1>10. ASSUME NEW i \in Inputs, Instantiate(i) PROVE BuildInv(k)'
  <2>1. CASE k # i
    BY <1>10, <2>1, SMT, SMTT(20) DEF Instantiate, Continues, Answers, IInv, TypeOK, BuildInv
  <2>2. CASE k = i /\ Continues(i, "compile")
    <3>1. answer[i] = None /\ que[i] = None /\ call[i] # "done"
      BY <1>10, Zenon DEF Instantiate, IInv, CallInv
    <3>2. QED BY <1>10, <2>2, <3>1, SMT, SMTT(20)
                 DEF Instantiate, Continues, IInv, TypeOK, BuildInv, None
  <2>3. CASE k = i /\ Answers(i, Result("INSTANTIATION_ERROR", "none")) /\ UNCHANGED dir
    BY <1>10, <2>3, Zenon
       DEF Instantiate, Answers, Result, IInv, TypeOK, CallInv, BuildInv, None
  <2>4. QED BY <1>10, <2>1, <2>2, <2>3, Zenon DEF Instantiate
<1>11. ASSUME NEW i \in Inputs, Compile(i) PROVE BuildInv(k)'
  <2>1. CASE k # i
    BY <1>11, <2>1, SMT, SMTT(20) DEF Compile, Answers, IInv, TypeOK, BuildInv
  <2>2. CASE k = i /\ Answers(i, Result("NO_ERROR", "none")) /\ dir' = [dir EXCEPT ![i] = "built"]
    BY <1>11, <2>2, Zenon DEF Compile, Answers, IInv, TypeOK, BuildInv
  <2>3. CASE k = i /\ Answers(i, Result("COMPILE_HOST", "none")) /\ UNCHANGED dir
    BY <1>11, <2>3, Zenon DEF Compile, Answers, Result, IInv, TypeOK, CallInv, BuildInv, None
  <2>4. QED BY <1>11, <2>1, <2>2, <2>3, Zenon DEF Compile
<1>12. ASSUME NEW i \in Inputs, Load(i) PROVE BuildInv(k)'
  BY <1>12, Zenon DEF Load, Continues, Result, IInv, TypeOK, CallInv, BuildInv, None
<1>13. ASSUME NEW i \in Inputs, TimeEvaluator(i) PROVE BuildInv(k)'
  BY <1>13, Zenon DEF TimeEvaluator, Result, LastAttempt, IInv, TypeOK, CallInv, BuildInv, None
<1>14. ASSUME NEW i \in Inputs, RunFails(i) PROVE BuildInv(k)'
  BY <1>14, Zenon DEF RunFails, Result, IInv, TypeOK, CallInv, BuildInv, None
<1>15. ASSUME NEW i \in Inputs, Clean(i) PROVE BuildInv(k)'
  BY <1>15, Zenon DEF Clean, Continues, IInv, TypeOK, CallInv, BuildInv, None
<1>16. ASSUME NEW i \in Inputs, Put(i) PROVE BuildInv(k)'
  BY <1>16 DEF Put, IInv, TypeOK, CallInv, BuildInv, None
<1>17. ASSUME NEW i \in Inputs, Crash(i) PROVE BuildInv(k)'
  BY <1>17, Zenon DEF Crash, Alive, IInv, TypeOK, CallInv, BuildInv, None
<1>18. ASSUME NEW i \in Inputs, Busy(i) PROVE BuildInv(k)'
  BY <1>18, Zenon DEF Busy, vars, IInv, TypeOK, CallInv, BuildInv, None
<1>19. ASSUME NEW i \in Inputs, NEW h \in Helper, Spawn(i, h) PROVE BuildInv(k)'
  BY <1>19, Zenon DEF Spawn, IInv, TypeOK, CallInv, BuildInv, None
<1>20. ASSUME NEW i \in Inputs, NEW h \in Helper, HelperExits(i, h) PROVE BuildInv(k)'
  BY <1>20, Zenon DEF HelperExits, IInv, TypeOK, CallInv, BuildInv, None
<1>21. ASSUME Run PROVE BuildInv(k)'
  BY <1>21, Zenon DEF Run, IInv, TypeOK, CallInv, BuildInv, None
<1>22. ASSUME SilentMeasured PROVE BuildInv(k)'
  BY <1>22, Zenon DEF SilentMeasured, IInv, TypeOK, CallInv, BuildInv, None
<1>23. ASSUME NextBatch PROVE BuildInv(k)'
  <2>1. call[k] = "done"
    BY <1>23, Zenon DEF NextBatch, IInv
  <2>2. child[k] \in {"none", "dead"} /\ answer[k] = None /\ que[k] = None
    BY <2>1, Zenon DEF IInv, CallInv
  <2>3. QED BY <1>23, <2>2, SMT, SMTT(20) DEF NextBatch, BuildInv, None
<1>24. QED BY <1>1, <1>2, <1>3, <1>4, <1>5, <1>6, <1>7, <1>8, <1>9, <1>10, <1>11, <1>12, <1>13,
              <1>14, <1>15,
  <1>16, <1>17, <1>18, <1>19, <1>20, <1>21, <1>22, <1>23, Zenon DEF Next, Caller, Child

\* In the run phase, the library stays until the child removes it, and costs
\* go with success.
LEMMA RunStep ==
  ASSUME IInv, NEW k \in Inputs, Next
  PROVE  RunInv(k)'
<1>1. ASSUME NEW i \in Inputs, Skip(i) PROVE RunInv(k)'
  BY <1>1, SMT, SMTT(20)
     DEF Skip, Turn, Failed, Result, IInv, TypeOK, CallInv, BuildInv, RunInv, Matches, None
<1>2. ASSUME NEW i \in Inputs, Start(i) PROVE RunInv(k)'
  BY <1>2, SMT, SMTT(20)
     DEF Start, Turn, Failed, IInv, TypeOK, CallInv, BuildInv, RunInv, Matches, None
<1>3. ASSUME NEW i \in Inputs, Get(i) PROVE RunInv(k)'
  BY <1>3, SMT, SMTT(20) DEF Get, IInv, TypeOK, CallInv, BuildInv, RunInv, Matches, Failed, None
<1>4. ASSUME NEW i \in Inputs, Timeout(i) PROVE RunInv(k)'
  BY <1>4, SMT, SMTT(20) DEF Timeout, TimeoutError, Result, IInv, TypeOK, CallInv, BuildInv,
     RunInv, Matches, Failed, None
<1>5. ASSUME NEW i \in Inputs, ListChildren(i) PROVE RunInv(k)'
  BY <1>5, SMT, SMTT(20)
     DEF ListChildren, IInv, TypeOK, CallInv, BuildInv, RunInv, Matches, Failed, None
<1>6. ASSUME NEW i \in Inputs, NEW h \in Helper, SendSignal(i, h) PROVE RunInv(k)'
  BY <1>6 DEF SendSignal, IInv, TypeOK, CallInv, BuildInv, RunInv, Matches, Failed, None
<1>7. ASSUME NEW i \in Inputs, Terminate(i) PROVE RunInv(k)'
  BY <1>7, SMT, SMTT(20)
     DEF Terminate, IInv, TypeOK, CallInv, BuildInv, RunInv, Matches, Failed, None
<1>8. ASSUME NEW i \in Inputs, Return(i) PROVE RunInv(k)'
    BY <1>8, SMT, SMTT(20) DEF Return, Joined, BuildResult, MeasureResult, Result,
       TimeoutError, Exception, IInv, TypeOK,
    CallInv, BuildInv, RunInv, Matches, Failed, None
<1>9. ASSUME NEW i \in Inputs, Deserialize(i) PROVE RunInv(k)'
    BY <1>9, SMT, SMTT(20) DEF Deserialize, Continues, Answers, Exception, Result, IInv,
       TypeOK, CallInv, BuildInv, RunInv,
    Matches, Failed, None
<1>10. ASSUME NEW i \in Inputs, Instantiate(i) PROVE RunInv(k)'
    BY <1>10, Zenon DEF Instantiate, Continues, Answers, Result, IInv, TypeOK, CallInv,
       BuildInv, RunInv, Matches,
    Failed, None
<1>11. ASSUME NEW i \in Inputs, Compile(i) PROVE RunInv(k)'
  BY <1>11, Zenon DEF Compile, Answers, Result, IInv, TypeOK, CallInv, BuildInv, RunInv,
     Matches, Failed, None
<1>12. ASSUME NEW i \in Inputs, Load(i) PROVE RunInv(k)'
  BY <1>12, SMT, SMTT(20)
     DEF Load, Continues, Result, IInv, TypeOK, CallInv, BuildInv, RunInv, Matches, Failed, None
<1>13. ASSUME NEW i \in Inputs, TimeEvaluator(i) PROVE RunInv(k)'
  BY <1>13, SMT, SMTT(20) DEF TimeEvaluator, Result, LastAttempt, IInv, TypeOK, CallInv,
     BuildInv, RunInv, Matches, Failed, None
<1>14. ASSUME NEW i \in Inputs, RunFails(i) PROVE RunInv(k)'
  BY <1>14, SMT, SMTT(20)
     DEF RunFails, Result, IInv, TypeOK, CallInv, BuildInv, RunInv, Matches, Failed, None
<1>15. ASSUME NEW i \in Inputs, Clean(i) PROVE RunInv(k)'
  <2>1. CASE k # i
    BY <1>15, <2>1, SMT, SMTT(20) DEF Clean, Continues, IInv, TypeOK, RunInv, Matches, Failed
  <2>2. CASE k = i
    <3>1. child'[i] = "put" /\ child[i] = "clean" /\ call[i] # "todo" /\ phase # "build"
      BY <1>15, Zenon DEF Clean, Continues, IInv, TypeOK, CallInv, BuildInv
    <3>2. UNCHANGED <<call, answer, que, results>>
      BY <1>15, Zenon DEF Clean, Continues
    <3>3. QED BY <2>2, <3>1, <3>2, Zenon DEF IInv, RunInv, Matches
  <2>3. QED BY <2>1, <2>2, Zenon
<1>16. ASSUME NEW i \in Inputs, Put(i) PROVE RunInv(k)'
  BY <1>16, SMT, SMTT(20)
     DEF Put, IInv, TypeOK, CallInv, BuildInv, RunInv, Matches, Failed, None
<1>17. ASSUME NEW i \in Inputs, Crash(i) PROVE RunInv(k)'
  BY <1>17, SMT, SMTT(20)
     DEF Crash, Alive, IInv, TypeOK, CallInv, BuildInv, RunInv, Matches, Failed, None
<1>18. ASSUME NEW i \in Inputs, Busy(i) PROVE RunInv(k)'
  BY <1>18, SMT, SMTT(20)
     DEF Busy, vars, IInv, TypeOK, CallInv, BuildInv, RunInv, Matches, Failed, None
<1>19. ASSUME NEW i \in Inputs, NEW h \in Helper, Spawn(i, h) PROVE RunInv(k)'
  BY <1>19, SMT, SMTT(20)
     DEF Spawn, IInv, TypeOK, CallInv, BuildInv, RunInv, Matches, Failed, None
<1>20. ASSUME NEW i \in Inputs, NEW h \in Helper, HelperExits(i, h) PROVE RunInv(k)'
  BY <1>20, SMT, SMTT(20)
     DEF HelperExits, IInv, TypeOK, CallInv, BuildInv, RunInv, Matches, Failed, None
<1>21. ASSUME Run PROVE RunInv(k)'
  BY <1>21, SMT, SMTT(20)
     DEF Run, IInv, TypeOK, CallInv, BuildInv, RunInv, Matches, Failed, None
<1>22. ASSUME SilentMeasured PROVE RunInv(k)'
  BY <1>22 DEF SilentMeasured, IInv, TypeOK, CallInv, BuildInv, RunInv, Matches, Failed, None
<1>23. ASSUME NextBatch PROVE RunInv(k)'
  BY <1>23, Zenon DEF NextBatch, IInv, TypeOK, CallInv, BuildInv, RunInv, Matches, Failed, None
<1>24. QED BY <1>1, <1>2, <1>3, <1>4, <1>5, <1>6, <1>7, <1>8, <1>9, <1>10, <1>11, <1>12, <1>13,
              <1>14, <1>15,
  <1>16, <1>17, <1>18, <1>19, <1>20, <1>21, <1>22, <1>23, Zenon DEF Next, Caller, Child

\* In the run phase, an answer is put when the directory is gone.
LEMMA CleanStep ==
  ASSUME CleanedInv, NEW k \in Inputs, Next
  PROVE  CleanInv(k)'
<1>1. ASSUME NEW i \in Inputs, Skip(i) PROVE CleanInv(k)'
  BY <1>1, SMT, SMTT(20) DEF Skip, Turn, Failed, Result, IInv, TypeOK, CallInv, BuildInv,
     RunInv, CleanedInv, CleanInv, None
<1>2. ASSUME NEW i \in Inputs, Start(i) PROVE CleanInv(k)'
  BY <1>2 DEF Start, Turn, Failed, IInv, TypeOK, CallInv, BuildInv, RunInv, CleanedInv,
     CleanInv, None
<1>3. ASSUME NEW i \in Inputs, Get(i) PROVE CleanInv(k)'
  BY <1>3, Zenon
     DEF Get, IInv, TypeOK, CallInv, BuildInv, RunInv, CleanedInv, CleanInv, Failed, None
<1>4. ASSUME NEW i \in Inputs, Timeout(i) PROVE CleanInv(k)'
  BY <1>4, Zenon DEF Timeout, TimeoutError, Result, IInv, TypeOK, CallInv, BuildInv, RunInv,
     CleanedInv, CleanInv, Failed, None
<1>5. ASSUME NEW i \in Inputs, ListChildren(i) PROVE CleanInv(k)'
  BY <1>5, Zenon DEF ListChildren, IInv, TypeOK, CallInv, BuildInv, RunInv, CleanedInv,
     CleanInv, Failed, None
<1>6. ASSUME NEW i \in Inputs, NEW h \in Helper, SendSignal(i, h) PROVE CleanInv(k)'
  BY <1>6, Zenon
     DEF SendSignal, IInv, TypeOK, CallInv, BuildInv, RunInv, CleanedInv, CleanInv, Failed, None
<1>7. ASSUME NEW i \in Inputs, Terminate(i) PROVE CleanInv(k)'
  BY <1>7
     DEF Terminate, IInv, TypeOK, CallInv, BuildInv, RunInv, CleanedInv, CleanInv, Failed, None
<1>8. ASSUME NEW i \in Inputs, Return(i) PROVE CleanInv(k)'
    BY <1>8, SMT, SMTT(20) DEF Return, Joined, BuildResult, MeasureResult, Result,
       TimeoutError, Exception, IInv, TypeOK,
    CallInv, BuildInv, RunInv, CleanedInv, CleanInv, Failed, None
<1>9. ASSUME NEW i \in Inputs, Deserialize(i) PROVE CleanInv(k)'
    BY <1>9, SMT, SMTT(20) DEF Deserialize, Continues, Answers, Exception, Result, IInv,
       TypeOK, CallInv, BuildInv, RunInv, CleanedInv, CleanInv, Failed, None
<1>10. ASSUME NEW i \in Inputs, Instantiate(i) PROVE CleanInv(k)'
  <2>1. phase = "build"
    BY <1>10, Zenon DEF Instantiate, CleanedInv, IInv, RunInv, BuildInv
  <2>2. CASE k = i
    BY <1>10, <2>1, <2>2, SMT, SMTT(20)
       DEF Instantiate, Continues, Answers, Result, CleanedInv, CleanInv, IInv, TypeOK
  <2>3. CASE k # i
    BY <1>10, <2>1, <2>3, Zenon
       DEF Instantiate, Continues, Answers, CleanedInv, CleanInv, IInv, TypeOK
  <2>4. QED BY <2>2, <2>3, Zenon
<1>11. ASSUME NEW i \in Inputs, Compile(i) PROVE CleanInv(k)'
  <2>1. phase = "build"
    BY <1>11, Zenon DEF Compile, CleanedInv, IInv, RunInv, BuildInv
  <2>2. CASE k = i
    BY <1>11, <2>1, <2>2, SMT, SMTT(20)
       DEF Compile, Answers, Result, CleanedInv, CleanInv, IInv, TypeOK
  <2>3. CASE k # i
    BY <1>11, <2>1, <2>3, Zenon DEF Compile, Answers, CleanedInv, CleanInv, IInv, TypeOK
  <2>4. QED BY <2>2, <2>3, Zenon
<1>12. ASSUME NEW i \in Inputs, Load(i) PROVE CleanInv(k)'
  BY <1>12, SMT, SMTT(20) DEF Load, Continues, Result, IInv, TypeOK, CallInv, BuildInv, RunInv,
     CleanedInv, CleanInv, Failed, None
<1>13. ASSUME NEW i \in Inputs, TimeEvaluator(i) PROVE CleanInv(k)'
  BY <1>13, SMT, SMTT(20) DEF TimeEvaluator, Result, LastAttempt, IInv, TypeOK, CallInv,
     BuildInv, RunInv, CleanedInv, CleanInv, Failed, None
<1>14. ASSUME NEW i \in Inputs, RunFails(i) PROVE CleanInv(k)'
  BY <1>14 DEF RunFails, Result, IInv, TypeOK, CallInv, BuildInv, RunInv, CleanedInv, CleanInv,
     Failed, None
<1>15. ASSUME NEW i \in Inputs, Clean(i) PROVE CleanInv(k)'
  BY <1>15 DEF Clean, Continues, IInv, TypeOK, CallInv, BuildInv, RunInv, CleanedInv, CleanInv,
     Failed, None
<1>16. ASSUME NEW i \in Inputs, Put(i) PROVE CleanInv(k)'
  BY <1>16 DEF Put, IInv, TypeOK, CallInv, BuildInv, RunInv, CleanedInv, CleanInv, Failed, None
<1>17. ASSUME NEW i \in Inputs, Crash(i) PROVE CleanInv(k)'
  BY <1>17 DEF Crash, Alive, IInv, TypeOK, CallInv, BuildInv, RunInv, CleanedInv, CleanInv,
     Failed, None
<1>18. ASSUME NEW i \in Inputs, Busy(i) PROVE CleanInv(k)'
  BY <1>18, Zenon
     DEF Busy, vars, IInv, TypeOK, CallInv, BuildInv, RunInv, CleanedInv, CleanInv, Failed, None
<1>19. ASSUME NEW i \in Inputs, NEW h \in Helper, Spawn(i, h) PROVE CleanInv(k)'
  BY <1>19, Zenon
     DEF Spawn, IInv, TypeOK, CallInv, BuildInv, RunInv, CleanedInv, CleanInv, Failed, None
<1>20. ASSUME NEW i \in Inputs, NEW h \in Helper, HelperExits(i, h) PROVE CleanInv(k)'
  BY <1>20, Zenon DEF HelperExits, IInv, TypeOK, CallInv, BuildInv, RunInv, CleanedInv,
     CleanInv, Failed, None
<1>21. ASSUME Run PROVE CleanInv(k)'
  BY <1>21, SMT, SMTT(20)
     DEF Run, IInv, TypeOK, CallInv, BuildInv, RunInv, CleanedInv, CleanInv, Failed, None
<1>22. ASSUME SilentMeasured PROVE CleanInv(k)'
  BY <1>22, Zenon DEF SilentMeasured, IInv, TypeOK, CallInv, BuildInv, RunInv, CleanedInv,
     CleanInv, Failed, None
<1>23. ASSUME NextBatch PROVE CleanInv(k)'
  BY <1>23, SMT, SMTT(20)
     DEF NextBatch, IInv, TypeOK, CallInv, BuildInv, RunInv, CleanedInv, CleanInv, Failed, None
<1>24. QED BY <1>1, <1>2, <1>3, <1>4, <1>5, <1>6, <1>7, <1>8, <1>9, <1>10, <1>11, <1>12, <1>13,
              <1>14, <1>15,
  <1>16, <1>17, <1>18, <1>19, <1>20, <1>21, <1>22, <1>23, Zenon DEF Next, Caller, Child

\* A local run begins when all inputs before it are done.
LEMMA OrderStep ==
  ASSUME IInv, Next
  PROVE  /\ (phase = "done" => \A k \in Inputs : call[k] = "done")'
         /\ ((phase = "run" /\ runner = "local") =>
              \A k, j \in Inputs : (call[k] # "todo" /\ j < k) => call[j] = "done")'
<1> DEFINE Order == (phase = "run" /\ runner = "local") =>
             \A k, j \in Inputs : (call[k] # "todo" /\ j < k) => call[j] = "done"
           Over == phase = "done" => \A k \in Inputs : call[k] = "done"
<1>1. ASSUME NEW i \in Inputs, Caller(i) PROVE Over' /\ Order'
  <2>1. CASE Skip(i)
    BY <2>1, Zenon DEF Skip, Turn, IInv, TypeOK, Inputs
  <2>2. CASE Start(i)
    BY <2>2, Zenon DEF Start, Turn, IInv, TypeOK, Inputs
  <2>3. CASE Get(i) \/ Timeout(i) \/ ListChildren(i) \/ Terminate(i) \/ Return(i)
    <3>1. call[i] \notin {"todo", "done"} /\ UNCHANGED <<phase, runner>>
      BY <2>3, Zenon DEF Get, Timeout, ListChildren, Terminate, Return, Joined
    <3>2. PICK c \in {"list", "signal", "join", "done"} : call' = [call EXCEPT ![i] = c]
      BY <2>3, Zenon DEF Get, Timeout, ListChildren, Terminate, Return
    <3>3. QED BY <3>1, <3>2, Zenon DEF IInv, TypeOK
  <2>4. CASE \E h \in Helper : SendSignal(i, h)
    BY <2>4, Zenon DEF SendSignal, IInv
  <2>5. QED BY <1>1, <2>1, <2>2, <2>3, <2>4, Zenon DEF Caller
<1>2. ASSUME NEW i \in Inputs, Child(i) PROVE UNCHANGED <<phase, runner, call>>
  BY <1>2, Zenon DEF Child, Deserialize, Instantiate, Compile, Load, TimeEvaluator, RunFails,
     Clean, Put, Crash, Busy,
    Spawn, HelperExits, vars
<1>3. CASE Run \/ SilentMeasured \/ NextBatch
  BY <1>3, Zenon DEF Run, SilentMeasured, NextBatch, IInv
<1>4. QED BY <1>1, <1>2, <1>3, Zenon DEF Next, IInv

\* IInv holds in every reachable state.
LEMMA Inductive == Spec => []IInv
<1>1. Init => IInv
  BY Outcomes, SMT, SMTT(20)
     DEF Init, IInv, TypeOK, CallInv, BuildInv, RunInv, Matches, Failed, None, max_retry
<1>2. IInv /\ [Next]_vars => IInv'
  <2>1. CASE Next
    BY <2>1, TypeStep, CallStep, BuildStep, RunStep, OrderStep, Zenon DEF IInv
  <2>2. CASE UNCHANGED vars
    BY <2>2, SMT, SMTT(20) DEF vars, IInv, TypeOK, CallInv, BuildInv, RunInv, Matches, Failed
  <2>3. QED BY <2>1, <2>2, Zenon
<1>3. QED BY <1>1, <1>2, PTL DEF Spec

\* A program that the local runner times shares the machine with no other
\* build or run, for every batch: the calls before it have returned, and a call
\* returns when its child is dead.
THEOREM TimedAlone == Spec => []MeasuredAlone
<1>1. IInv => MeasuredAlone
  <2>1. SUFFICES ASSUME IInv, runner = "local", NEW i \in Inputs, child[i] = "time",
                        NEW j \in Inputs, j # i
                 PROVE  ~Alive(j)
    BY Zenon DEF MeasuredAlone
  <2>2. phase = "run" /\ call[i] \notin {"todo", "done"}
    BY <2>1, Zenon DEF IInv, TypeOK, CallInv, BuildInv
  <2>3. call[j] \in {"todo", "done"}
    BY <2>1, <2>2, SMT, SMTT(20) DEF IInv, Inputs
  <2>4. QED BY <2>1, <2>3, Zenon DEF IInv, CallInv, Alive
<1>2. QED BY <1>1, Inductive, PTL

\* A run finds the library of its build, for every batch.
THEOREM LibraryFound == Spec => []LibraryIsThere
<1>1. IInv => LibraryIsThere
  BY Zenon DEF IInv, BuildInv, RunInv, LibraryIsThere
<1>2. QED BY <1>1, Inductive, PTL

\* A result has measured costs exactly when it has no error, for every batch.
THEOREM CostsGoWithSuccess == Spec => []CostsMeanSuccess
<1>1. IInv => CostsMeanSuccess
  BY Zenon DEF IInv, BuildInv, RunInv, Matches, CostsMeanSuccess
<1>2. QED BY <1>1, Inductive, PTL

\* A result that says the program was loaded, or could not be, leaves no
\* temporary directory, for every batch: the child removes it before it answers.
THEOREM RunsCleanUp == Spec => []CleanedUp
<1>1. Init => \A i \in Inputs : CleanInv(i)
  BY SMT, SMTT(20) DEF Init, CleanInv, None
<1>2. IInv /\ [Next]_vars /\ (\A i \in Inputs : CleanInv(i)) => (\A i \in Inputs : CleanInv(i))'
  <2>1. CASE Next
    BY <2>1, CleanStep, Zenon DEF CleanedInv
  <2>2. CASE UNCHANGED vars
    BY <2>2, Zenon DEF vars, CleanInv
  <2>3. QED BY <2>1, <2>2, Zenon
<1>3. IInv /\ (\A i \in Inputs : CleanInv(i)) => CleanedUp
  <2>1. SUFFICES ASSUME IInv, NEW i \in Inputs, CleanInv(i),
                        results[i].error_no \in {"NO_ERROR", "COMPILE_DEVICE"}
                 PROVE  dir[i] = "none"
    BY Zenon DEF CleanedUp
  <2>2. phase # "build"
    BY <2>1, SMT, SMTT(20) DEF IInv, BuildInv, None
  <2>3. QED BY <2>1, <2>2, Zenon DEF CleanInv
<1>4. QED BY <1>1, <1>2, <1>3, Inductive, PTL DEF Spec
=============================================================================
