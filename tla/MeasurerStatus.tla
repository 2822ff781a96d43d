--------------------------- MODULE MeasurerStatus ---------------------------
(***************************************************************************)
(* What a ProgramMeasurer (src/auto_scheduler/measure.cc) remembers of the *)
(* programs it measured, per workload key: the best state, its index and   *)
(* whether any measurement succeeded.  A result is a record of a state and *)
(* its cost, MaxFloat for a measurement that failed.  The best flops of    *)
(* the code are the smallest cost here, MaxFloat standing for 0 flops.     *)
(***************************************************************************)
EXTENDS Integers, Sequences

CONSTANTS Keys,      \* workload keys
          FlopCt,    \* per key: task->compute_dag->flop_ct
          MaxFloat,  \* the cost of a failed measurement
          NoState    \* the undefined State()

(* Reset; a new measurer starts like this too. *)
ResetStatus ==
  [ct |-> 0, error_ct |-> 0, has_valid |-> {},
   best_cost |-> [k \in Keys |-> MaxFloat],
   best_state |-> [k \in Keys |-> NoState],
   best_ct |-> [k \in Keys |-> 0]]

(* The loop over a batch in Measure, for one result. *)
Remember(m, key, r) ==
  [m EXCEPT !.best_cost[key] = r.cost,
            !.best_state[key] = r.state,
            !.best_ct[key] = m.ct]

Count(m, key, ok) ==
  [m EXCEPT !.ct = @ + 1,
            !.error_ct = IF ok THEN 0 ELSE @ + 1,
            !.has_valid = IF ok THEN @ \cup {key} ELSE @]

Account_TiesWin(m, key, r) ==
  LET ok == r.cost # MaxFloat
      better == ok /\ FlopCt[key] > 0 /\ r.cost <= m.best_cost[key]
  IN Count(IF better THEN Remember(m, key, r) ELSE m, key, ok)
Account_ErrorsAddUp(m, key, r) ==
  LET ok == r.cost # MaxFloat
      better == ok /\ FlopCt[key] > 0 /\ r.cost < m.best_cost[key]
  IN [Count(IF better THEN Remember(m, key, r) ELSE m, key, ok) EXCEPT
        !.error_ct = IF ok THEN m.error_ct ELSE @]
Account(m, key, r) ==
  LET ok == r.cost # MaxFloat
      better == ok /\ FlopCt[key] > 0 /\ r.cost < m.best_cost[key]
  IN Count(IF better THEN Remember(m, key, r) ELSE m, key, ok)

AccountAll(m, key, batch) ==
  LET after[i \in 0 .. Len(batch)] ==
        IF i = 0 THEN m ELSE Account(after[i - 1], key, batch[i])
  IN after[Len(batch)]
=============================================================================
