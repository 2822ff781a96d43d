---------------------------- MODULE SearchPolicy ----------------------------
(***************************************************************************)
(* What a search policy promises (include/tvm/auto_scheduler/              *)
(* search_policy.h): measured_states_set_ makes sure that "a measured      *)
(* state will never be measured again", in this process or in one that     *)
(* preloads the record file of this one.                                   *)
(***************************************************************************)
VARIABLES known,     \* measured_states_set_
          pending,   \* states handed to the measurer and not yet recorded
          recorded   \* states of the record file

policyVars == <<known, pending, recorded>>

(* A new policy preloads the record file, whatever it holds. *)
Init == known = recorded /\ pending = {}

(* A state is chosen for measurement: any state that is not known. *)
Offer ==
  \E s \in known' \ known :
    /\ known' = known \cup {s} /\ pending' = pending \cup {s}
    /\ UNCHANGED recorded

(* A batch reaches the record file: only states that it does not hold. *)
Record ==
  \E batch \in SUBSET (pending \ recorded) :
    /\ recorded' = recorded \cup batch /\ pending' = pending \ batch
    /\ UNCHANGED known

(* A call raises: what it has not recorded is lost, and stays known. *)
Drop == pending' = {} /\ UNCHANGED <<known, recorded>>

(* A new process. *)
Restart == known' = recorded /\ pending' = {} /\ UNCHANGED recorded

Next == Offer \/ Record \/ Drop \/ Restart

Spec == Init /\ [][Next]_policyVars
=============================================================================
