--------------------------- MODULE MCSketchPolicy ---------------------------
(* Instances of SketchPolicy: three programs of one task. *)
EXTENDS SketchPolicy, TLC

CONSTANTS s1, s2, s3

Flops == [k \in Keys |-> 1]

(* Some programs have equal scores. *)
Draft == (s1 :> 1) @@ (s2 :> 2) @@ (s3 :> 2)
Learned == {(s1 :> 1) @@ (s2 :> 2) @@ (s3 :> 3), (s1 :> 2) @@ (s2 :> 1) @@ (s3 :> 1)}
OneModel == {(s1 :> 1) @@ (s2 :> 1) @@ (s3 :> 2)}

EmptyLog == {<<>>}

(* A state that failed first, and one with two successful records. *)
OldLog == {<<>>, <<[state |-> s1, cost |-> MaxFloat], [state |-> s2, cost |-> 1],
                   [state |-> s2, cost |-> 1]>>}
=============================================================================
