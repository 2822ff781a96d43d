------------------------- MODULE MCProgramMeasurer -------------------------
(* Instances of ProgramMeasurer: two workloads, batches of two. *)
EXTENDS ProgramMeasurer, TLC

CONSTANTS k1, k2

(* k1 is a convolution, say, and k2 a transpose. *)
Flops == (k1 :> 1) @@ (k2 :> 0)
=============================================================================
