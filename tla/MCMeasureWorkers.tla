--------------------------- MODULE MCMeasureWorkers ---------------------------
(* The builder and the runners for TLC. *)
EXTENDS MeasureWorkers

CONSTANT h1

OneHelper == {h1}
===============================================================================
