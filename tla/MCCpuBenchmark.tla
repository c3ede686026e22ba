--------------------------- MODULE MCCpuBenchmark ---------------------------
(* A plan with one process start of each kind of measurement. *)
EXTENDS CpuBenchmark

ColdThenSteady == <<"cold", "steady">>
=============================================================================
