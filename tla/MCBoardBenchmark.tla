-------------------------- MODULE MCBoardBenchmark --------------------------
(* A plan with one process start of each kind. *)
EXTENDS BoardBenchmark

TwoStarts == <<"cold", "steady">>
=============================================================================
