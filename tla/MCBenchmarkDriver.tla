------------------------- MODULE MCBenchmarkDriver -------------------------
(* Two configurations, so that a second driver follows a first one.         *)
EXTENDS BenchmarkDriver

=============================================================================
