--------------------------- MODULE MCWorkloadRun ---------------------------
(* Two measurement jobs of two strategies, so that one job can be repeated  *)
(* while the other keeps its outputs, in three attempts.                    *)
EXTENDS WorkloadRun, TLC

CONSTANTS j1, j2, reload, reuse

MCJobs == {j1, j2}
MCStrategies == {reload, reuse}
Symmetry == Permutations(MCJobs) \cup Permutations(MCStrategies)

=============================================================================
