-------------------------- MODULE MCCpuTimeObserver --------------------------
(* Two worker threads and a timeout of two ticks.                          *)
EXTENDS CpuTimeObserver

CONSTANTS w1, w2

MCWorkers == {w1, w2}

=============================================================================
