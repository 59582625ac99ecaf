---------------------------- MODULE MCSandboxPool ----------------------------
(* Two workers, so that a request queues behind an earlier one on its       *)
(* worker, and every strategy and kind of handler.                          *)
EXTENDS SandboxPool

CONSTANTS r1, r2, r3

MCRequests == {r1, r2, r3}

=============================================================================
