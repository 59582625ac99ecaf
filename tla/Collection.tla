----------------------------- MODULE Collection -----------------------------
(***************************************************************************)
(* What collecting a set of measurements promises, without processes,      *)
(* signals or files: each configuration gets one result, which is final;   *)
(* nothing is measured after a failure, and a site names the collection    *)
(* only when all of it succeeded.                                          *)
(***************************************************************************)
EXTENDS Naturals

CONSTANT N      \* number of configurations, measured in order

VARIABLES
    results,    \* what each configuration's bundle tells of this collection
    named       \* the site's index names the collection

vars == <<results, named>>

Init ==
    /\ results = [c \in 1 .. N |-> "none"]
    /\ named = FALSE

(* A configuration is measured, well or badly, after all before it.        *)
Record(c, result) ==
    /\ results[c] = "none"
    /\ \A d \in 1 .. N : d < c => results[d] = "success"
    /\ results' = [results EXCEPT ![c] = result]
    /\ UNCHANGED named

Name ==
    /\ \A c \in 1 .. N : results[c] = "success"
    /\ named' = TRUE
    /\ UNCHANGED results

Next ==
    \/ \E c \in 1 .. N, result \in {"success", "failed"} : Record(c, result)
    \/ Name

Spec == Init /\ [][Next]_vars

=============================================================================
