--------------------------- MODULE RequestService ---------------------------
(***************************************************************************)
(* What the server promises its HTTP clients, without workers, queues or   *)
(* sandboxes: an accepted request is computed at most once, answered only  *)
(* with its own computation, and answered at most once unless its client   *)
(* has left.                                                               *)
(***************************************************************************)
EXTENDS Naturals

CONSTANT Requests

VARIABLES accepted,   \* requests the server took on
          computed,   \* how often each request ran in a guest
          answered,   \* requests whose client got the result
          left        \* requests whose client went away

vars == <<accepted, computed, answered, left>>

Init ==
    /\ accepted = {}
    /\ computed = [r \in Requests |-> 0]
    /\ answered = {}
    /\ left = {}

Accept(r) ==
    /\ r \notin accepted
    /\ accepted' = accepted \cup {r}
    /\ UNCHANGED <<computed, answered, left>>

Compute(r) ==
    /\ r \in accepted
    /\ computed[r] = 0
    /\ computed' = [computed EXCEPT ![r] = 1]
    /\ UNCHANGED <<accepted, answered, left>>

Answer(r) ==
    /\ computed[r] = 1
    /\ r \notin answered \cup left
    /\ answered' = answered \cup {r}
    /\ UNCHANGED <<accepted, computed, left>>

Leave(r) ==
    /\ r \in accepted
    /\ r \notin answered \cup left
    /\ left' = left \cup {r}
    /\ UNCHANGED <<accepted, computed, answered>>

Next == \E r \in Requests : Accept(r) \/ Compute(r) \/ Answer(r) \/ Leave(r)

Spec == Init /\ [][Next]_vars

=============================================================================
