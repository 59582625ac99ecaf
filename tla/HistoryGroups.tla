--------------------------- MODULE HistoryGroups ---------------------------
(***************************************************************************)
(* How shared/results.ts groups a history: groupHistories and the walk of  *)
(* validateHistory over each group, bundle by bundle in the order of the   *)
(* runs' creation, with what it remembers of the bundles before.  The      *)
(* models use RunRecords!Consistent, which says the same of a set.         *)
(***************************************************************************)
EXTENDS RunRecords, Naturals, Sequences

\* settings stand for the benchmark's id, too.
Definition(bundle) == [version |-> bundle.version, settings |-> bundle.settings]

(* runKey is not repeated.                                                 *)
DistinctRuns(ordered) ==
    \A i, j \in DOMAIN ordered : ordered[i].run = ordered[j].run => i = j

(* Positions of the bundles of a group, which keep their order.            *)
Group(ordered, definition) == {i \in DOMAIN ordered : Definition(ordered[i]) = definition}

(* Where the maps runtimes and metrics have an id from, when the walk of a *)
(* group comes to position i: the last bundle that had it.                 *)
Previous(ordered, group, i, id) ==
    LET earlier == {j \in group : j < i /\ id \in DOMAIN ordered[j].catalog}
    IN {j \in earlier : \A k \in earlier : k <= j}

(* validateHistory on a group returns.                                     *)
ValidHistory(ordered, group) ==
    \A i \in group : \A id \in DOMAIN ordered[i].catalog :
        \A j \in Previous(ordered, group, i, id) :
            ordered[j].catalog[id] = ordered[i].catalog[id]

(* groupHistories returns.                                                 *)
GroupHistories(ordered) ==
    /\ DistinctRuns(ordered)
    /\ \A i \in DOMAIN ordered : ordered[i].source = ordered[1].source
    /\ LET definitions == {Definition(ordered[i]) : i \in DOMAIN ordered}
       IN /\ \A first, second \in definitions : first.version = second.version => first = second
          /\ \A definition \in definitions :
               ValidHistory(ordered, Group(ordered, definition))

=============================================================================
