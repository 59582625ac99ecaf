-------------------------- MODULE PublishedHistory --------------------------
(***************************************************************************)
(* What the result store promises its readers, without files, locks or     *)
(* processes: a set of runs that only grows, one run per pull request, in   *)
(* which every benchmark version has one meaning.                           *)
(***************************************************************************)
EXTENDS RunRecords

CONSTANT Bundles   (* every run bundle that could be measured *)

VARIABLE history   (* the runs the index lists *)

Init == history = {}

(* A complete measured run joins the history if no run of its PR has.       *)
Publish(bundle) ==
    /\ CompleteRun(bundle)
    /\ bundle.source = "published"
    /\ \A other \in history : other.pullRequest.number # bundle.pullRequest.number
    /\ Consistent(history \cup {bundle})
    /\ history' = history \cup {bundle}

Next == \E bundle \in Bundles : Publish(bundle)

Spec == Init /\ [][Next]_history

=============================================================================
