----------------------------- MODULE MCPublishCI -----------------------------
(* PR 1 has two heads on two bases: its first run, a second attempt of it,  *)
(* and a run of the other head, which changes the settings of the benchmark *)
(* version.  PR 2's run can be published beside the first run of PR 1, and  *)
(* not beside that of the other head.                                       *)
EXTENDS PublishCI

Measured(id, attempt, number, head, base, settings) ==
    [run |-> [id |-> id, attempt |-> attempt],
     pullRequest |-> [number |-> number, head |-> head, base |-> base],
     tree |-> MergeTree(base, head), source |-> "published", complete |-> TRUE,
     version |-> 1, settings |-> settings, catalog |-> [runtime \in {"native"} |-> "jit"],
     sku |-> "D4"]

First == Measured(1, 1, 1, "a", "main1", "fast")
Again == Measured(1, 2, 1, "a", "main1", "fast")
Newer == Measured(2, 1, 1, "b", "main2", "slow")
Other == Measured(3, 1, 2, "c", "main1", "fast")

\* Two PRs, which one push may merge.
MCBundles == {First, Newer, Other}
MCSku == "D4"

\* Two jobs at a time, which the workflow's queue excludes: PR 1 alone.
RaceBundles == {First, Again, Newer}

=============================================================================
