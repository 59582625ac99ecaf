---------------------------- MODULE MCResultStore ----------------------------
(* Two commands at a time over PR 1, measured twice (a run and its retry),  *)
(* and PR 2, whose run exists in two versions: one that groups with PR 1's  *)
(* runs and one that changes the settings of their benchmark version.  One  *)
(* publication names a tree that PR 2's run did not measure.                *)
EXTENDS ResultStore

CONSTANTS w1, w2

MCWriters == {w1, w2}

Runtime(definition) == [id \in {"native"} |-> definition]

Policy(settings) ==
    [version |-> 1, settings |-> settings, catalog |-> Runtime("jit"), sku |-> "D4"]

Bundle(run, number, settings) ==
    [run |-> run, pullRequest |-> [number |-> number], tree |-> number,
     source |-> "published", complete |-> TRUE, version |-> 1,
     settings |-> settings, catalog |-> Runtime("jit"), sku |-> "D4"]

First == Bundle("100.1", 1, "fast")
Retry == Bundle("100.2", 1, "fast")
Other == Bundle("200.1", 2, "fast")
Clash == Bundle("200.1", 2, "slow")

MCBundles == {First, Retry, Other, Clash}

Merge(bundle) == [run |-> bundle.run, pullRequest |-> bundle.pullRequest, tree |-> bundle.tree]
Squashed == [Merge(Other) EXCEPT !.tree = 9]
MCPublications == {Merge(First), Merge(Retry), Merge(Other), Squashed}
MCPolicies == {Policy("fast"), Policy("slow")}

\* Without the retry, to check every property under fairness.
FewBundles == {First, Other, Clash}
FewPublications == {Merge(First), Merge(Other), Squashed}

=============================================================================
