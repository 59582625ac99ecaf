----------------------------- MODULE MCSitePages -----------------------------
(* One PR with previews, measured at one of its two heads, and two merged   *)
(* ones whose results join the history: one that groups with the PR's, with *)
(* one runtime more, and one that changes the settings of the version.      *)
EXTENDS SitePages, HistoryGroups

Result(id, number, head, settings, runtimes) ==
    [run |-> [id |-> id, attempt |-> 1],
     pullRequest |-> [number |-> number, head |-> head, base |-> "m1"],
     tree |-> id, source |-> "published", complete |-> TRUE,
     version |-> 1, settings |-> settings, catalog |-> [r \in runtimes |-> "jit"], sku |-> "D4"]

Own == Result(1, 1, "a", "fast", {"native"})
Wider == Result(2, 2, "x", "fast", {"native", "wasm"})
Clash == Result(3, 3, "y", "slow", {"native"})

\* The PR starts at the base it was measured at: open at the measured head with
\* its result, or not open and without one (its head is then of no interest:
\* List gives it one).  Changes lead to the other cases.
MCInit ==
    /\ Init
    /\ \A n \in PRs : /\ pr[n].head = "a" /\ pr[n].base = "m1"
                      /\ pr[n].listed <=> data.pending[n] # None

MCSpec == MCInit /\ [][Next]_vars /\ Fairness

MCPRs == {1}
MCBundles == {Own, Wider, Clash}

\* Histories of up to three bundles, that agree and that do not.
Samples == MCBundles \cup {[Wider EXCEPT !.catalog["wasm"] = "interpreter"],
                           [Clash EXCEPT !.version = 2],
                           [Own EXCEPT !.source = "local", !.run.attempt = 2]}

ASSUME GroupingIsPairwise ==
    \A n \in 0 .. 3 : \A ordered \in [1 .. n -> Samples] :
        GroupHistories(ordered) <=>
            DistinctRuns(ordered) /\ Consistent({ordered[i] : i \in DOMAIN ordered})

=============================================================================
