----------------------------- MODULE RunRecords -----------------------------
(***************************************************************************)
(* The records the publisher handles and the rules of shared/results.ts    *)
(* that decide which of them belong together.  All definitions are pure.   *)
(*                                                                         *)
(* A run bundle is a record                                                *)
(*   run          identity of the workflow run and attempt (the file name) *)
(*   pullRequest  [number, head, base] or a value without a number         *)
(*   tree         source tree that was measured                            *)
(*   source       "published", "local" or "synthetic"                      *)
(*   complete     every expected configuration has a successful result     *)
(*   version, settings   the benchmark definition                          *)
(*   catalog      function from runtime and metric ids to the parts of     *)
(*                their definitions that comparisons depend on             *)
(*   sku          the machine the measurements ran on                      *)
(* A publication is [run, pullRequest, tree]: the promotion of one run as  *)
(* the result of one merged PR, with the tree that was merged.             *)
(***************************************************************************)

(* validateCompleteRun, for a bundle whose references are already checked. *)
CompleteRun(bundle) == bundle.complete

(* validatePublishableRun: measured results that agree with the policy.    *)
PublishableRun(bundle, policy) ==
    /\ CompleteRun(bundle)
    /\ bundle.source = "published"
    /\ bundle.version = policy.version
    /\ bundle.settings = policy.settings
    /\ bundle.catalog = policy.catalog
    /\ bundle.sku = policy.sku

(* validatePublication: the publication names this run, the revisions it   *)
(* measured, and a merge with the measured source tree.                    *)
PublicationMatches(bundle, publication) ==
    /\ bundle.source = "published"
    /\ bundle.run = publication.run
    /\ bundle.pullRequest = publication.pullRequest
    /\ bundle.tree = publication.tree

(* parseHistoryRun: what an index entry must refer to.                     *)
HistoryRun(bundle, run) ==
    /\ CompleteRun(bundle)
    /\ bundle.source = "published"
    /\ bundle.run = run

(* The ids two catalogs share keep their definitions.                      *)
CatalogsAgree(first, second) ==
    \A id \in DOMAIN first \cap DOMAIN second : first[id] = second[id]

Compatible(first, second) ==
    /\ first.source = second.source
    /\ first.version = second.version =>
         /\ first.settings = second.settings
         /\ CatalogsAgree(first.catalog, second.catalog)

(* groupHistories returns (instead of throwing) on these bundles, no two   *)
(* of which have the same run identity: HistoryGroups has the walk, which  *)
(* is proved to accept exactly these sets.                                 *)
Consistent(bundles) == \A first, second \in bundles : Compatible(first, second)

=============================================================================
