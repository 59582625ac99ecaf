------------------------------ MODULE PublishCI ------------------------------
(***************************************************************************)
(* scripts/publish-ci.ts: the jobs that archive the results of finished    *)
(* benchmark runs and promote them when their PR is merged, on clones of   *)
(* the remote data branch.  A job reads the PR from GitHub, works on its   *)
(* snapshot and its clone, and pushes; PRs change and other jobs push in   *)
(* between.  A step is one request to GitHub, or one push with the local   *)
(* work before it: the clone belongs to the job, which discards it when    *)
(* anything throws (ResultStore has the inside of storeRun and promoteRun).*)
(***************************************************************************)
EXTENDS RunRecords, Naturals, FiniteSets

CONSTANTS Bundles,      \* artifacts of benchmark runs; run = [id, attempt]
          TrustedSku,   \* publicationPolicy.expectedSkus on main
          MaxRunning,   \* jobs at a time; the workflow's queue makes it 1
          MaxChanges,   \* bound on changes of PRs
          MaxFailures,  \* bound on failing requests
          None          \* an absent file, PR or tree

Numbers == {b.pullRequest.number : b \in Bundles}
Of(n) == {b \in Bundles : b.pullRequest.number = n}
Heads(n) == {b.pullRequest.head : b \in Of(n)}
Bases(n) == {b.pullRequest.base : b \in Of(n)}

\* The source tree of a merge of head into base, as Git makes it.
MergeTree(base, head) == <<base, head>>
Trees(n) == {MergeTree(base, head) : base \in Bases(n), head \in Heads(n)}

PullRequests(n) ==
    [state : {"open", "closed", "merged"}, head : Heads(n), base : Bases(n),
     skip : BOOLEAN, tree : Trees(n) \cup {None}]

AllPullRequests == UNION {PullRequests(n) : n \in Numbers}

\* What starts a job: a finished run (or its rerun), or a push to main that
\* merged some PRs.
ArchiveEvents == [kind : {"archive"}, bundle : Bundles]
PushEvents == [kind : {"push"}, numbers : (SUBSET Numbers) \ {{}}]
Events == ArchiveEvents \cup PushEvents

ASSUME PublishAssumption ==
    /\ \A b \in Bundles : b.run.id \in Nat /\ b.run.attempt \in Nat
    /\ None \notin Bundles
    /\ MaxChanges \in Nat
    /\ MaxFailures \in Nat

VARIABLES
    pr,        \* GitHub: the PRs
    merges,    \* GitHub: the sets of PRs that were merged by one push
    status,    \* GitHub: head -> Benchmark Publication status
    remote,    \* the data branch
    jobs,      \* the job of each event
    skipped,   \* heads that a job has seen with the skip label
    changes,   \* changes of PRs so far
    failures   \* failed requests so far

github == <<pr, merges>>
bounds == <<changes, failures>>
vars == <<github, status, remote, jobs, skipped, bounds>>

AllHeads == {b.pullRequest.head : b \in Bundles}

Stores ==
    [runs : SUBSET Bundles,                           \* runs/ and policies/
     pending : [Numbers -> Bundles \cup {None}],      \* pending/pr-<n>.json
     published : [Numbers -> Bundles \cup {None}],    \* publications/pr-<n>.json
     index : SUBSET Bundles]                          \* index.json

EmptyStore ==
    [runs |-> {}, pending |-> [n \in Numbers |-> None],
     published |-> [n \in Numbers |-> None], index |-> {}]

Phases == {"idle", "opening", "reading", "reporting", "archiving", "rereading",
           "publishing", "succeeding", "failing"}

Idle == [phase |-> "idle", number |-> None, todo |-> {}, seen |-> None, clone |-> EmptyStore]

JobStates ==
    [phase : Phases, number : Numbers \cup {None}, todo : SUBSET Numbers,
     seen : AllPullRequests \cup {None}, clone : Stores]

TypeOK ==
    /\ pr \in [Numbers -> AllPullRequests]
    /\ \A n \in Numbers : pr[n] \in PullRequests(n)
    /\ merges \subseteq (SUBSET Numbers) \ {{}}
    /\ status \in [AllHeads -> {"none", "pending", "success", "failure"}]
    /\ remote \in Stores
    /\ jobs \in [Events -> JobStates]
    /\ skipped \subseteq AllHeads
    /\ changes \in 0 .. MaxChanges
    /\ failures \in 0 .. MaxFailures

Init ==
    /\ pr \in [Numbers -> AllPullRequests]
    /\ \A n \in Numbers : /\ pr[n] \in PullRequests(n)
                          /\ pr[n].state = "open" /\ ~pr[n].skip /\ pr[n].tree = None
    /\ merges = {}
    /\ status = [h \in AllHeads |-> "none"]
    /\ remote = EmptyStore
    /\ jobs = [e \in Events |-> Idle]
    /\ skipped = {}
    /\ changes = 0
    /\ failures = 0

-----------------------------------------------------------------------------
(* GitHub.                                                                 *)

Change(n, fields) ==
    /\ changes < MaxChanges
    /\ changes' = changes + 1
    /\ pr' = [pr EXCEPT ![n] = fields]
    /\ UNCHANGED <<merges, status, remote, jobs, skipped, failures>>

Open(n) == pr[n].state = "open"

\* Every push to a PR starts a run, so the runs of its later heads are newer.
\* A PR never goes back to an earlier head: the force-push that would make it
\* is left out.
PushHead(n) ==
    /\ Open(n)
    /\ \E h \in Heads(n) :
        /\ \A old, new \in Of(n) :
            old.pullRequest.head = pr[n].head /\ new.pullRequest.head = h => old.run.id < new.run.id
        /\ Change(n, [pr[n] EXCEPT !.head = h])
MoveBase(n) == Open(n) /\ \E b \in Bases(n) \ {pr[n].base} : Change(n, [pr[n] EXCEPT !.base = b])
Relabel(n) == Change(n, [pr[n] EXCEPT !.skip = ~@])
Close(n) == Open(n) /\ Change(n, [pr[n] EXCEPT !.state = "closed"])

(* One push merges PRs, each onto a base that may not be the recorded one. *)
Merge(numbers) ==
    /\ changes < MaxChanges
    /\ \A n \in numbers : Open(n)
    /\ \E onto \in [numbers -> UNION {Bases(n) : n \in numbers}] :
        /\ \A n \in numbers : onto[n] \in Bases(n)
        /\ pr' = [n \in Numbers |->
                    IF n \in numbers
                    THEN [pr[n] EXCEPT !.state = "merged", !.tree = MergeTree(onto[n], pr[n].head)]
                    ELSE pr[n]]
    /\ merges' = merges \cup {numbers}
    /\ changes' = changes + 1
    /\ UNCHANGED <<status, remote, jobs, skipped, failures>>

-----------------------------------------------------------------------------
(* Jobs.                                                                   *)

Running == {e \in Events : jobs[e].phase # "idle"}
At(e, phase) == jobs[e].phase = phase
Archiving(e) == e.kind = "archive"
Head(e) == jobs[e].seen.head

Step(e, fields) == jobs' = [jobs EXCEPT ![e] = fields]
Goto(e, phase) == Step(e, [jobs[e] EXCEPT !.phase = phase])

Start(e) ==
    /\ At(e, "idle")
    /\ Cardinality(Running) < MaxRunning
    /\ ~Archiving(e) => e.numbers \in merges
    /\ Step(e, IF Archiving(e)
               THEN [Idle EXCEPT !.phase = "reading", !.todo = {e.bundle.pullRequest.number}]
               ELSE [Idle EXCEPT !.phase = "opening", !.todo = e.numbers])
    /\ UNCHANGED <<github, status, remote, skipped, bounds>>

(* main reads a PR whose head gets the status.  An archival of another     *)
(* head ends here, without a status.                                       *)
ReadPR(e) ==
    /\ At(e, "reading")
    /\ \E n \in jobs[e].todo :
        Step(e, IF Archiving(e) => pr[n].head = e.bundle.pullRequest.head
                THEN [jobs[e] EXCEPT !.phase = "reporting", !.number = n,
                                     !.todo = @ \ {n}, !.seen = pr[n]]
                ELSE Idle)
    /\ UNCHANGED <<github, status, remote, skipped, bounds>>

(* withPublicationStatus, before the operation.                            *)
ReportPending(e) ==
    /\ At(e, "reporting")
    /\ status' = [status EXCEPT ![Head(e)] = "pending"]
    /\ Goto(e, IF Archiving(e) THEN "opening" ELSE "rereading")
    /\ UNCHANGED <<github, remote, skipped, bounds>>

ArchivePolicy(bundle) ==
    [version |-> bundle.version, settings |-> bundle.settings,
     catalog |-> bundle.catalog, sku |-> TrustedSku]

(* verifyCandidate, on what the job has read of the PR.                    *)
CandidateOf(bundle, seen) ==
    /\ bundle.pullRequest.head = seen.head
    /\ bundle.tree = MergeTree(bundle.pullRequest.base, bundle.pullRequest.head)
    /\ seen.state # "merged" => bundle.pullRequest.base = seen.base

Archivable(bundle, seen) ==
    /\ seen.state # "closed"
    /\ PublishableRun(bundle, ArchivePolicy(bundle))
    /\ CandidateOf(bundle, seen)

(* openStore; for an archival, after everything that can refuse it.        *)
OpenStore(e) ==
    /\ At(e, "opening")
    /\ IF Archiving(e)
       THEN IF jobs[e].seen.skip
            THEN /\ Goto(e, "succeeding")
                 /\ skipped' = skipped \cup {Head(e)}
            ELSE /\ Step(e, IF Archivable(e.bundle, jobs[e].seen)
                            THEN [jobs[e] EXCEPT !.phase = "archiving", !.clone = remote]
                            ELSE [jobs[e] EXCEPT !.phase = "failing"])
                 /\ UNCHANGED skipped
       ELSE /\ Step(e, [jobs[e] EXCEPT !.phase = "reading", !.clone = remote])
            /\ UNCHANGED skipped
    /\ UNCHANGED <<github, status, remote, bounds>>

\* Mutant: a refused push is taken for a push.
PushIgnoringRefusal(e, store, next) ==
    /\ remote' = IF remote = jobs[e].clone THEN store ELSE remote
    /\ Step(e, [jobs[e] EXCEPT !.phase = next, !.clone = store])

(* pushStore commits what changed in the clone; Git refuses the push when  *)
(* the branch has moved on.                                                *)
Push(e, store, next) ==
    IF store = jobs[e].clone
    THEN Goto(e, next) /\ UNCHANGED remote
    ELSE IF remote = jobs[e].clone
         THEN /\ remote' = store
              /\ Step(e, [jobs[e] EXCEPT !.phase = next, !.clone = store])
         ELSE Goto(e, "failing") /\ UNCHANGED remote

(* The pending pointer follows the newest run, and its newest attempt.     *)
\* Runs are created in the order of their ids; attempts share it.
NewerRun(pointer, bundle) ==
    \/ pointer = None
    \/ pointer.run.id < bundle.run.id
    \/ pointer.run.id = bundle.run.id /\ pointer.run.attempt <= bundle.run.attempt

\* Mutant: the last archival wins, whichever run is newer.
ArchivedLast(store, bundle) ==
    [store EXCEPT !.runs = @ \cup {bundle}, !.pending[bundle.pullRequest.number] = bundle]

Archived(store, bundle) ==
    LET n == bundle.pullRequest.number IN
    [store EXCEPT !.runs = @ \cup {bundle},
                  !.pending[n] = IF NewerRun(@, bundle) THEN bundle ELSE @]

\* Mutant: promotion is left to the push event.
PushArchiveOnly(e) ==
    /\ At(e, "archiving")
    /\ Push(e, Archived(jobs[e].clone, e.bundle), "succeeding")
    /\ UNCHANGED <<github, status, skipped, bounds>>

PushArchive(e) ==
    /\ At(e, "archiving")
    /\ Push(e, Archived(jobs[e].clone, e.bundle),
            IF jobs[e].seen.state = "merged" THEN "rereading" ELSE "succeeding")
    /\ UNCHANGED <<github, status, skipped, bounds>>

(* promote reads the PR again.                                             *)
RereadPR(e) ==
    /\ At(e, "rereading")
    /\ LET now == pr[jobs[e].number] IN
       /\ Step(e, [jobs[e] EXCEPT !.seen = now,
                                  !.phase = CASE now.state # "merged" -> "failing"
                                              [] now.state = "merged" /\ now.skip -> "succeeding"
                                              [] OTHER -> "publishing"])
       /\ skipped' = IF now.state = "merged" /\ now.skip THEN skipped \cup {now.head} ELSE skipped
    /\ UNCHANGED <<github, status, remote, bounds>>

\* Mutant: the tree of the merge is not compared.
PromotableTree(store, n, seen) ==
    LET bundle == store.pending[n] IN
    /\ bundle # None
    /\ CandidateOf(bundle, seen)
    /\ store.published[n] \in {None, bundle}
    /\ Consistent(store.index \cup {bundle})

\* Mutant: the history is not grouped before the run joins it.
PromotableInconsistent(store, n, seen) ==
    LET bundle == store.pending[n] IN
    /\ bundle # None
    /\ CandidateOf(bundle, seen)
    /\ bundle.tree = seen.tree
    /\ store.published[n] \in {None, bundle}

\* Mutant: a later attempt may be published in place of the published one.
PromotableAgain(store, n, seen) ==
    LET bundle == store.pending[n] IN
    /\ bundle # None
    /\ CandidateOf(bundle, seen)
    /\ bundle.tree = seen.tree
    /\ Consistent(store.index \cup {bundle})

(* promote and promoteRun: the pending run is the candidate of the merged  *)
(* head, the merge has its tree, no other run is published for the PR, and *)
(* the history groups.                                                     *)
Promotable(store, n, seen) ==
    LET bundle == store.pending[n] IN
    /\ bundle # None
    /\ CandidateOf(bundle, seen)
    /\ PublicationMatches(bundle, [run |-> bundle.run, pullRequest |-> bundle.pullRequest,
                                   tree |-> seen.tree])
    /\ store.published[n] \in {None, bundle}
    /\ bundle \in store.index => store.published[n] # None
    /\ Consistent(store.index \cup {bundle})

Promoted(store, n) ==
    [store EXCEPT !.published[n] = store.pending[n], !.index = @ \cup {store.pending[n]}]

PushPromotion(e) ==
    /\ At(e, "publishing")
    /\ LET n == jobs[e].number
           store == jobs[e].clone
       IN IF Promotable(store, n, jobs[e].seen)
          THEN Push(e, Promoted(store, n), "succeeding")
          ELSE Goto(e, "failing") /\ UNCHANGED remote
    /\ UNCHANGED <<github, status, skipped, bounds>>

(* withPublicationStatus, after the operation; then the push's next PR.    *)
ReportSuccess(e) ==
    /\ At(e, "succeeding")
    /\ status' = [status EXCEPT ![Head(e)] = "success"]
    /\ Step(e, IF jobs[e].todo = {} THEN Idle ELSE [jobs[e] EXCEPT !.phase = "reading"])
    /\ UNCHANGED <<github, remote, skipped, bounds>>

ReportFailure(e) ==
    /\ At(e, "failing")
    /\ status' = [status EXCEPT ![Head(e)] = "failure"]
    /\ Step(e, Idle)
    /\ UNCHANGED <<github, remote, skipped, bounds>>

(* A request, a download or a Git command fails.  Inside the operation the *)
(* failure is reported; outside, or when that report fails, the job ends.  *)
Fail(e) ==
    /\ failures < MaxFailures
    /\ jobs[e].phase # "idle"
    /\ IF \/ Archiving(e) /\ At(e, "opening")
          \/ jobs[e].phase \in {"archiving", "rereading", "publishing", "succeeding"}
       THEN Goto(e, "failing")
       ELSE Step(e, Idle)
    /\ failures' = failures + 1
    /\ UNCHANGED <<github, status, remote, skipped, changes>>

JobStep(e) ==
    \/ ReadPR(e) \/ ReportPending(e) \/ OpenStore(e) \/ PushArchive(e)
    \/ RereadPR(e) \/ PushPromotion(e) \/ ReportSuccess(e) \/ ReportFailure(e)

Next ==
    \/ \E n \in Numbers : PushHead(n) \/ MoveBase(n) \/ Relabel(n) \/ Close(n)
    \/ \E numbers \in (SUBSET Numbers) \ {{}} : Merge(numbers)
    \/ \E e \in Events : Start(e) \/ JobStep(e) \/ Fail(e)

Spec == Init /\ [][Next]_vars

(* Jobs run to their end, and failed archivals of a merged PR are rerun, as*)
(* docs/results.md asks.  PRs need not change, and pushes need not be rerun.*)
FairSpec ==
    /\ Spec
    /\ \A e \in Events : WF_vars(JobStep(e))
    /\ \A e \in ArchiveEvents :
         SF_vars(pr[e.bundle.pullRequest.number].state = "merged" /\ Start(e))

-----------------------------------------------------------------------------
(* Properties.                                                             *)

(* What a reader of the data branch finds belongs together at every commit:*)
(* an entry in the index for each publication and no other, and an archived*)
(* bundle for each entry and each pending pointer.                         *)
BranchConsistent ==
    /\ remote.index = {remote.published[n] : n \in Numbers} \ {None}
    /\ remote.index \subseteq remote.runs
    /\ \A n \in Numbers : remote.pending[n] \in remote.runs \cup {None}

(* Only measurements of what was merged are published, although the PR is  *)
(* read, checked and published in steps between which it changes.          *)
PublishedWasMerged ==
    \A n \in Numbers : remote.published[n] # None =>
        /\ pr[n].state = "merged"
        /\ remote.published[n].pullRequest.number = n
        /\ remote.published[n].pullRequest.head = pr[n].head
        /\ remote.published[n].tree = pr[n].tree

(* A pending pointer never goes back to an older run or attempt, in        *)
(* whatever order the archivals of several runs arrive and end.            *)
PointerNeverGoesBack ==
    [][\A n \in Numbers : remote.pending[n] # None =>
          /\ remote'.pending[n] # None
          /\ NewerRun(remote.pending[n], remote'.pending[n])]_vars

(* The status of a commit says success only when results of that commit    *)
(* are on the data branch, or its PR was labelled to be skipped.           *)
SuccessIsRecorded ==
    \A h \in AllHeads : status[h] = "success" =>
        h \in skipped \/ \E b \in remote.runs : b.pullRequest.head = h

(* A merged PR is published in the end, whatever fails once and however its*)
(* archivals, its merge and the push event fall, if the newest run of its  *)
(* merged head measured what was merged, unless it is labelled to be       *)
(* skipped or does not group with the history.                             *)
MergedGetsPublished ==
    \A bundle \in Bundles :
        LET n == bundle.pullRequest.number IN
        (/\ pr[n].state = "merged"
         /\ pr[n].head = bundle.pullRequest.head
         /\ pr[n].tree = bundle.tree
         /\ PublishableRun(bundle, ArchivePolicy(bundle))
         /\ \A other \in Of(n) :
              other.pullRequest.head = pr[n].head => NewerRun(other, bundle))
        ~> (remote.published[n] # None \/ pr[n].skip \/ ~Consistent(remote.index \cup {bundle}))

(* Every push of the branch that publishes a PR is one Publish of the      *)
(* abstract history, the same that ResultStore implements.                 *)
Abstract == INSTANCE PublishedHistory WITH history <- remote.index
ImplementsPublishedHistory == Abstract!Spec

=============================================================================
