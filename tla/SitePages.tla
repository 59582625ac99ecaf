------------------------------ MODULE SitePages ------------------------------
(***************************************************************************)
(* The website: pages.yml with scripts/site-ci.ts and assemble-site.ts, the*)
(* preview builds it takes (preview.yml, preview-ci.ts), and a reader that *)
(* loads a page's history (src/data.ts) while the site is deployed over.   *)
(* A run of Pages reads main, the data branch and the PRs in requests of   *)
(* their own, assembles a site, and reads everything twice more before it  *)
(* deploys.  A step is one request, or the work between two.               *)
(***************************************************************************)
EXTENDS RunRecords, Naturals, Sequences

CONSTANTS PRs,          \* numbers of the PRs that have previews
          Bundles,      \* archived bundles; run = [id, attempt]
          Heads, Bases, \* commits of PRs
          MaxChanges,   \* bound on changes of main, data, PRs and builds
          MaxFaults,    \* bound on failing requests and repeated deploy jobs
          Root,         \* the page of production
          None          \* an absent file, PR, preview or run

Revisions == [head : Heads, base : Bases]

ASSUME SiteAssumption ==
    /\ PRs \subseteq Nat
    /\ Root \notin PRs
    /\ None \notin Bundles
    /\ None \notin Revisions
    /\ MaxChanges \in Nat /\ MaxFaults \in Nat
    /\ \A b \in Bundles : b = [run |-> b.run, pullRequest |-> b.pullRequest, tree |-> b.tree,
                               source |-> b.source, complete |-> b.complete,
                               version |-> b.version, settings |-> b.settings,
                               catalog |-> b.catalog, sku |-> b.sku]

VARIABLES
    main,      \* GitHub: commits of main so far
    data,      \* GitHub: the data branch, its commits counted by version
    pr,        \* GitHub: the PRs
    builds,    \* GitHub: the runs of PR Preview for each PR, oldest first
    queue,     \* runs of Pages that wait for the one before them
    run,       \* the run of Pages that is running
    kept,      \* a run whose deploy job may be repeated
    site,      \* what is deployed
    reader,    \* a dashboard that loads a history
    changes,   \* changes so far
    faults     \* failed requests and repeated deploy jobs so far

world == <<main, data, pr, builds, changes>>
pages == <<kept, site, faults>>
vars == <<world, queue, run, pages, reader>>

Listing == [n \in PRs |-> IF pr[n].listed THEN [head |-> pr[n].head, base |-> pr[n].base]
                                          ELSE None]
Required(n) == ~pr[n].skip

-----------------------------------------------------------------------------
(* What is assembled, and what a page shows.                               *)

\* Mutant: the pending bundle may have measured another head.
PreviewOfAnyHead(store, n, revision, required) ==
    LET pointer == store.pending[n]
        shown == required /\ pointer # None /\ pointer \notin store.published
    IN [head |-> revision.head, pending |-> IF shown THEN pointer ELSE None,
        runs |-> store.published \cup (IF shown THEN {pointer} ELSE {})]

(* A preview has the published runs, and the pending one if it measured    *)
(* this revision of the PR.                                                *)
PreviewOf(store, n, revision, required) ==
    LET pointer == store.pending[n]
        shown == /\ required /\ pointer # None
                 /\ pointer.pullRequest =
                      [number |-> n, head |-> revision.head, base |-> revision.base]
                 /\ pointer \notin store.published
    IN [head |-> revision.head, pending |-> IF shown THEN pointer ELSE None,
        runs |-> store.published \cup (IF shown THEN {pointer} ELSE {})]

Assembled(revision, store, open, previews) ==
    [main |-> revision, version |-> store.version, runs |-> store.published,
     previews |-> [n \in PRs |-> IF previews[n] = None THEN None
                                 ELSE PreviewOf(store, n, open[n], previews[n].required)]]

Pages(s) == {Root} \cup {n \in PRs : s.previews[n] # None}
Page(s, p) == IF p = Root THEN [head |-> None, pending |-> None, runs |-> s.runs]
                          ELSE s.previews[p]

(* assembleSite throws unless the histories of every page group.           *)
Groups(s) == \A p \in Pages(s) : Consistent(Page(s, p).runs)

(* A served bundle has the catalog of its whole group.                     *)
Served(bundle, runs) ==
    LET group == {b \in runs : b.version = bundle.version}
    IN [bundle EXCEPT !.catalog =
          [id \in UNION {DOMAIN b.catalog : b \in group} |->
             (CHOOSE b \in group : id \in DOMAIN b.catalog).catalog[id]]]

-----------------------------------------------------------------------------
(* Preview builds.                                                         *)

(* Successful builds of a head.                                            *)
Uploaded(n, head) ==
    {i \in DOMAIN builds[n] : builds[n][i].head = head /\ builds[n][i].state = "success"}

Running(state) == state \in {"checking", "building"}

\* A new run of PR Preview cancels the ones before it.
NewBuild(n, head) ==
    [builds EXCEPT ![n] =
       Append([i \in DOMAIN @ |-> IF Running(@[i].state) THEN [@[i] EXCEPT !.state = "failed"]
                                                         ELSE @[i]],
              [head |-> head, attempt |-> 1, state |-> "checking"])]

Fresh == [main |-> 0, data |-> [version |-> 0, published |-> {}, pending |-> [n \in PRs |-> None]],
          checkout |-> 0, open |-> [n \in PRs |-> None], previews |-> [n \in PRs |-> None],
          site |-> None, todo |-> {}, job |-> "assemble", step |-> "main",
          whole |-> FALSE,   \* what was read existed at one moment
          steady |-> {}]     \* PRs that have not changed since the deploy job began

\* Some PRs are open at first, and have been deployed with their previews.
Init ==
    /\ main = 1
    /\ data \in {[version |-> 1, published |-> {}, pending |-> p] :
                    p \in [PRs -> Bundles \cup {None}]}
    /\ \A n \in PRs : data.pending[n] # None => data.pending[n].pullRequest.number = n
    /\ pr \in [PRs -> [listed : BOOLEAN, head : Heads, base : Bases, skip : {FALSE}]]
    /\ builds = [n \in PRs |-> IF pr[n].listed
                               THEN <<[head |-> pr[n].head, attempt |-> 1, state |-> "success"]>>
                               ELSE <<>>]
    /\ queue = 0
    /\ run = None
    /\ kept = None
    /\ site = Assembled(main, data, Listing,
                        [n \in PRs |-> IF pr[n].listed THEN [required |-> TRUE] ELSE None])
    /\ reader = None
    /\ changes = 0
    /\ faults = 0

-----------------------------------------------------------------------------
(* GitHub and the publishers.  Events that start Pages add to its queue.   *)

Change(triggers) ==
    /\ changes < MaxChanges
    /\ changes' = changes + 1
    /\ queue' = IF triggers THEN queue + 1 ELSE queue
    /\ UNCHANGED <<pages, reader>>

ChangePR(n, fields, triggers) ==
    /\ pr' = [pr EXCEPT ![n] = fields]
    /\ run' = IF run = None THEN None ELSE [run EXCEPT !.steady = @ \ {n}]
    /\ Change(triggers)

PushMain ==
    /\ main' = main + 1
    /\ Change(TRUE)
    /\ UNCHANGED <<data, pr, builds, run>>

\* A merge is a push to main that closes a PR.
Merge(n) ==
    /\ pr[n].listed
    /\ main' = main + 1
    /\ ChangePR(n, [pr[n] EXCEPT !.listed = FALSE], TRUE)
    /\ UNCHANGED <<data, builds>>

\* publish-ci.ts archives and promotes; its output starts Pages.  A PR that is
\* promoted has been merged, which is more than that it is not listed.
Archive(bundle) ==
    LET n == bundle.pullRequest.number IN
    /\ n \in PRs
    /\ data.pending[n] # bundle
    /\ data' = [data EXCEPT !.version = @ + 1, !.pending[n] = bundle]
    /\ Change(TRUE)
    /\ UNCHANGED <<main, pr, builds, run>>

Promote(bundle) ==
    LET n == bundle.pullRequest.number IN
    /\ n \in PRs => ~pr[n].listed /\ data.pending[n] = bundle
    /\ bundle \notin data.published
    /\ HistoryRun(bundle, bundle.run)
    /\ Consistent(data.published \cup {bundle})
    /\ data' = [data EXCEPT !.version = @ + 1, !.published = @ \cup {bundle}]
    /\ Change(TRUE)
    /\ UNCHANGED <<main, pr, builds, run>>

\* Opened, reopened or marked ready: only a successful build starts Pages.
List(n) ==
    /\ ~pr[n].listed
    /\ \E head \in Heads :
         /\ builds' = NewBuild(n, head)
         /\ ChangePR(n, [pr[n] EXCEPT !.listed = TRUE, !.head = head], FALSE)
    /\ UNCHANGED <<main, data>>

\* Mutant: Pages does not listen to PRs that are closed or become drafts.
UnlistQuietly(n) ==
    /\ pr[n].listed
    /\ ChangePR(n, [pr[n] EXCEPT !.listed = FALSE], FALSE)
    /\ UNCHANGED <<main, data, builds>>

\* Closed without a merge, converted to a draft, or moved to another branch.
Unlist(n) ==
    /\ pr[n].listed
    /\ ChangePR(n, [pr[n] EXCEPT !.listed = FALSE], TRUE)
    /\ UNCHANGED <<main, data, builds>>

PushHead(n) ==
    /\ pr[n].listed
    /\ \E head \in Heads \ {pr[n].head} :
         /\ builds' = NewBuild(n, head)
         /\ ChangePR(n, [pr[n] EXCEPT !.head = head], TRUE)
    /\ UNCHANGED <<main, data>>

\* The PR leaves main for another branch and comes back: two edits of its base.
MoveBase(n) ==
    /\ pr[n].listed
    /\ \E base \in Bases \ {pr[n].base} : ChangePR(n, [pr[n] EXCEPT !.base = base], TRUE)
    /\ UNCHANGED <<main, data, builds>>

Relabel(n) ==
    /\ pr[n].listed
    /\ ChangePR(n, [pr[n] EXCEPT !.skip = ~@], TRUE)
    /\ UNCHANGED <<main, data, builds>>

SetBuild(n, i, fields) == builds' = [builds EXCEPT ![n][i] = fields]

\* The newest build of a PR is run again.
RerunBuild(n) ==
    /\ builds[n] # <<>>
    /\ LET i == Len(builds[n]) IN
       /\ ~Running(builds[n][i].state)
       /\ SetBuild(n, i, [builds[n][i] EXCEPT !.attempt = @ + 1, !.state = "checking"])
    /\ Change(FALSE)
    /\ UNCHANGED <<main, data, pr, run>>

(* preview-ci.ts: the PR must still be open at the head of the event.      *)
CheckRevision(n, i) ==
    /\ builds[n][i].state = "checking"
    /\ SetBuild(n, i, [builds[n][i] EXCEPT
         !.state = IF pr[n].listed /\ pr[n].head = builds[n][i].head THEN "building" ELSE "failed"])
    /\ UNCHANGED <<main, data, pr, queue, run, pages, reader, changes>>

\* Mutant: Pages does not wait for preview builds.
BuildEndsQuietly(n, i) ==
    /\ builds[n][i].state = "building"
    /\ \E outcome \in {"success", "failed"} :
         SetBuild(n, i, [builds[n][i] EXCEPT !.state = outcome])
    /\ UNCHANGED <<main, data, pr, queue, run, pages, reader, changes>>

BuildEnds(n, i) ==
    /\ builds[n][i].state = "building"
    /\ \E outcome \in {"success", "failed"} :
         /\ SetBuild(n, i, [builds[n][i] EXCEPT !.state = outcome])
         /\ queue' = IF outcome = "success" THEN queue + 1 ELSE queue
    /\ UNCHANGED <<main, data, pr, run, pages, reader, changes>>

World ==
    \/ PushMain
    \/ \E bundle \in Bundles : Archive(bundle) \/ Promote(bundle)
    \/ \E n \in PRs : Merge(n) \/ List(n) \/ Unlist(n) \/ PushHead(n) \/ MoveBase(n)
                        \/ Relabel(n) \/ RerunBuild(n)

BuildStep == \E n \in PRs : \E i \in DOMAIN builds[n] : CheckRevision(n, i) \/ BuildEnds(n, i)

-----------------------------------------------------------------------------
(* A run of Pages.                                                         *)

Loading == reader # None /\ reader.state = "loading"

At(step) == run # None /\ run.step = step
Go(fields) == run' = fields
\* The run fails.
Throw == run' = None
Listed(open) == {n \in PRs : open[n] # None}
Only == UNCHANGED <<world, queue, pages, reader>>

Start ==
    /\ queue > 0
    /\ run = None
    /\ queue' = queue - 1
    /\ Go([Fresh EXCEPT !.checkout = main])
    /\ UNCHANGED <<world, pages, reader>>

(* inputs: three requests.                                                 *)
ReadMain == At("main") /\ Go([run EXCEPT !.main = main, !.step = "data"]) /\ Only
ReadData == At("data") /\ Go([run EXCEPT !.data = data, !.step = "pulls"]) /\ Only
ReadPulls ==
    /\ At("pulls")
    /\ Go([run EXCEPT !.open = Listing, !.todo = Listed(Listing), !.step = "discover",
                      !.whole = (run.main = main /\ run.data = data)])
    /\ Only

(* discover: the newest successful build of each open PR, whose PR is read *)
(* once more.                                                              *)
Discover(n) ==
    /\ At("discover") /\ n \in run.todo
    /\ LET found == Uploaded(n, run.open[n].head)
           rest == [run EXCEPT !.todo = @ \ {n}]
           same == run.open[n] = [head |-> pr[n].head, base |-> pr[n].base]
       IN \/ found = {} /\ Go(rest)
          \/ found # {} /\ ~same /\ Throw
          \/ \E i \in found :
               /\ same
               /\ \A j \in found : j <= i
               /\ Go([rest EXCEPT !.previews[n] = [id |-> i, attempt |-> builds[n][i].attempt,
                                                  required |-> Required(n)]])
    /\ Only

(* The checked-out commit and the fresh clone must be the ones that were   *)
(* read; then assembleSite.                                                *)
Assemble ==
    /\ At("discover") /\ run.todo = {}
    /\ LET result == Assembled(run.main, data, run.open, run.previews) IN
       IF run.checkout = run.main /\ run.data = data /\ Groups(result)
       THEN Go([run EXCEPT !.site = result, !.step = "checkMain"])
       ELSE Throw
    /\ Only

\* Mutant: only the PRs are read again.
CheckNothing(step, same, next) == At(step) /\ Go([run EXCEPT !.step = next]) /\ Only

(* verify: the inputs are read again, and the run fails if one changed.    *)
Check(step, same, next) ==
    /\ At(step)
    /\ IF same THEN Go([run EXCEPT !.step = next]) ELSE Throw
    /\ Only

CheckMain == run # None /\ Check("checkMain", run.main = main, "checkData")
CheckData == run # None /\ Check("checkData", run.data = data, "checkPulls")

CheckPulls ==
    /\ At("checkPulls")
    /\ IF run.open = Listing
       THEN Go([run EXCEPT !.step = "previews", !.todo = {n \in PRs : run.previews[n] # None}])
       ELSE Throw
    /\ Only

\* Mutant: the eligibility is not read again.
CheckBuildOnly(n) ==
    /\ At("previews") /\ n \in run.todo
    /\ LET preview == run.previews[n]
           build == builds[n][preview.id]
       IN IF build.attempt = preview.attempt /\ build.state = "success"
          THEN Go([run EXCEPT !.todo = @ \ {n}])
          ELSE Throw
    /\ Only

(* The build of each preview is still the one that was taken, and its PR   *)
(* is still eligible in the same way.                                      *)
CheckPreview(n) ==
    /\ At("previews") /\ n \in run.todo
    /\ LET preview == run.previews[n]
           build == builds[n][preview.id]
       IN IF /\ build.attempt = preview.attempt
             /\ build.state = "success"
             /\ build.head = run.open[n].head
             /\ run.open[n] = [head |-> pr[n].head, base |-> pr[n].base]
             /\ preview.required = Required(n)
          THEN Go([run EXCEPT !.todo = @ \ {n}])
          ELSE Throw
    /\ Only

(* The site and its state are uploaded; the deploy job verifies them again.*)
\* At most one of the runs is repeated later: kept is any of them.
Upload ==
    /\ At("previews") /\ run.todo = {} /\ run.job = "assemble"
    /\ Go([run EXCEPT !.job = "deploy", !.step = "checkMain", !.steady = PRs])
    /\ kept' \in {kept, run'}
    /\ UNCHANGED <<world, queue, site, faults, reader>>

Verified ==
    /\ At("previews") /\ run.todo = {} /\ run.job = "deploy"
    /\ Go([run EXCEPT !.step = "deploy"])
    /\ Only

\* The page that is being read goes on as another one, or is gone.
Replaced == Loading /\ ~(/\ reader.page \in Pages(run.site)
                         /\ reader.index = Page(run.site, reader.page))

Deploy ==
    /\ At("deploy")
    /\ site' = run.site
    /\ run' = None
    /\ reader' = IF Replaced THEN [reader EXCEPT !.replaced = TRUE] ELSE reader
    /\ UNCHANGED <<world, queue, kept, faults>>

\* Mutant: a repeated deploy job trusts the check of its first attempt.
RerunDeployUnchecked ==
    /\ run = None /\ kept # None
    /\ faults < MaxFaults
    /\ run' = [kept EXCEPT !.step = "deploy"]
    /\ kept' = None
    /\ faults' = faults + 1
    /\ UNCHANGED <<world, queue, site, reader>>

(* The deploy job of an earlier run is repeated, with the site it had.     *)
RerunDeploy ==
    /\ run = None /\ kept # None
    /\ faults < MaxFaults
    /\ run' = kept
    /\ kept' = None
    /\ faults' = faults + 1
    /\ UNCHANGED <<world, queue, site, reader>>

(* A request, a build or the deployment fails.                             *)
Fail ==
    /\ run # None
    /\ faults < MaxFaults
    /\ run' = None
    /\ faults' = faults + 1
    /\ UNCHANGED <<world, queue, kept, site, reader>>

RunStep ==
    \/ ReadMain \/ ReadData \/ ReadPulls \/ Assemble
    \/ CheckMain \/ CheckData \/ CheckPulls \/ Upload \/ Verified \/ Deploy
    \/ \E n \in PRs : Discover(n) \/ CheckPreview(n)

-----------------------------------------------------------------------------
(* A reader: loadHistory.  One that has loaded leaves, and one that failed *)
(* may retry.                                                              *)

OpenPage(p) ==
    /\ ~Loading
    /\ p \in Pages(site)
    /\ reader' = [page |-> p, index |-> Page(site, p), todo |-> Page(site, p).runs,
                  got |-> {}, state |-> "loading", replaced |-> FALSE]
    /\ UNCHANGED <<world, queue, run, pages>>

Failed == [reader EXCEPT !.state = "failed", !.todo = {}, !.got = {}, !.index = None]

FetchRun(bundle) ==
    /\ Loading /\ bundle \in reader.todo
    /\ reader' = IF reader.page \in Pages(site) /\ bundle \in Page(site, reader.page).runs
                 THEN [reader EXCEPT !.todo = @ \ {bundle},
                         !.got = @ \cup {Served(bundle, Page(site, reader.page).runs)}]
                 ELSE Failed
    /\ UNCHANGED <<world, queue, run, pages>>

(* The pending run must be of the preview's revision, and the runs group.  *)
EndLoad ==
    /\ Loading /\ reader.todo = {}
    /\ LET pending == reader.index.pending
           accepted == /\ pending # None =>
                            /\ pending.pullRequest.number = reader.page
                            /\ pending.pullRequest.head = reader.index.head
                       /\ Consistent(reader.got)
       IN reader' = IF accepted THEN None ELSE Failed
    /\ UNCHANGED <<world, queue, run, pages>>

Read == EndLoad \/ \E p \in Pages(site) : OpenPage(p) \/ \E bundle \in Bundles : FetchRun(bundle)

-----------------------------------------------------------------------------
Next == World \/ BuildStep \/ Start \/ RunStep \/ RerunDeploy \/ Fail \/ Read

Spec == Init /\ [][Next]_vars

(* Runners run queued jobs to their end.  Nothing need change, and nobody  *)
(* has to repeat a job.                                                    *)
Fairness == WF_vars(Start \/ RunStep) /\ WF_vars(BuildStep)

FairSpec == Spec /\ Fairness

-----------------------------------------------------------------------------
(* Properties.                                                             *)

Histories == [version : Nat, published : SUBSET Bundles, pending : [PRs -> Bundles \cup {None}]]
PageContents == [head : Heads \cup {None}, pending : Bundles \cup {None}, runs : SUBSET Bundles]
Sites == [main : Nat, version : Nat, runs : SUBSET Bundles,
          previews : [PRs -> PageContents \cup {None}]]
Selections == [id : Nat, attempt : Nat, required : BOOLEAN]
Steps == {"main", "data", "pulls", "discover", "checkMain", "checkData", "checkPulls",
          "previews", "deploy"}
Runs == [main : Nat, data : Histories, checkout : Nat, open : [PRs -> Revisions \cup {None}],
         previews : [PRs -> Selections \cup {None}], site : Sites \cup {None},
         todo : SUBSET PRs, job : {"assemble", "deploy"}, step : Steps,
         whole : BOOLEAN, steady : SUBSET PRs]

\* An absent preview or run is not one.
ASSUME NoneAssumption == None \notin Runs \cup Selections \cup [required : BOOLEAN]

PullRequests == [PRs -> [listed : BOOLEAN, head : Heads, base : Bases, skip : BOOLEAN]]
Builds == [head : Heads, attempt : Nat, state : {"checking", "building", "success", "failed"}]
ReaderType ==
    reader # None =>
        /\ reader = [page |-> reader.page, index |-> reader.index, todo |-> reader.todo,
                     got |-> reader.got, state |-> reader.state, replaced |-> reader.replaced]
        /\ reader.page \in {Root} \cup PRs
        /\ reader.state \in {"loading", "failed"}
        /\ reader.replaced \in BOOLEAN
        /\ reader.todo \subseteq Bundles

(* Every variable has its type.                                            *)
TypeOK ==
    /\ main \in Nat
    /\ data \in Histories
    /\ pr \in PullRequests
    /\ builds \in [PRs -> Seq(Builds)]
    /\ queue \in Nat
    /\ run \in Runs \cup {None}
    /\ kept \in Runs \cup {None}
    /\ site \in Sites
    /\ ReaderType
    /\ changes \in 0..MaxChanges
    /\ faults \in 0..MaxFaults

(* Production never goes back: no deployment, not even of a repeated job   *)
(* with an old site, replaces newer code of main or a longer history.      *)
NeverGoesBack == [][site.main <= site'.main /\ site.runs \subseteq site'.runs]_vars

(* The inputs are read in three requests while each of them may change.    *)
(* What passes both checks existed as a whole at one moment.               *)
DeploysOneSnapshot == At("deploy") => run.whole

(* A preview that is about to be deployed agrees with its PR unless the PR *)
(* changed after the deploy job began: it is open, at this head, and shows *)
(* a pending result of this revision only if measurements are required.    *)
DeploysOpenPreviews ==
    At("deploy") =>
        \A n \in run.steady : LET preview == run.site.previews[n] IN
            preview # None =>
                /\ pr[n].listed
                /\ preview.head = pr[n].head
                /\ preview.pending # None =>
                     Required(n) /\ preview.pending.pullRequest.base = pr[n].base

(* Whoever opens production while it is deployed over finds every run that *)
(* its index named, and the mixture of old and new files groups.           *)
ProductionLoads == reader # None /\ reader.page = Root => reader.state # "failed"

(* A page that is not replaced while it is read loads: what is assembled,  *)
(* with the catalogs it rewrites, passes the checks of the reader.         *)
PagesLoad == reader # None /\ ~reader.replaced => reader.state # "failed"

\* The PRs that could be served with their newest build.
Available(n) == pr[n].listed /\ Uploaded(n, pr[n].head) # {}
Current ==
    Assembled(main, data, Listing, [n \in PRs |-> IF Available(n) THEN [required |-> Required(n)]
                                                                 ELSE None])
BuildFailed == \E n \in PRs : builds[n] # <<>> /\ builds[n][Len(builds[n])].state = "failed"

\* A run of Pages or a preview build is on its way or will be.
Building(n) == builds[n] # <<>> /\ Running(builds[n][Len(builds[n])].state)
Busy == queue > 0 \/ run # None \/ \E n \in PRs : Building(n)

(* No change gets lost: whenever no run of Pages and no preview build is   *)
(* on its way, the site shows what there is.  Each event starts a run, or a*)
(* build that starts one, and a run that began before it must not be the   *)
(* last.  The exceptions are those of SiteCatchesUp.                       *)
QuietMeansCurrent ==
    Busy \/ faults > 0 \/ BuildFailed \/ ~Groups(Current) \/ site = Current

(* When nothing changes any more the site shows main, the history and the  *)
(* previews of the open PRs, unless a request failed, an old deployment was*)
(* repeated, a preview build failed, or a pending result does not group.   *)
SiteCatchesUp ==
    <>[](\/ faults > 0 \/ BuildFailed \/ ~Groups(Current)
         \/ site = Current)

(* docs/README.md: "/ serves website code from main with published         *)
(* benchmark history", and "Publication calls Pages after a main push or a *)
(* data change".                                                           *)
ProductionCatchesUp ==
    <>[](\/ faults > 0 \/ ~Groups(Current)
         \/ site.main = main /\ site.runs = data.published)

=============================================================================
