# hyperlight-bench: specifications and proofs

TLA+ models of the programs in this repository that hold state across steps,
TLC runs that check them on small instances, and TLAPS proofs of their safety
properties for every instance. Module names follow the code; `PROJECT.json`
maps every definition to the lines it stands for.

    tlc -workers 2 -config MCResultStore.cfg MCResultStore    # one run
    tlapm ResultStore_proofs.tla                              # one proof module

## 1. Inventory

hyperlight-bench measures HTTP requests served by sandboxes (Hyperlight,
Wasmtime and a plain function) in three reuse strategies. A Rust server runs
the sandboxes, a TypeScript driver loads it and records a *run bundle*, CI jobs
archive bundles of PRs on a Git branch named `data` and promote them after the
merge, and a static dashboard shows the history of the branch.

| Component | State | Operations | Talks to | Hard behaviour |
|---|---|---|---|---|
| Sandbox pool, `crates/server/src/main.rs` | dispatch counter, one job channel per worker thread, one context per worker, response channels | start, execute (dispatch, send, await), `worker_new`, `worker_reload`, `worker_reuse` | HTTP tasks, handlers, observer, memory monitor | threads and tasks interleave; the response leaves before the guest is reset; clients disconnect; a panic anywhere ends the process |
| Runtime handlers, `crates/server/src/handlers/` | context: absent, unloaded, loaded; guest state | `new_context`, `load`, `unload`, `handle_request` | worker loops, observer | lifecycle calls are refused at run time by a panic; two kinds of handlers rebuild guest state at different calls |
| CPU time observer, `crates/observer/src/observer.rs` | map of running calls under a mutex, stop flag, condition variable, its own thread | `start_timeout`, `stop_timeout`, scan, `drop` | handlers, interrupt handles | registration races the wait; the scan races returning calls; `drop` signals without the mutex |
| Memory monitor, `crates/server/src/memory_monitor.rs` | sampling thread, recording flag, stdin protocol | sample, start/stop, shutdown | driver, server process | the shutdown handler exits the process while workers run |
| Result store, `scripts/result-store.ts`, `scripts/publish-results.ts` | `runs/`, `publications/`, `index.json`, lock directory, temporary files | `writeJson`, `withStoreLock`, `storeRun`, `promoteRun` | command line, CI publisher | concurrent commands, I/O errors, kills between two files, retries |
| Result rules, `shared/results.ts` | none | validation of bundles, publications and the index, grouping of histories, selection and merging | all scripts, dashboard | rules relate many records; order of a history |
| CI publisher, `scripts/publish-ci.ts`, `scripts/github-pr.ts` | the `data` branch, `pending/pr-<n>.json`, commit statuses; a clone per job | archive, promote, push, report | GitHub, result store | PRs change between requests; archival, merge and push events come in any order; reruns; rejected pushes; requests fail |
| Benchmark driver, `scripts/benchmark.ts`, `scripts/benchmark-local.ts` | child processes (server, load generator), readiness, abort, output files | run one configuration, clean up; collect all of them | server, memory monitor | readiness, early exit, cancellation and deadlines race; children die, hang or outlive the driver |
| Pages assembly, `scripts/site-ci.ts`, `assemble-site.ts`, `preview-ci.ts` | snapshot of main, data, PRs and their builds; the assembled site; what is deployed | read, choose builds, assemble, verify twice, deploy, repeat a deploy job | GitHub, artifacts, the `data` branch | the snapshot is read in several requests and goes stale before it is deployed; every change makes a run fail and relies on another |
| Merging and validation commands, `merge-results.ts`, `validate-results.ts` | none | merge jobs of one run, validate | files | cross references |
| Dashboard data, `src/data.ts` | fetched index and bundles | load the index, its runs in batches, group | the deployed site | the site is deployed over between two fetches |
| CI workflows and policy, `.github/workflows/`, `pr-policy.ts`, `check-ci-status.ts`, `configure-ci.ts` | results of jobs, artifacts of a run | jobs, cancellation, reruns | GitHub, driver, merging | a rerun repeats some jobs and keeps the outputs of others |
| Builds, tools, metadata; guests, catalogue, mock data | none | sequential tool calls, pure functions | - | - |

What makes them correct:

- **Pool.** A request is computed at most once and answered only with its own
  result; Renew and Restore isolate requests; readiness means ready; load is
  spread evenly; every accepted request is answered while the process lives.
- **Observer.** Only calls that used their timeout are killed, entries never
  outlive their call, no registration is missed, a guest that loops is killed.
- **Store.** Whatever is interrupted, the index is a history the dashboard
  accepts, and archived records are never changed or lost.
- **CI publisher.** What is published for a PR measured what was merged; the
  branch is consistent at every commit; a success status means recorded
  results; a merged PR is published in the end.
- **Driver.** A success is recorded only if the configuration ran to its end;
  the exit code agrees with the bundle; nothing is measured beside a leftover of
  another configuration; the driver and every server end.
- **Workload run.** A green attempt stands on the last outputs of every job.
- **Pages.** What is deployed existed as a whole at one moment; previews show open
  PRs at their head; production never goes back; the site catches up.
- **Dashboard data.** What is served loads, also while it is deployed over.
- **Rules.** Grouping, which walks over the bundles in order, accepts exactly the
  sets of bundles any two of which compare.

## 2. Modules

    RunRecords  <---- PublishedHistory (abstract) <--- implemented by --- ResultStore
                                                  <--- implemented by --- PublishCI
    RequestService (abstract) <--- implemented by --- SandboxPool
    RunRecords  <---- SitePages
    RunRecords  <---- HistoryGroups (the walk behind RunRecords!Consistent)
    Collection (abstract) <--- implemented by --- BenchmarkDriver
    CpuTimeObserver        WorkloadRun
    <Module>_proofs EXTENDS <Module>;  MC<Module> EXTENDS <Module> for TLC

**RunRecords** holds the records and the rules of `shared/results.ts` that the
publishers depend on, as pure operators: `CompleteRun`, `PublishableRun`,
`PublicationMatches`, `HistoryRun`, `Compatible`, `Consistent`. The bundle's
internal cross references are abstracted to the flag `complete`.

**HistoryGroups** is `groupHistories` and `validateHistory` as they are written: a
sequence of bundles in the order of their runs, sorted into groups by definition, and
in each group a walk that compares a bundle with the last one before it that had the
same id. `Consistent`, which the other modules use, says of the set that any two
bundles compare. That both accept the same histories is the theorem `GroupingIsPairwise`;
it has no run, as it has no state.

**PublishedHistory** is what readers of a data directory are promised: a set of
complete runs that only grows by one `Publish` at a time, one run per PR, always
consistent.

**ResultStore** is `store` and `promote` by concurrent processes on one
directory. A step is one file operation (`mkdir` of the lock, creating and
filling a temporary file, `link`, `rename`, removing the temporary file, `rmdir`)
or one group of reads made under the lock. `pc` is the place in the command;
`WriteError` throws in any file operation of `writeJson` and the `finally`
blocks run; `Kill` stops a process anywhere and leaves its lock and temporary
file; `Recover` is the manual clean-up of `docs/results.md`. `litter` and `Torn`
make partly written files visible.

**PublishCI** is `publish-ci.ts`: an archival job per finished run (and per
rerun), a promotion job per push to `main`, each with its own clone. A step is
one request to GitHub, or one push with the local work before it. PRs are pushed
to, rebased, labelled, closed and merged (`PushHead`, `MoveBase`, `Relabel`,
`Close`, `Merge`; external) between any two steps. `Push` is Git's
fast-forward rule. What happens inside `storeRun` and `promoteRun` is atomic
here: the clone belongs to the job and is thrown away when anything fails, and
`ResultStore` has the inside.

**SandboxPool** is `SandboxPool::start` and `execute`, the three worker loops,
and the lifecycle calls of the handlers, in every strategy and for two kinds of
handlers: `module` (load builds the guest, unload removes it: hyperlight-wasm,
hyperlight-js, wasmtime) and `snapshot` (the guest is built with the context and
unload restores it: hyperlight-dummy). `touched` is the set of requests that ran
in a guest's current state; `seen[r]` is what request `r` found there.
Panics of a worker, a failed start and the shutdown handler all end the process
(`EndProcess`). When the listener fails (`ListenerFails`: bind, its address, or an
accept), `main` returns and drops the runtime: no request is taken any more, the waiting
ones are dropped, and the process ends only when the thread that reads its stdin does
(`MainReturns`): the driver, whose own deadlines pass, sends the shutdown command and then
SIGKILL. **RequestService** is what clients are promised.

**BenchmarkDriver** is a driver process, its server and its load generator, the
shutdown protocol of `memory_monitor.rs`, and what runs one driver after another
(`benchmark-local.ts`, or the consecutive commands of a CI job: `local`). A step
of the driver is the code between two awaits; `pc` names the await. `Promise.race`
is a choice among the answers that are there, and a timer may expire at any time.
Any process can die, be interrupted or hang (`ServerLost`, `LoadLost`,
`Killed`, `CollectorDies`). `stdin` is the pipe, whose end
makes the server exit; `doomed` and `loadSignal` are signals on their way. Files
are `none`, of an earlier run (`stale`), cut off (`partial`), refused (`dirty`) or
`whole`. The configurations of one collection are `1 .. N`. The pool is seen
through its ready line only; `SandboxPool` has the rest of the server. **Collection** is
what collecting promises: results recorded once and in order, none after a failure, and
an index that names only a whole collection. That the drivers implement it
(`ImplementsCollection`) is proved for every number of configurations.

**WorkloadRun** is a run of `benchmark.yml` for a PR with its attempts: one action
per kind of job, `Before` for `needs`, `Wanted` for `if`. Each measurement job has
one artifact, which a later attempt replaces; `Collect` is `merge-results.ts` over
the artifacts that are there (`Mergeable` is `mergeBundles`), and leaves a run
artifact named after the attempt. `Status` stands for both status jobs. `Rerun`
repeats all jobs, the failed ones or one, with all jobs behind them; `Cancel` is a
newer event of the PR. `PublishCI` starts where a run has ended.

**SitePages** is `pages.yml` with `site-ci.ts` and `assemble-site.ts`, the preview
builds of `preview.yml`, and a dashboard that loads a page. One run of Pages runs at
a time and others queue (`queue: max`); a step is one request or the work between
two (`ReadMain` to `ReadPulls`, `Discover`, `Assemble`, `CheckMain` to
`CheckPreview`, `Upload`, `Verified`, `Deploy`). `checkMain` to `previews` happen
twice, in the jobs `assemble` and `deploy`. `RerunDeploy` repeats the deploy job of any
earlier run with the site it had (`kept`). Main, the history, PRs and builds change
between any two steps; each change says whether it starts Pages. `data.version` counts the commits of the
data branch. A site is the code of main and, per page, the runs it serves, its head
and its pending run; `Served` is the catalog that `serveData` writes into a bundle.
The reader takes the index, then one run at a time from whatever is deployed then;
`whole`, `steady` and `replaced` are history variables for the properties.
`PublishCI` has what the publishers do in between.

**CpuTimeObserver** is the observer thread and the calls around
`handle_request`. The mutex is explicit where the thread holds it across steps.
CPU time is counted in ticks and saturates at `Timeout`, the only value the code
compares it with.

Every module has a `TypeOK`; it is a theorem for each, not an invariant of a run.

## 3. Runs

| Run | Asks | Instance | Result |
|---|---|---|---|
| `store` | all safety properties and the refinement of `ResultStore`; every command that is not killed ends | 2 processes; PR 1 with a run, PR 2 with two versions of one run of which one does not group; a publication with a wrong tree; 1 I/O error, 1 kill, fair | 156,576 states |
| `store_retry` | the documented retry can always finish a promotion | as `store`, and a second run of PR 1 | violated, see findings |
| `observer` | safety, and `MonitoredGuestEnds` under fairness | 2 workers, timeout of 2 ticks | 5,082 states |
| `observer_drop` | `drop` stops the thread, as its comment says | timeout of 1 tick, fair | violated |
| `pool` | safety and refinement of `SandboxPool`; accepted requests are answered, the start ends | 3 requests, 2 workers, 3 strategies, 2 kinds of handlers, a listener that may fail, fair | 312,606 states |
| `driver` | whole results, exit codes, one measurement at a time; drivers and servers end | 2 configurations, local or not, clean or over old outputs, fair | 120,212 states |
| `workload` | what a green attempt stands on | 2 measurement jobs of 2 strategies, 3 attempts | 119,918 states |
| `workload_retry` | every green attempt has a bundle of its own, as `docs/results.md` says | as `workload` | violated, see findings |
| `publish_ci` | what is published, and that merged PRs get published; jobs queued as the workflow does | PR 1 with two heads on two bases, PR 2 whose run groups with one of PR 1's and not with the other; 2 changes of PRs, 1 failing request, from every combination of heads and bases, fair | 150,350 states |
| `publish_ci_race` | two jobs at a time: the branch, statuses and pointers | PR 1 with two heads on two bases and two attempts of a run, 2 changes, 1 failing request | 387,004 states |
| `site` | what is deployed and what a reader gets; the site catches up | 1 PR with 2 heads on 2 bases, its run, a merged one that adds a runtime and one that does not group; 2 changes, 1 failing request or repeated deploy job, a reader at any time, fair | 239,936 states |
| `site_stale` | production follows main and the history, as `docs/README.md` says | as `site` on one base, nothing fails | violated, see findings |

*Why the bounds are enough.* Two processes (jobs, workers) exhibit every race in
these protocols: each interacts with others only through one lock, one mutex,
one branch, or one queue per worker. Three requests on two workers put a request
behind another one, so that a loop is entered from its
own end. Two PRs, two published runs and one incompatible one are enough for
the index to hold an entry, gain another, and refuse one. One error and one kill
are placed at every step, and a recovery follows; two faults only repeat this.
In `publish_ci` two changes are a push to a PR (or a move of its base, a label)
before its merge, or one push that merges both, so that the loop over them fails at the
first, at the second, or not at all; more changes repeat these on a
longer trace. `publish_ci_race` has one PR, whose archivals and promotions are what races. Two configurations let a second driver start after every end of a first one; a
third meets the same leftovers. Two measurement jobs let one be repeated while the
other keeps its outputs, and three attempts let outputs of two earlier attempts
meet, or a job be repeated twice. In `site` one run of Pages can meet two changes, or two
runs one each, before, between and after its two verifications; the PR starts open at the
head that was measured or not open, and changes lead to the other cases. Batches of
eight bundles are one fetch after another in any order: a batch only fixes the
order further. `CounterSize` is 16 instead of 2^64: the runs stay below the wrap,
where the code would need 2^64 requests.

*Deadlock* is checked except where the system may stop: after `drop`, after the
server process has ended, when every request has been sent, when a collection has
ended, after the last attempt of a run, or when nothing changes on GitHub any more.

*Symmetry* of measurement jobs and strategies is used in the runs of `WorkloadRun`,
which check no liveness.

### Fairness

- `ResultStore!FairSpec`: a process that is not killed keeps running. Nobody has
  to start commands or to recover the directory.
- `CpuTimeObserver!Fairness`: weak fairness of each thread. Taking the mutex is
  strongly fair for workers because the observer sleeps for a while between its
  scans with the mutex free. CPU time passes in a call (a guest that computes);
  guests need not return, calls need not start, wake-ups need not be spurious.
- `SandboxPool!FairSpec`: workers that serve, and tasks, run when they can; guests return.
  A worker may hang while it starts: only the 120 s of `recv_timeout` are sure to pass
  (`StartupTimeout`). A runtime that is dropped drops its tasks. Requests, cancellations,
  failures of the listener and shutdown are not required.
- `BenchmarkDriver!FairSpec`: Node runs what is due and its timers, the kernel
  delivers SIGKILL. Servers and load generators need not do anything, and nobody
  has to die. `ServersEnd` assumes more, `ServersRespond`: the server's listener
  thread runs and its write ends.
- `PublishCI!FairSpec`: a job that has started keeps going, and archivals of a
  merged PR are rerun, which is the documented remedy for every failure
  (`docs/results.md`). PRs need not change and push events need not be rerun, or
  ever be handled.

- `SitePages!FairSpec`: runners take the queued run of Pages, and the preview builds,
  to their ends. Nothing need change, no reader need come, and nobody has to repeat a
  job. This is what GitHub does with queued jobs; the code retries nothing itself.

### Properties that take several steps to break

Each property says in its comment what it is about; these carry most weight.

- `IndexServable`, `NoStrandedPublication`, `ImplementsPublishedHistory`
  (store): interruptions between the publication record and the index, retries,
  and other commands in between.
- `SuccessLasts`, `RecordsImmutable`: what one command has done is not undone by
  another.
- `WakeupPending`, `MonitoredGuestEnds`, `NoStaleMonitor`; `KillOnlyOverdue`, which
  also says that the observer gives up on a call (kills it before the guest is
  entered, and drops its entry) only when this call has used its timeout.
- `Isolation`, `JobsNotLost`, `ServingMeansReady`, `ImplementsRequestService`.
- `PublishedWasMerged`, `SuccessIsRecorded`, `PointerNeverGoesBack`,
  `MergedGetsPublished`.
- `ResultsAreWhole`, `ExitTellsOutcome`, `OneMeasurementAtATime`, `DriverEnds`.
- `GreenIsCollected`: several attempts that repeat different jobs.
- `DeploysOneSnapshot`, `DeploysOpenPreviews`, `NeverGoesBack`: requests of a run
  between changes, and deploy jobs repeated later.
- `ProductionLoads`, `PagesLoad`: fetches of a reader between deployments. A preview
  that is replaced while it is read may fail to load, and loads when it is retried: its index may name a
  pending run that the new one no longer has.
- `SiteCatchesUp`, `QuietMeansCurrent`: which event starts a run after which change.
  The second is the first without fairness: whenever no run and no build is on its
  way, the site shows what there is, so that no order of events loses a change.

`MergedGetsPublished` has the code's own limits in its premise. A PR is
published if the newest run of its merged head measured what was merged:
`archive` keeps one pointer per PR, so that an older run of the same head is
never promoted once a newer one is archived. And it may stay unpublished if it
does not group with a history that other PRs have extended. It and
`NewestGetsPromoted` are of PRs that never go back to an earlier head: `PushHead` leaves
out the force-push that would make the runs of two heads alternate. The run has two PRs,
so that one push may merge both and the loop of `main` ends at the first that fails; the
rest is published by rerun archivals.

`SiteCatchesUp` and `QuietMeansCurrent` have such limits too: requests do not fail, no old deploy job is
repeated, and no preview build fails (see findings). And while a pending result does not
group with the history, nothing is deployed at all, production included: one failing
`groupHistories` ends `assembleSite`.

### Findings

- `store_retry`: the retry that `docs/results.md` prescribes after an
  interrupted promotion can become impossible when another PR, which gives the
  same benchmark version other settings, is promoted in between. The record then
  stays without an index entry.
- `workload_retry`: only `collect` uploads the bundle of an attempt, and a retry of
  a job behind it (a status job that failed on its own) does not repeat `collect`.
  The attempt ends green, and its archival asks for an artifact that is not there.
  If the attempt before was not green, its bundle is never archived.
- `site_stale`: a PR that is opened, reopened or marked ready while a run of Pages is
  on its way makes that run throw "Site inputs changed. Rerun Pages."; only a successful
  preview build of the PR starts another. If that build fails, a push to main, or
  a published result, stays undeployed until something else changes.
- `observer_drop`: `drop` sets the flag and notifies without the mutex. Both can
  fall between the thread's test and its wait, and the thread then waits forever.
  The comment there that the handle is joined when it is dropped is wrong as well:
  Rust detaches the thread.

## 4. Proofs

Each theorem holds for every value of the constants that satisfies the module's
named assumption: `ValueAssumption`, `ObserverAssumption`, `PoolAssumption`,
`PublishAssumption`, `CountAssumption`, `WorkloadAssumption`, `SiteAssumption`, `NoneAssumption`. They only say that the
"absent" value is not one of the data, that bounds and identities are numbers, that
a pool has a worker, that there is a configuration and a measurement job, that
no measurement job has the name of another job, and that production is not a PR; TLC evaluates them in every run.

| Module | Proved | Inductive invariant and why |
|---|---|---|
| `ResultStore_proofs` | `TypeOK`, `LockExcludes`, `IndexServable`, `IndexedRunsPublished`, `OneRunPerPullRequest`, `RecordsImmutable`, `IndexKeepsEntries`, `ImplementsPublishedHistory`; `LockLeftOnlyByKill`, `NoStrandedPublication`, `SuccessLasts` | `IInv`: what the files say about each other (`RunsInv`, `PublicationsInv`, `IndexInv`), and per writer what it read under the lock is still true while it holds it (`Checked`, `Planned`). `IndexServable` alone is not inductive: the rename writes `planned`, which was computed steps earlier from an index only the lock has kept unchanged. The last three properties rest on `CommandsInv` beside it: a command that has not thrown has had its effect from its last `rename` or `link` on, and a record without an entry belongs to the promotion that is `Between` its two files. `CommandMovesOn`: only its own steps move a command, each nearer to its end (at most 13). `NeverStuck`: a command on its way knows what it has to write and has not begun to write it before it does (`TempInv`), so that one of its steps applies. |
| `CpuTimeObserver_proofs` | `TypeOK`, `NoStaleMonitor`, `KillOnlyOverdue`, `WakeupPending` | `EntriesInv` ties each entry to the ticks its call has really used; `ParkInv` says the thread that is about to wait, with the mutex held, has seen no entries. Then `Awake`, `ScansOn`, `WatchedToTheEnd`: with an entry to watch the thread does not shut down (`DropInv`: every worker has let go before) or wait for good, each of its steps takes it nearer to a scan or through one (`ScanInv`), and a running guest leaves the list only by being interrupted. |
| `SandboxPool_proofs` | `TypeOK`, `Isolation`, `LifecycleNeverPanics`, `ServingMeansReady`, `JobsNotLost`, `ImplementsRequestService`, and `EvenDispatch` until the counter wraps | Per worker where its loop may be, the state of its context there, and when its guest is clean. The last differs by handler: `snapshot` guests are clean from `unload` to the next request, `module` guests from `load`. `JobsInv`: each accepted request is held by exactly one worker until it is computed, either as its job or at one position of its queue, and is answered after; counted in places (`Places`), a job in hand that is still queued would be two. `EvenInv`: after `k * PoolSize + p` dispatches the workers below `p` have `k + 1` jobs and the others `k`, because the counter is the number of dispatches. `AnswerInv`: an accepted request is in a queue, in work, or its response has been sent (`AnswerComes`), also while the client leaves. `MovesUp`: a queued job keeps its place while its worker nears its next receive (at most 5 steps after the last), and then moves up by one. |
| `PublishCI_proofs` | `TypeOK`, `BranchConsistent`, `PublishedWasMerged`, `SuccessIsRecorded`, `PointerNeverGoesBack`, `ImplementsPublishedHistory` | `StoreInv` and `MergedInv` for the branch and for the clone of every job; `SeenInv`: a PR that a job has seen merged stays as it was seen; a clone's runs are on the branch. Clones go stale, so they satisfy the branch's invariant without being the branch; `Push` only replaces the branch by a store made from an equal clone. `JobMovesOn`: each step of a job lowers the PRs it has left, or its rank within one of them. `BranchGrows`: nothing leaves the branch. `NewestIsPromotable` needs `NewestInv`: a run of a head its PR no longer has, on the branch or in a job, is older than every run of the head it has (`OldHead`), and the clone of an archival that goes on to publish points at its run or at a newer one (`ArchivalInv`). |
| `BenchmarkDriver_proofs` | `TypeOK`, `ResultsAreWhole`, `ExitTellsOutcome`, `OneMeasurementAtATime`, `ImplementsCollection` | `OrderInv`: configurations ahead are untouched, those behind have ended well, because a driver that fails ends the collection; `DecisionInv`, `ChildrenInv`, `BundleInv`: what the driver knows of its outcome, children and bundle at each await; `SiteInv`: the site is written after the last success. None of the properties says what holds in the middle of a driver, which is what its next step relies on. `WaitsInv`: the two awaits without a timer are for processes that have ended or were sent SIGKILL (`WaitsAreBounded`), because the clean-up goes from the load generator to the server; and a server nobody waits for finds the command or the end of its stdin (`ServersAreTold`). `DriverMovesOn`: an await is never entered again, at most 11 steps in all. `ImplementsCollection` needs `EarlierInv`: a driver starts only after the one before it has left a success. |
| `WorkloadRun_proofs` | `TypeOK`, `GreenIsCollected` | `ArtifactInv`: the artifact of a job that succeeded is its last output; `CollectInv`, `StatusInv`: these jobs keep no success while one before them is repeated; `RunsInv`: an attempt whose collection is pending has no bundle yet. |
| `SitePages_proofs` | `TypeOK`, `DeploysOneSnapshot`, `DeploysOpenPreviews`, `NeverGoesBack`, `ProductionLoads`, `PagesLoad`, `QuietMeansCurrent` | `OneSnapshot`: main and data are read in the same order twice and neither returns to an earlier value, so that what has not changed at its second reading was there when the PRs were listed; before that reading the run may hold a mixture, but then one part is already out of date. `ReadPast`: what a run has read is the present or the past. `NotBehind`: a run whose checks passed is not behind the site, which cannot change while the run is the only one. `PreviewsAgree`: what was checked of a PR holds until it changes. `SteadyReader`, `ProductionReader`: where a reader's files come from; `ServedAgree`: files served from parts of one consistent history group, whatever catalogs were merged into them. `QuietInv` for `QuietMeansCurrent`: the run under way is `UpToDate` in everything it has read, or another is queued, or a build that will queue one is running; `LastBuilds`: only the newest build of a PR runs. An event that makes a run out of date has queued the next one in the same step. |
| `HistoryGroups_proofs` | the walk accepts exactly the pairwise consistent sets | No state. If the bundles of a group do not all agree on an id, take the first bundle that has it and the first that differs from that one (`LeastNumber`): the last bundle before the latter with that id (`GreatestNumber`) agrees with the first, and the walk has compared the two (`WalkAgrees`). |

The proofs have one lemma per action or group of actions, framed by what the action leaves to the
others (`Locals`, `Frame`, `StepGood`); the refinements of the history map every rename of
the index, and every push of a promotion, to one `Publish`; that of the drivers maps `Save`
to `Record` and the rename of the local index to `Name`; that of the pool maps dispatch,
answers and cancellations to the request's own steps. All other steps stutter. A few leaves
that need more than the provers' usual seconds name one with a longer limit (`SMTT(30)`,
`ZenonT(30)`).

*Only model-checked*: liveness, because fairness and ENABLED are out of the prover's
reach. What each of these properties rests on apart from fairness is proved, for every
instance. What is left to TLC is the scheduling: that steps which stay possible are taken,
that a killed process is gone, and, for `SiteCatchesUp`, that runs and builds end.

| Liveness | What is proved towards it |
|---|---|
| `CommandsEnd` | `CommandsMoveOn`, `CommandsNeverStuck`: a measure that only falls, and a step that applies while it is not 0; `LockExcludes`, `LockLeftOnlyByKill`: the lock is that of a command on its way, or of a killed one |
| `RequestsEnd` | `AnswersCome`, `NoOvertaking`: where the answer is, and how many steps of the worker are before it |
| `MonitoredGuestEnds` | `ObserverStaysAwake`, `ObserverScansOn`, `RunningGuestsStayWatched` |
| `DriverEnds`, `ServersEnd` | `DriversMoveOn`, `EveryWaitIsBounded`, `NoServerIsForgotten` |
| `MergedGetsPublished` | `JobsMoveOn`, `JobsNeverStuck`; `NewestGetsPromoted`: the rerun archival promotes; `NothingIsWithdrawn`: it stays |
| `SiteCatchesUp` | `NothingGetsLost`: while the site is behind, a run or a build is on its way |
| `StartupEnds` | `StartupGoesOn`: no worker waits for jobs before it has reported, and each is at most four steps from it, if it takes them; that it may not is left to the timer and to TLC |

`ProductionCatchesUp`, `RetryFinishesPromotion`, `GreenAttemptHasBundle` and
`DropStopsThread` do not hold; their violations are counterexamples of TLC. `EvenDispatch`
has no proof past the wrap of the counter: with a pool size that does not divide 2^64 it would fail there.

## 5. Assumptions and abstractions

- Observer: `InterruptHandle::kill` interrupts a guest that is running and has no
  effect on one that is not; a spurious wake-up is possible at any time.
- Store: removing the lock or a temporary file does not itself fail; `link`,
  `rename` and `mkdir` are atomic; a directory is on one file system.
- Pool: a request is sent once; the response's text is its own computation; the
  assertion on a wrong response body and the `time_phases` build are left out. The server
  is started with `--shutdown-stdin`, as the driver does. After a failure of the listener
  the code's workers empty their channels, which are closed, and end; the model's wait on
  the empty channels.
  Nothing bounds a channel, and no property bounds the queue of a slow worker
  (`EvenDispatch` counts turns; `NoOvertaking` bounds a wait by the jobs ahead).
- Publisher: artifacts come from the workflow that the run names, GitHub computes
  the tree of a merge from base and head, run ids grow with time and attempts
  with reruns, every push to a PR starts a run, a PR does not go back to an earlier
  head, closed PRs are not reopened. `archive` orders runs by `createdAt` and the model by
  id, which differ at most for runs created within one second.
- Driver: no process of an earlier collection still runs at its start; `oha` is
  external: it runs, writes its report, ends well, with an error, or by a signal.
  Of the memory samples only whether they are written whole is kept. An error of the stream
  to `server.log`, which would fail the driver too, is left out.
- Workload run: GitHub keeps the results and artifacts of jobs it does not repeat,
  and repeats the jobs behind those it does; revisions and definitions do not
  change between attempts of a run, so what `mergeBundles` compares of them is
  equal. The smoke and prepare jobs and the builds only succeed or fail.
- Pages: a deployment replaces the whole site at once; `Discover` is one step per PR,
  from the listing of builds to the PR that is read again; only the newest build of a PR is
  rerun, artifacts do not expire, and one earlier run at a time may have its deploy job
  repeated. A PR that is not listed is closed, merged, a draft or on another branch; it comes
  back by `List`. The data branch changes by archivals and promotions only, nobody starts Pages
  by hand, and `displayCommit` is left out, which no check depends on. Files are cached
  by nobody (`no-cache`) and a request that fails on the way is the same as one for a run
  that is gone.
- A name, a commit or a tree is a value that can be compared; JSON, sorting of
  the index and texts are not modelled.

## 6. Not modelled

- **`src/main.ts`** loads the data once; what follows are event handlers and two timers
  (which hide a tooltip and a message) of one thread that derive charts and tables from
  it and from the address. No two of them hold state they could disagree about.
- **The selection of histories** in `loadHistory`: the reader groups everything it has
  fetched and shows the default. Addresses that ask for several benchmark versions, whose
  metrics must agree (`datasetFromHistories`), or for one that does not exist, are left out.
- **The schema of one bundle** in `shared/results.ts` and `validate-results.ts`: cross
  references between the parts of a document, pure and without order. They are the flag
  `complete`.
- **`time_phases`** in `main.rs`: a ring of request rows that is compiled out of the builds
  that are measured.
- **The workflow of a push** warms caches; `setup-tools.sh`, `build-harness.ts` and
  `runner-metadata.ts` call external tools one after another and keep no state.
- **Guests, catalogue and mock data** are stateless.
- **The composition of `WorkloadRun`, `PublishCI` and `SitePages`** as one system: each
  starts from what the one before it leaves (a green attempt with or without a bundle, a commit of the
  data branch), enumerated in full there; their product is out of TLC's reach.
