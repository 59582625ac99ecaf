------------------------- MODULE SitePages_proofs -------------------------
(***************************************************************************)
(* Proofs about SitePages for any PRs, bundles and commits and any number  *)
(* of changes, failed requests and repeated deploy jobs.                   *)
(***************************************************************************)
EXTENDS SitePages, SequenceTheorems, TLAPS

Built == {"checkMain", "checkData", "checkPulls", "previews", "deploy"}

(* What a run has read is the present or the past, never another history.  *)
ReadPast(r) ==
    /\ r.main <= main
    /\ r.data.published \subseteq data.published
    /\ r.data = data \/ r.data.version < data.version

(* If main and data were not read as of one moment, one of them was already*)
(* out of date when the PRs were listed, so that its check throws.         *)
OneSnapshot(r) ==
    /\ r.step \in {"discover", "checkMain"} =>
         r.whole \/ r.main < main \/ r.data.version < data.version
    /\ r.step = "checkData" => r.whole \/ r.data.version < data.version
    /\ r.step \in {"checkPulls", "previews", "deploy"} => r.whole

(* The site is what was assembled, and the histories of its pages group.   *)
SiteBuilt(r) ==
    r.step \in Built => /\ r.site = Assembled(r.main, r.data, r.open, r.previews)
                        /\ Groups(r.site)

(* Only listed PRs have previews.                                          *)
PreviewsListed(r) ==
    /\ r.step \in {"main", "data", "pulls"} => \A n \in PRs : r.previews[n] = None
    /\ \A n \in PRs : r.previews[n] # None \/ n \in r.todo => r.open[n] # None

(* After its checks a run is not behind what is deployed, since nothing is *)
(* deployed while it runs.                                                 *)
NotBehind(r) ==
    /\ r.step \in Built \ {"checkMain"} => site.main <= r.main
    /\ r.step \in {"checkPulls", "previews", "deploy"} => site.runs \subseteq r.data.published

(* What was checked still holds of the PRs that have not changed.          *)
PreviewsAgree(r) ==
    /\ r.step \in {"previews", "deploy"} =>
         \A n \in r.steady :
            /\ r.open[n] = Listing[n]
            /\ r.previews[n] # None /\ n \notin r.todo => r.previews[n].required = Required(n)
    /\ r.step = "deploy" => r.todo = {}

RunInv(r) ==
    /\ ReadPast(r) /\ OneSnapshot(r) /\ SiteBuilt(r)
    /\ PreviewsListed(r) /\ NotBehind(r) /\ PreviewsAgree(r)

(* A preview shows a pending result of its own head only.                  *)
PendingOfHead(s) ==
    \A p \in Pages(s) : Page(s, p).pending # None =>
        /\ Page(s, p).pending.pullRequest.number = p
        /\ Page(s, p).pending.pullRequest.head = Page(s, p).head

SiteInv ==
    /\ data.version > 0
    /\ site.main <= main
    /\ site.runs \subseteq data.published
    /\ Groups(site)
    /\ PendingOfHead(site)

(* A reader of a page that is not replaced has its files from that page.   *)
SteadyReader ==
    reader # None /\ ~reader.replaced =>
        /\ reader.state = "loading"
        /\ reader.page \in Pages(site)
        /\ reader.index = Page(site, reader.page)
        /\ reader.todo \subseteq reader.index.runs
        /\ \A file \in reader.got :
             \E b \in reader.index.runs : file = Served(b, reader.index.runs)

(* A reader of production has its files from subsets of one history.       *)
ProductionReader ==
    reader # None /\ reader.page = Root =>
        /\ reader.state = "loading"
        /\ reader.index.pending = None
        /\ reader.todo \subseteq site.runs
        /\ \A file \in reader.got :
             \E runs \in SUBSET site.runs : \E b \in runs : file = Served(b, runs)

ReaderInv == SteadyReader /\ ProductionReader

IInv ==
    /\ TypeOK
    /\ SiteInv
    /\ ReaderInv
    /\ run # None => RunInv(run)
    /\ kept # None => RunInv(kept) /\ kept.step = "checkMain"

-----------------------------------------------------------------------------
(* Types.                                                                  *)

LEMMA PreviewType ==
    ASSUME NEW store \in Histories, NEW n \in PRs, NEW revision \in Revisions, NEW required
    PROVE  PreviewOf(store, n, revision, required) \in PageContents
BY Zenon DEF PreviewOf, PageContents, Histories, Revisions

LEMMA AssembledType ==
    ASSUME NEW revision \in Nat, NEW store \in Histories, NEW open, NEW previews,
           \A n \in PRs : previews[n] # None => open[n] \in Revisions
    PROVE  Assembled(revision, store, open, previews) \in Sites
<1> DEFINE shown == [n \in PRs |-> IF previews[n] = None THEN None
                                   ELSE PreviewOf(store, n, open[n], previews[n].required)]
<1>1. shown \in [PRs -> PageContents \cup {None}]
  BY PreviewType
<1>2. QED
  BY <1>1 DEF Assembled, Sites, Histories

LEMMA ListingType ==
    ASSUME TypeOK
    PROVE  /\ Listing \in [PRs -> Revisions \cup {None}]
           /\ \A n \in PRs : Listing[n] # None => Listing[n] \in Revisions
BY DEF Listing, TypeOK, Revisions, PullRequests

LEMMA NewBuildType ==
    ASSUME TypeOK, NEW n \in PRs, NEW head \in Heads
    PROVE  NewBuild(n, head) \in [PRs -> Seq(Builds)]
<1> DEFINE old == builds[n]
           done == [i \in DOMAIN old |-> IF Running(old[i].state)
                                         THEN [old[i] EXCEPT !.state = "failed"] ELSE old[i]]
           new == [head |-> head, attempt |-> 1, state |-> "checking"]
<1>1. old \in Seq(Builds)
  BY DEF TypeOK, Builds
<1>2. Len(old) \in Nat /\ DOMAIN old = 1..Len(old) /\ \A i \in 1..Len(old) : old[i] \in Builds
  BY <1>1, LenProperties, ElementOfSeq
<1>3. done \in [1..Len(old) -> Builds]
  BY <1>2 DEF Builds
<1>4. done \in Seq(Builds)
  BY <1>2, <1>3, SeqDef
<1>5. new \in Builds
  BY DEF Builds
<1>6. Append(done, new) \in Seq(Builds)
  BY <1>4, <1>5
<1>7. NewBuild(n, head) = [builds EXCEPT ![n] = Append(done, new)]
  BY DEF NewBuild
<1>8. QED
  BY <1>6, <1>7 DEF TypeOK, Builds

LEMMA SetBuildType ==
    ASSUME TypeOK, NEW n \in PRs, NEW i \in DOMAIN builds[n], NEW fields \in Builds
    PROVE  [builds EXCEPT ![n][i] = fields] \in [PRs -> Seq(Builds)]
<1>1. builds[n] \in Seq(Builds)
  BY DEF TypeOK, Builds
<1>2. i \in 1..Len(builds[n])
  BY <1>1, LenProperties
<1>3. [builds[n] EXCEPT ![i] = fields] \in Seq(Builds)
  BY <1>1, <1>2, ExceptSeq
<1>4. QED
  BY <1>3 DEF TypeOK, Builds

LEMMA BuildType ==
    ASSUME TypeOK, NEW n \in PRs, NEW i \in DOMAIN builds[n]
    PROVE  i \in Nat /\ builds[n][i] \in Builds
<1>1. builds[n] \in Seq(Builds)
  BY DEF TypeOK, Builds
<1>2. QED
  BY <1>1, LenProperties, ElementOfSeq

LEMMA TypeInit == Init => TypeOK
<1> SUFFICES ASSUME Init PROVE TypeOK
  OBVIOUS
<1> USE DEF Init
<1>1. main \in Nat /\ data \in Histories
  BY DEF Histories
<1>2. pr \in PullRequests
  BY DEF PullRequests
<1>3. builds \in [PRs -> Seq(Builds)]
  <2> SUFFICES ASSUME NEW n \in PRs PROVE builds[n] \in Seq(Builds)
    OBVIOUS
  <2>1. <<>> \in Seq(Builds)
    OBVIOUS
  <2>2. [head |-> pr[n].head, attempt |-> 1, state |-> "success"] \in Builds
    BY <1>2 DEF Builds, PullRequests
  <2>3. <<[head |-> pr[n].head, attempt |-> 1, state |-> "success"]>> \in Seq(Builds)
    BY <2>2
  <2>4. QED
    BY <2>1, <2>3
<1>4. site \in Sites
  <2> DEFINE shown == [n \in PRs |-> IF pr[n].listed THEN [required |-> TRUE] ELSE None]
  <2>1. ASSUME NEW n \in PRs, shown[n] # None PROVE Listing[n] \in Revisions
    BY <1>2, <2>1 DEF Listing, Revisions, PullRequests
  <2>2. QED
    BY <1>1, <2>1, AssembledType
<1>5. QED
  BY <1>1, <1>2, <1>3, <1>4, SiteAssumption DEF TypeOK, ReaderType

(* A change leaves the reader, the site and what has been built as they    *)
(* are; what remains is the part of the world that it changes.             *)
LEMMA TypeChange ==
    ASSUME TypeOK, NEW triggers \in BOOLEAN, Change(triggers),
           main' \in Nat, data' \in Histories, pr' \in PullRequests,
           builds' \in [PRs -> Seq(Builds)], run' \in Runs \cup {None}
    PROVE  TypeOK'
<1>1. changes' \in 0..MaxChanges
  BY SiteAssumption DEF TypeOK, Change
<1>2. queue' \in Nat
  BY DEF TypeOK, Change
<1>3. UNCHANGED <<kept, site, faults, reader>>
  BY DEF Change, pages
<1>4. ReaderType'
  BY <1>3 DEF TypeOK, ReaderType
<1>5. QED
  BY <1>1, <1>2, <1>3, <1>4 DEF TypeOK

LEMMA TypeChangePR ==
    ASSUME TypeOK, NEW triggers \in BOOLEAN, NEW n \in PRs,
           NEW fields \in [listed : BOOLEAN, head : Heads, base : Bases, skip : BOOLEAN],
           ChangePR(n, fields, triggers),
           main' \in Nat, data' \in Histories, builds' \in [PRs -> Seq(Builds)]
    PROVE  TypeOK'
<1>1. pr' \in PullRequests
  BY DEF ChangePR, TypeOK, PullRequests
<1>2. run' \in Runs \cup {None}
  BY DEF ChangePR, TypeOK, Runs
<1>3. QED
  BY <1>1, <1>2, TypeChange DEF ChangePR

LEMMA TypeWorld == TypeOK /\ World => TypeOK'
<1> SUFFICES ASSUME TypeOK, World PROVE TypeOK'
  OBVIOUS
<1>0. /\ main \in Nat /\ data \in Histories /\ pr \in PullRequests
      /\ builds \in [PRs -> Seq(Builds)] /\ run \in Runs \cup {None}
      /\ main + 1 \in Nat
  BY DEF TypeOK
<1> DEFINE PR == [listed : BOOLEAN, head : Heads, base : Bases, skip : BOOLEAN]
<1>f. ASSUME NEW n \in PRs
      PROVE  /\ pr[n] \in PR
             /\ [pr[n] EXCEPT !.listed = FALSE] \in PR
             /\ [pr[n] EXCEPT !.skip = ~@] \in PR
             /\ \A head \in Heads : /\ [pr[n] EXCEPT !.head = head] \in PR
                                    /\ [pr[n] EXCEPT !.listed = TRUE, !.head = head] \in PR
             /\ \A base \in Bases : [pr[n] EXCEPT !.base = base] \in PR
  BY <1>0 DEF PullRequests
<1>1. CASE PushMain
  BY <1>0, <1>1, TypeChange DEF PushMain
<1>2. ASSUME NEW bundle \in Bundles, Archive(bundle) PROVE TypeOK'
  <2>1. data' \in Histories
    <3> DEFINE n == bundle.pullRequest.number
    <3>1. data.version + 1 \in Nat
      BY <1>0 DEF Histories
    <3>2. data.pending \in [PRs -> Bundles \cup {None}]
      BY <1>0 DEF Histories
    <3>3. [data.pending EXCEPT ![n] = bundle] \in [PRs -> Bundles \cup {None}]
      BY <3>2
    <3>4. data' = [data EXCEPT !.version = data.version + 1,
                               !.pending = [data.pending EXCEPT ![n] = bundle]]
      BY <1>0, <1>2 DEF Archive, Histories
    <3>5. QED
      BY <1>0, <3>1, <3>3, <3>4 DEF Histories
  <2>2. QED
    BY <1>0, <1>2, <2>1, TypeChange DEF Archive
<1>3. ASSUME NEW bundle \in Bundles, Promote(bundle) PROVE TypeOK'
  <2>1. data' \in Histories
    <3>1. data.version + 1 \in Nat /\ data.published \cup {bundle} \in SUBSET Bundles
      BY <1>0 DEF Histories
    <3>2. data' = [data EXCEPT !.version = data.version + 1,
                               !.published = data.published \cup {bundle}]
      BY <1>3 DEF Promote
    <3>3. QED
      BY <1>0, <3>1, <3>2 DEF Histories
  <2>2. QED
    BY <1>0, <1>3, <2>1, TypeChange DEF Promote
<1>4. ASSUME NEW n \in PRs, Merge(n) PROVE TypeOK'
  BY <1>0, <1>f, <1>4, TypeChangePR DEF Merge
<1>5. ASSUME NEW n \in PRs, List(n) PROVE TypeOK'
  <2>1. PICK head \in Heads :
          /\ builds' = NewBuild(n, head)
          /\ ChangePR(n, [pr[n] EXCEPT !.listed = TRUE, !.head = head], FALSE)
    BY <1>5 DEF List
  <2>2. builds' \in [PRs -> Seq(Builds)]
    BY <2>1, NewBuildType
  <2>3. QED
    BY <1>0, <1>f, <1>5, <2>1, <2>2, TypeChangePR DEF List
<1>6. ASSUME NEW n \in PRs, Unlist(n) PROVE TypeOK'
  BY <1>0, <1>f, <1>6, TypeChangePR DEF Unlist
<1>7. ASSUME NEW n \in PRs, PushHead(n) PROVE TypeOK'
  <2>1. PICK head \in Heads :
          builds' = NewBuild(n, head) /\ ChangePR(n, [pr[n] EXCEPT !.head = head], TRUE)
    BY <1>7 DEF PushHead
  <2>2. builds' \in [PRs -> Seq(Builds)]
    BY <2>1, NewBuildType
  <2>3. QED
    BY <1>0, <1>f, <1>7, <2>1, <2>2, TypeChangePR DEF PushHead
<1>8. ASSUME NEW n \in PRs, MoveBase(n) PROVE TypeOK'
  BY <1>0, <1>f, <1>8, TypeChangePR DEF MoveBase
<1>9. ASSUME NEW n \in PRs, Relabel(n) PROVE TypeOK'
  BY <1>0, <1>f, <1>9, TypeChangePR DEF Relabel
<1>10. ASSUME NEW n \in PRs, RerunBuild(n) PROVE TypeOK'
  <2> DEFINE i == Len(builds[n])
  <2>1. i \in DOMAIN builds[n]
    <3>1. builds[n] \in Seq(Builds) /\ builds[n] # <<>>
      BY <1>0, <1>10 DEF RerunBuild
    <3>2. QED
      BY <3>1, LenProperties, EmptySeq
  <2>2. [builds[n][i] EXCEPT !.attempt = @ + 1, !.state = "checking"] \in Builds
    <3>1. builds[n][i] \in Builds
      BY <2>1, BuildType
    <3>2. builds[n][i].attempt + 1 \in Nat
      BY <3>1 DEF Builds
    <3>3. QED
      BY <3>1, <3>2 DEF Builds
  <2>3. builds' = [builds EXCEPT ![n][i] = [builds[n][i] EXCEPT !.attempt = @ + 1,
                                                                !.state = "checking"]]
    BY <1>10 DEF RerunBuild, SetBuild
  <2>4. builds' \in [PRs -> Seq(Builds)]
    BY <2>1, <2>2, <2>3, SetBuildType
  <2>5. QED
    BY <1>0, <1>10, <2>4, TypeChange DEF RerunBuild
<1>11. QED
  BY <1>1, <1>2, <1>3, <1>4, <1>5, <1>6, <1>7, <1>8, <1>9, <1>10 DEF World

LEMMA TypeBuildStep == TypeOK /\ BuildStep => TypeOK'
<1> SUFFICES ASSUME TypeOK, NEW n \in PRs, NEW i \in DOMAIN builds[n],
                    CheckRevision(n, i) \/ BuildEnds(n, i)
             PROVE  TypeOK'
  BY DEF BuildStep
<1>1. \A state \in {"checking", "building", "success", "failed"} :
        [builds[n][i] EXCEPT !.state = state] \in Builds
  BY BuildType DEF Builds
<1>2. PICK state \in {"building", "success", "failed"} :
        builds' = [builds EXCEPT ![n][i] = [builds[n][i] EXCEPT !.state = state]]
  BY DEF CheckRevision, BuildEnds, SetBuild
<1>3. builds' \in [PRs -> Seq(Builds)]
  BY <1>1, <1>2, SetBuildType
<1>4. queue' \in Nat
  BY DEF CheckRevision, BuildEnds, TypeOK
<1>5. UNCHANGED <<main, data, pr, run, kept, site, faults, reader, changes>>
  BY DEF CheckRevision, BuildEnds, pages
<1>6. ReaderType'
  BY <1>5 DEF TypeOK, ReaderType
<1>7. QED
  BY <1>3, <1>4, <1>5, <1>6 DEF TypeOK

(* A step of a run that only changes its record.                           *)
LEMMA TypeGo ==
    ASSUME TypeOK, Only, run' \in Runs \cup {None}
    PROVE  TypeOK'
<1>1. UNCHANGED <<main, data, pr, builds, changes, queue, kept, site, faults, reader>>
  BY DEF Only, world, pages
<1>2. ReaderType'
  BY <1>1 DEF TypeOK, ReaderType
<1>3. QED
  BY <1>1, <1>2 DEF TypeOK

LEMMA FreshType == Fresh \in Runs
<1>1. [n \in PRs |-> None] \in [PRs -> Bundles \cup {None}]
  OBVIOUS
<1>2. Fresh.data \in Histories
  BY <1>1 DEF Fresh, Histories
<1>3. QED
  BY <1>2 DEF Fresh, Runs, Steps

LEMMA TypeRunStep == IInv /\ RunStep => TypeOK'
<1> SUFFICES ASSUME IInv, RunStep PROVE TypeOK'
  OBVIOUS
<1>0. /\ TypeOK /\ run # None /\ run \in Runs /\ RunInv(run)
      /\ main \in Nat /\ data \in Histories
  BY DEF IInv, TypeOK, RunStep, ReadMain, ReadData, ReadPulls, Assemble, CheckMain, CheckData,
         CheckPulls, Upload, Verified, Deploy, Discover, CheckPreview, At
<1>s. \A step \in Steps : [run EXCEPT !.step = step] \in Runs
  BY <1>0 DEF Runs
<1>c. ASSUME NEW step, NEW same, NEW next \in Steps, Check(step, same, next) PROVE TypeOK'
  BY <1>0, <1>s, <1>c, TypeGo DEF Check, Go, Throw
<1>1. CASE ReadMain
  <2>1. [run EXCEPT !.main = main, !.step = "data"] \in Runs
    BY <1>0 DEF Runs, Steps
  <2>2. QED
    BY <1>0, <1>1, <2>1, TypeGo DEF ReadMain, Go
<1>2. CASE ReadData
  <2>1. [run EXCEPT !.data = data, !.step = "pulls"] \in Runs
    BY <1>0 DEF Runs, Steps
  <2>2. QED
    BY <1>0, <1>2, <2>1, TypeGo DEF ReadData, Go
<1>3. CASE ReadPulls
  <2>1. Listed(Listing) \in SUBSET PRs /\ Listing \in [PRs -> Revisions \cup {None}]
    BY <1>0, ListingType DEF Listed
  <2>2. (run.main = main /\ run.data = data) \in BOOLEAN
    OBVIOUS
  <2>3. [run EXCEPT !.open = Listing, !.todo = Listed(Listing), !.step = "discover",
                    !.whole = (run.main = main /\ run.data = data)] \in Runs
    BY <1>0, <2>1, <2>2 DEF Runs, Steps
  <2>4. QED
    BY <1>0, <1>3, <2>3, TypeGo DEF ReadPulls, Go
<1>4. ASSUME NEW n \in PRs, Discover(n) PROVE TypeOK'
  <2> DEFINE rest == [run EXCEPT !.todo = @ \ {n}]
             chosen(i) == [id |-> i, attempt |-> builds[n][i].attempt, required |-> Required(n)]
  <2>1. rest \in Runs
    BY <1>0 DEF Runs
  <2>2. ASSUME NEW i \in DOMAIN builds[n]
        PROVE  [rest EXCEPT !.previews[n] = chosen(i)] \in Runs
    <3>1. i \in Nat /\ builds[n][i].attempt \in Nat
      BY <1>0, BuildType DEF Builds
    <3>2. Required(n) \in BOOLEAN
      BY DEF Required
    <3>3. chosen(i) \in Selections
      BY <3>1, <3>2 DEF Selections
    <3>4. run.previews \in [PRs -> Selections \cup {None}]
      BY <1>0 DEF Runs
    <3>5. [run.previews EXCEPT ![n] = chosen(i)] \in [PRs -> Selections \cup {None}]
      BY <3>3, <3>4
    <3>6. rest.previews = run.previews
      BY <1>0 DEF Runs
    <3>7. QED
      BY <2>1, <3>5, <3>6 DEF Runs
  <2>3. \/ run' = rest
        \/ run' = None
        \/ \E i \in Uploaded(n, run.open[n].head) : run' = [rest EXCEPT !.previews[n] = chosen(i)]
    BY <1>4 DEF Discover, Go, Throw
  <2>4. Uploaded(n, run.open[n].head) \subseteq DOMAIN builds[n]
    BY DEF Uploaded
  <2> HIDE DEF rest, chosen
  <2>5. run' \in Runs \cup {None}
    BY <2>1, <2>2, <2>3, <2>4
  <2>6. QED
    BY <1>0, <1>4, <2>5, TypeGo DEF Discover
<1>5. CASE Assemble
  <2> DEFINE result == Assembled(run.main, data, run.open, run.previews)
  <2>1. run.main \in Nat /\ \A n \in PRs : run.previews[n] # None => run.open[n] \in Revisions
    BY <1>0 DEF RunInv, PreviewsListed, Runs
  <2>2. result \in Sites
    BY <1>0, <2>1, AssembledType
  <2>3. [run EXCEPT !.site = result, !.step = "checkMain"] \in Runs
    BY <1>0, <2>2 DEF Runs, Steps
  <2>4. QED
    BY <1>0, <1>5, <2>3, TypeGo DEF Assemble, Go, Throw
<1>6. CASE CheckMain
  BY <1>6, <1>c DEF CheckMain, Steps
<1>7. CASE CheckData
  BY <1>7, <1>c DEF CheckData, Steps
<1>8. CASE CheckPulls
  <2>1. [run EXCEPT !.step = "previews", !.todo = {n \in PRs : run.previews[n] # None}] \in Runs
    BY <1>0 DEF Runs, Steps
  <2>2. QED
    BY <1>0, <1>8, <2>1, TypeGo DEF CheckPulls, Go, Throw
<1>9. ASSUME NEW n \in PRs, CheckPreview(n) PROVE TypeOK'
  <2>1. [run EXCEPT !.todo = @ \ {n}] \in Runs
    BY <1>0 DEF Runs
  <2>2. QED
    BY <1>0, <1>9, <2>1, TypeGo DEF CheckPreview, Go, Throw
<1>10. CASE Upload
  <2>1. [run EXCEPT !.job = "deploy", !.step = "checkMain", !.steady = PRs] \in Runs
    BY <1>0 DEF Runs, Steps
  <2>2. run' \in Runs /\ kept' \in Runs \cup {None}
    BY <1>0, <1>10, <2>1 DEF Upload, Go, TypeOK
  <2>3. UNCHANGED <<main, data, pr, builds, changes, queue, site, faults, reader>>
    BY <1>10 DEF Upload, world
  <2>4. ReaderType'
    BY <1>0, <2>3 DEF TypeOK, ReaderType
  <2>5. QED
    BY <1>0, <2>2, <2>3, <2>4 DEF TypeOK
<1>11. CASE Verified
  BY <1>0, <1>s, <1>11, TypeGo DEF Verified, Go, Steps
<1>12. CASE Deploy
  <2>1. run.main \in Nat /\ \A n \in PRs : run.previews[n] # None => run.open[n] \in Revisions
    BY <1>0 DEF RunInv, PreviewsListed, Runs
  <2>2. run.site \in Sites
    BY <1>0, <1>12, <2>1, AssembledType DEF RunInv, SiteBuilt, Built, Runs, Deploy, At
  <2>3. /\ UNCHANGED <<main, data, pr, builds, changes, queue, kept, faults>>
        /\ \/ reader' = reader
           \/ reader # None /\ reader' = [reader EXCEPT !.replaced = TRUE]
    BY <1>12 DEF Deploy, world, Replaced, Loading
  <2>4. ReaderType'
    <3>1. CASE reader' = reader
      BY <1>0, <3>1 DEF TypeOK, ReaderType
    <3>2. ASSUME reader # None, reader' = [reader EXCEPT !.replaced = TRUE] PROVE ReaderType'
      <4>1. /\ reader = [page |-> reader.page, index |-> reader.index, todo |-> reader.todo,
                         got |-> reader.got, state |-> reader.state, replaced |-> reader.replaced]
            /\ reader.page \in {Root} \cup PRs /\ reader.state \in {"loading", "failed"}
            /\ reader.todo \subseteq Bundles
        BY <1>0, <3>2 DEF TypeOK, ReaderType
      <4>2. reader' = [page |-> reader.page, index |-> reader.index, todo |-> reader.todo,
                       got |-> reader.got, state |-> reader.state, replaced |-> TRUE]
        BY <3>2, <4>1
      <4>3. QED
        BY <4>1, <4>2 DEF ReaderType
    <3>3. QED
      BY <2>3, <3>1, <3>2
  <2>5. QED
    BY <1>0, <1>12, <2>2, <2>3, <2>4 DEF TypeOK, Deploy
<1>13. QED
  BY <1>1, <1>2, <1>3, <1>4, <1>5, <1>6, <1>7, <1>8, <1>9, <1>10, <1>11, <1>12 DEF RunStep

LEMMA TypeOther == TypeOK /\ (Start \/ RerunDeploy \/ Fail) => TypeOK'
<1> SUFFICES ASSUME TypeOK, Start \/ RerunDeploy \/ Fail PROVE TypeOK'
  OBVIOUS
<1>1. run' \in Runs \cup {None}
  <2>1. [Fresh EXCEPT !.checkout = main] \in Runs
    BY FreshType DEF TypeOK, Runs
  <2>2. kept \in Runs \cup {None}
    BY DEF TypeOK
  <2>3. run' = [Fresh EXCEPT !.checkout = main] \/ run' = kept \/ run' = None
    BY DEF Start, RerunDeploy, Fail, Go
  <2>4. QED
    BY <2>1, <2>2, <2>3
<1>2. queue' \in Nat /\ faults' \in 0..MaxFaults /\ kept' \in Runs \cup {None}
  BY SiteAssumption DEF Start, RerunDeploy, Fail, TypeOK, pages
<1>3. UNCHANGED <<main, data, pr, builds, changes, site, reader>>
  BY DEF Start, RerunDeploy, Fail, world, pages
<1>4. ReaderType'
  BY <1>3 DEF TypeOK, ReaderType
<1>5. QED
  BY <1>1, <1>2, <1>3, <1>4 DEF TypeOK

LEMMA TypeRead == TypeOK /\ Read => TypeOK'
<1> SUFFICES ASSUME TypeOK, Read PROVE TypeOK'
  OBVIOUS
<1>1. UNCHANGED <<main, data, pr, builds, changes, queue, run, kept, site, faults>>
  BY DEF Read, OpenPage, FetchRun, EndLoad, world, pages
<1>2. ReaderType'
  <2>1. ASSUME NEW p \in Pages(site), OpenPage(p) PROVE ReaderType'
    <3>1. p \in {Root} \cup PRs
      BY DEF Pages
    <3>2. Page(site, p).runs \subseteq Bundles
      BY DEF Page, Pages, TypeOK, Sites, PageContents
    <3>3. QED
      BY <2>1, <3>1, <3>2 DEF OpenPage, ReaderType
  <2>2. ASSUME Loading, reader' = Failed \/ reader' = None PROVE ReaderType'
    BY <2>2 DEF Failed, ReaderType, TypeOK, Loading
  <2>3. ASSUME NEW bundle \in Bundles, FetchRun(bundle) PROVE ReaderType'
    <3>1. CASE reader' = Failed
      BY <2>2, <2>3, <3>1 DEF FetchRun
    <3>2. CASE reader' = [reader EXCEPT !.todo = @ \ {bundle},
                 !.got = @ \cup {Served(bundle, Page(site, reader.page).runs)}]
      BY <2>3, <3>2 DEF FetchRun, ReaderType, TypeOK, Loading
    <3>3. QED
      BY <2>3, <3>1, <3>2 DEF FetchRun
  <2>4. CASE EndLoad
    BY <2>2, <2>4 DEF EndLoad
  <2>5. QED
    BY <2>1, <2>3, <2>4 DEF Read
<1>3. QED
  BY <1>1, <1>2 DEF TypeOK

LEMMA TypeStep == IInv /\ [Next]_vars => TypeOK'
<1> SUFFICES ASSUME IInv, [Next]_vars PROVE TypeOK'
  OBVIOUS
<1>1. TypeOK
  BY DEF IInv
<1>2. CASE UNCHANGED vars
  <2>1. ReaderType'
    BY <1>1, <1>2 DEF vars, TypeOK, ReaderType
  <2>2. QED
    BY <1>1, <1>2, <2>1 DEF vars, world, pages, TypeOK
<1>3. QED
  BY <1>1, <1>2, TypeWorld, TypeBuildStep, TypeRunStep, TypeOther, TypeRead DEF Next

LEMMA AssembledPending ==
    ASSUME NEW revision, NEW store, NEW open, NEW previews
    PROVE  PendingOfHead(Assembled(revision, store, open, previews))
<1> DEFINE s == Assembled(revision, store, open, previews)
<1> SUFFICES ASSUME NEW p \in Pages(s), Page(s, p).pending # None
             PROVE  /\ Page(s, p).pending.pullRequest.number = p
                    /\ Page(s, p).pending.pullRequest.head = Page(s, p).head
  BY DEF PendingOfHead
<1>1. p # Root /\ p \in PRs /\ s.previews[p] # None /\ Page(s, p) = s.previews[p]
  BY DEF Pages, Page
<1>2. PICK required : s.previews[p] = PreviewOf(store, p, open[p], required)
  BY <1>1 DEF Assembled
<1>3. QED
  BY <1>1, <1>2 DEF PreviewOf

(* The first deployment and the first runs satisfy the invariant.          *)
THEOREM InitInv == Init => IInv
<1> SUFFICES ASSUME Init PROVE IInv
  OBVIOUS
<1>1. TypeOK
  BY TypeInit
<1>2. data.version = 1 /\ data.published = {} /\ main = 1 /\ site.main = 1 /\ site.runs = {}
  BY DEF Init, Assembled
<1>3. \A p \in Pages(site) : \E b : Page(site, p).runs \subseteq {b}
  <2> SUFFICES ASSUME NEW p \in Pages(site) PROVE \E b : Page(site, p).runs \subseteq {b}
    OBVIOUS
  <2>1. CASE p = Root
    BY <1>2, <2>1 DEF Page
  <2>2. CASE p # Root
    <3>1. PICK revision, required : site.previews[p] = PreviewOf(data, p, revision, required)
      BY <2>2 DEF Init, Assembled, Pages
    <3>2. PreviewOf(data, p, revision, required).runs \subseteq {data.pending[p]}
      BY <1>2 DEF PreviewOf
    <3>3. QED
      BY <2>2, <3>1, <3>2 DEF Page
  <2>3. QED
    BY <2>1, <2>2
<1>4. Groups(site)
  BY <1>3 DEF Groups, Consistent, Compatible, CatalogsAgree
<1>5. PendingOfHead(site)
  BY AssembledPending DEF Init
<1>6. SiteInv
  BY <1>2, <1>4, <1>5 DEF SiteInv
<1>7. QED
  BY <1>1, <1>6 DEF IInv, ReaderInv, SteadyReader, ProductionReader, Init

-----------------------------------------------------------------------------
(* Steps of the world.                                                     *)

(* main and the data branch only grow.                                     *)
Grows ==
    /\ main <= main'
    /\ data.published \subseteq data'.published
    /\ data' = data \/ data.version < data'.version

LEMMA InvTypes ==
    ASSUME IInv
    PROVE  /\ main \in Nat /\ data \in Histories /\ data.version \in Nat
           /\ site \in Sites /\ site.main \in Nat
           /\ run # None => run \in Runs /\ run.main \in Nat /\ run.data.version \in Nat
           /\ kept # None => kept \in Runs /\ kept.main \in Nat /\ kept.data.version \in Nat
BY DEF IInv, TypeOK, Histories, Sites, Runs

LEMMA KeptFrame ==
    ASSUME IInv, IInv => TypeOK', Grows, kept' = kept
    PROVE  kept' # None => RunInv(kept)' /\ kept'.step = "checkMain"
<1> SUFFICES ASSUME kept # None PROVE RunInv(kept)' /\ kept'.step = "checkMain"
  OBVIOUS
<1>1. RunInv(kept) /\ kept.step = "checkMain"
  BY DEF IInv
<1>2. main' \in Nat /\ data'.version \in Nat
  BY DEF TypeOK, Histories
<1>3. ReadPast(kept)'
  BY <1>1, <1>2, InvTypes DEF RunInv, ReadPast, Grows
<1>4. OneSnapshot(kept)'
  BY <1>1, <1>2, InvTypes DEF RunInv, OneSnapshot, Grows
<1>5. SiteBuilt(kept)' /\ PreviewsListed(kept)'
  BY <1>1 DEF RunInv, SiteBuilt, PreviewsListed
<1>6. NotBehind(kept)' /\ PreviewsAgree(kept)'
  BY <1>1 DEF NotBehind, PreviewsAgree
<1>7. QED
  BY <1>1, <1>3, <1>4, <1>5, <1>6 DEF RunInv

(* The run itself forgets the PRs that change.                             *)
LEMMA RunFrame ==
    ASSUME IInv, IInv => TypeOK', Grows, site' = site, run # None,
           NEW steady \in SUBSET run.steady, run' = [run EXCEPT !.steady = steady],
           \A n \in steady : Listing'[n] = Listing[n] /\ Required(n)' = Required(n)
    PROVE  RunInv(run)'
<1>1. RunInv(run) /\ run \in Runs
  BY InvTypes DEF IInv
<1>2. main' \in Nat /\ data'.version \in Nat
  BY DEF TypeOK, Histories
<1>3. /\ run'.main = run.main /\ run'.data = run.data /\ run'.step = run.step
      /\ run'.whole = run.whole /\ run'.site = run.site /\ run'.open = run.open
      /\ run'.previews = run.previews /\ run'.todo = run.todo /\ run'.steady = steady
  BY <1>1 DEF Runs
<1>4. ReadPast(run)'
  BY <1>1, <1>2, <1>3, InvTypes DEF RunInv, ReadPast, Grows
<1>5. OneSnapshot(run)'
  BY <1>1, <1>2, <1>3, InvTypes DEF RunInv, OneSnapshot, Grows
<1>6. SiteBuilt(run)' /\ PreviewsListed(run)'
  BY <1>1, <1>3 DEF RunInv, SiteBuilt, PreviewsListed
<1>7. NotBehind(run)'
  BY <1>1, <1>3 DEF RunInv, NotBehind
<1>8. PreviewsAgree(run)'
  BY <1>1, <1>3 DEF RunInv, PreviewsAgree
<1>9. QED
  BY <1>4, <1>5, <1>6, <1>7, <1>8 DEF RunInv

(* A step that leaves the world, the site and a run alone.                 *)
LEMMA RunSame ==
    ASSUME IInv, UNCHANGED <<main, data, pr, site, run>>, run # None
    PROVE  RunInv(run)'
BY DEF IInv, RunInv, ReadPast, OneSnapshot, SiteBuilt, PreviewsListed, NotBehind, PreviewsAgree,
       Listing, Required

LEMMA WorldGrows ==
    ASSUME IInv, World
    PROVE  /\ Grows
           /\ UNCHANGED <<site, kept, reader>>
           /\ run = None => run' = None
           /\ run # None => \E steady \in SUBSET run.steady :
                /\ run' = [run EXCEPT !.steady = steady]
                /\ \A n \in steady : Listing'[n] = Listing[n] /\ Required(n)' = Required(n)
<1>1. UNCHANGED <<site, kept, reader>>
  BY DEF World, PushMain, Archive, Promote, Merge, List, Unlist, PushHead, MoveBase, Relabel,
         RerunBuild, ChangePR, Change, pages
<1>2. Grows
  <2>1. main' = main \/ main' = main + 1
    BY DEF World, PushMain, Archive, Promote, Merge, List, Unlist, PushHead, MoveBase, Relabel,
           RerunBuild
  <2>2. \/ data' = data
        \/ data'.version = data.version + 1 /\ data.published \subseteq data'.published
    BY InvTypes DEF World, PushMain, Archive, Promote, Merge, List, Unlist, PushHead, MoveBase,
           Relabel, RerunBuild, Histories
  <2>3. QED
    BY <2>1, <2>2, InvTypes DEF Grows
<1>3. CASE UNCHANGED <<pr, run>>
  <2>1. run # None => run' = [run EXCEPT !.steady = run.steady] /\ run.steady \in SUBSET run.steady
    BY <1>3, InvTypes DEF Runs
  <2>2. \A n : Required(n)' = Required(n)
    BY <1>3 DEF Required
  <2>3. Listing' = Listing
    BY <1>3 DEF Listing
  <2>4. QED
    BY <1>1, <1>2, <1>3, <2>1, <2>2, <2>3
<1>4. ASSUME NEW n \in PRs, NEW fields, NEW triggers, ChangePR(n, fields, triggers)
      PROVE  /\ run = None => run' = None
             /\ run # None => \E steady \in SUBSET run.steady :
                  /\ run' = [run EXCEPT !.steady = steady]
                  /\ \A m \in steady : Listing'[m] = Listing[m] /\ Required(m)' = Required(m)
  <2> SUFFICES ASSUME run # None
               PROVE  \A m \in run.steady \ {n} : Listing'[m] = Listing[m] /\ Required(m)' = Required(m)
    BY <1>4 DEF ChangePR
  <2> SUFFICES ASSUME NEW m \in run.steady \ {n}
               PROVE  Listing'[m] = Listing[m] /\ Required(m)' = Required(m)
    OBVIOUS
  <2>1. m \in PRs
    BY InvTypes DEF Runs
  <2>2. pr'[m] = pr[m]
    BY <1>4, <2>1 DEF ChangePR, IInv, TypeOK, PullRequests
  <2>3. QED
    BY <2>1, <2>2 DEF Listing, Required
<1>5. UNCHANGED <<pr, run>> \/ \E n \in PRs : \E fields : \E triggers : ChangePR(n, fields, triggers)
  BY DEF World, PushMain, Archive, Promote, Merge, List, Unlist, PushHead, MoveBase, Relabel,
         RerunBuild
<1>6. QED
  BY <1>1, <1>2, <1>3, <1>4, <1>5

LEMMA InvWorld == IInv /\ World => IInv'
<1> SUFFICES ASSUME IInv, World PROVE IInv'
  OBVIOUS
<1>1. TypeOK' /\ (IInv => TypeOK')
  BY TypeStep DEF Next
<1>2. /\ Grows
      /\ UNCHANGED <<site, kept, reader>>
      /\ run = None => run' = None
      /\ run # None => \E steady \in SUBSET run.steady :
           /\ run' = [run EXCEPT !.steady = steady]
           /\ \A n \in steady : Listing'[n] = Listing[n] /\ Required(n)' = Required(n)
  BY WorldGrows
<1>3. kept' # None => RunInv(kept)' /\ kept'.step = "checkMain"
  BY <1>1, <1>2, KeptFrame
<1>4. run' # None => RunInv(run)'
  BY <1>1, <1>2, RunFrame
<1>5. SiteInv'
  <2>1. main' \in Nat /\ data'.version \in Nat
    BY <1>1 DEF TypeOK, Histories
  <2>2. QED
    BY <1>2, <2>1, InvTypes DEF IInv, SiteInv, Grows
<1>6. ReaderInv'
  BY <1>2 DEF IInv, ReaderInv, SteadyReader, ProductionReader
<1>7. QED
  BY <1>1, <1>3, <1>4, <1>5, <1>6 DEF IInv

(* Steps that change neither the world's inputs nor the site nor the runs. *)
LEMMA InvSame ==
    ASSUME IInv, TypeOK', UNCHANGED <<main, data, pr, site, run, kept>>, ReaderInv'
    PROVE  IInv'
<1>1. SiteInv'
  BY DEF IInv, SiteInv
<1>2. run' # None => RunInv(run)'
  BY RunSame
<1>3. Grows
  BY InvTypes DEF Grows
<1>4. kept' # None => RunInv(kept)' /\ kept'.step = "checkMain"
  BY <1>3, KeptFrame
<1>5. QED
  BY <1>1, <1>2, <1>4 DEF IInv

LEMMA InvBuildStep == IInv /\ BuildStep => IInv'
<1> SUFFICES ASSUME IInv, BuildStep PROVE IInv'
  OBVIOUS
<1>1. TypeOK'
  BY TypeStep DEF Next
<1>2. UNCHANGED <<main, data, pr, site, run, kept, reader>>
  BY DEF BuildStep, CheckRevision, BuildEnds, pages
<1>3. ReaderInv'
  BY <1>2 DEF IInv, ReaderInv, SteadyReader, ProductionReader
<1>4. QED
  BY <1>1, <1>2, <1>3, InvSame

-----------------------------------------------------------------------------
(* Steps of a run.                                                         *)

LEMMA RunGoes ==
    ASSUME IInv, TypeOK', Only, run' # None => RunInv(run)'
    PROVE  IInv'
<1>1. UNCHANGED <<main, data, pr, site, kept, reader>>
  BY DEF Only, world, pages
<1>2. Grows
  BY <1>1, InvTypes DEF Grows
<1>3. kept' # None => RunInv(kept)' /\ kept'.step = "checkMain"
  BY <1>1, <1>2, KeptFrame
<1>4. SiteInv' /\ ReaderInv'
  BY <1>1 DEF IInv, SiteInv, ReaderInv, SteadyReader, ProductionReader
<1>5. QED
  BY <1>3, <1>4 DEF IInv

LEMMA InvRead ==
    ASSUME IInv, ReadMain \/ ReadData \/ ReadPulls
    PROVE  IInv'
<1>1. TypeOK'
  BY TypeStep DEF Next, RunStep
<1>2. run # None /\ run \in Runs /\ RunInv(run) /\ Only /\ UNCHANGED <<main, data, pr, site>>
  BY InvTypes DEF IInv, ReadMain, ReadData, ReadPulls, At, Only, world, pages
<1>3. main' \in Nat /\ data'.version \in Nat /\ data'.version > 0
  BY <1>2, InvTypes DEF IInv, SiteInv
<1>4. CASE ReadMain
  <2>1. /\ run'.main = main /\ run'.data = run.data /\ run'.step = "data" /\ run'.todo = run.todo
        /\ run'.previews = run.previews /\ run'.open = run.open
    BY <1>2, <1>4 DEF ReadMain, At, Go, Runs
  <2>2. RunInv(run)'
    BY <1>2, <1>3, <1>4, <2>1, InvTypes
    DEF RunInv, ReadPast, OneSnapshot, SiteBuilt, PreviewsListed, NotBehind, PreviewsAgree, Built, ReadMain, At
  <2>3. QED
    BY <1>1, <1>2, <2>2, RunGoes
<1>5. CASE ReadData
  <2>1. /\ run'.main = run.main /\ run'.data = data /\ run'.step = "pulls" /\ run'.todo = run.todo
        /\ run'.previews = run.previews /\ run'.open = run.open
    BY <1>2, <1>5 DEF ReadData, Go, Runs
  <2>2. RunInv(run)'
    BY <1>2, <1>3, <1>5, <2>1, InvTypes
    DEF RunInv, ReadPast, OneSnapshot, SiteBuilt, PreviewsListed, NotBehind, PreviewsAgree, Built, ReadData, At
  <2>3. QED
    BY <1>1, <1>2, <2>2, RunGoes
<1>6. CASE ReadPulls
  <2>1. /\ run'.main = run.main /\ run'.data = run.data /\ run'.step = "discover"
        /\ run'.todo = Listed(Listing) /\ run'.previews = run.previews /\ run'.open = Listing
        /\ run'.whole = (run.main = main /\ run.data = data)
    BY <1>2, <1>6 DEF ReadPulls, Go, Runs
  <2>2. ReadPast(run)' /\ OneSnapshot(run)'
    <3>1. ReadPast(run)'
      BY <1>2, <2>1 DEF RunInv, ReadPast
    <3>2. run'.whole \/ run.main # main \/ run.data # data
      BY <2>1, Zenon
    <3>3. run'.whole \/ run.main < main \/ run.data.version < data.version
      BY <1>2, <3>2, InvTypes DEF RunInv, ReadPast
    <3>4. QED
      BY <1>2, <2>1, <3>1, <3>3 DEF OneSnapshot
  <2>3. SiteBuilt(run)' /\ NotBehind(run)' /\ PreviewsAgree(run)'
    BY <2>1 DEF SiteBuilt, NotBehind, PreviewsAgree, Built
  <2>4. \A n \in PRs : run.previews[n] = None
    BY <1>2, <1>6 DEF RunInv, PreviewsListed, ReadPulls, At
  <2>5. PreviewsListed(run)'
    BY <2>1, <2>4 DEF PreviewsListed, Listed
  <2>6. QED
    BY <1>1, <1>2, <2>2, <2>3, <2>5, RunGoes DEF RunInv
<1>7. QED
  BY <1>4, <1>5, <1>6

(* Steps that only move a run on, forgetting PRs it has dealt with.        *)
LEMMA RunPart ==
    ASSUME IInv, run # None, Only, run' = [run EXCEPT !.step = run'.step, !.todo = run'.todo],
           run'.step \in Steps
    PROVE  /\ run'.main = run.main /\ run'.data = run.data /\ run'.whole = run.whole
           /\ run'.open = run.open /\ run'.previews = run.previews /\ run'.site = run.site
           /\ run'.steady = run.steady
           /\ ReadPast(run)'
           /\ UNCHANGED <<main, data, pr, site>>
<1>1. UNCHANGED <<main, data, pr, site>>
  BY DEF Only, world, pages
<1>2. run \in Runs /\ ReadPast(run)
  BY InvTypes DEF IInv, RunInv
<1>3. /\ run'.main = run.main /\ run'.data = run.data /\ run'.whole = run.whole
      /\ run'.open = run.open /\ run'.previews = run.previews /\ run'.site = run.site
      /\ run'.steady = run.steady
  BY <1>2 DEF Runs
<1>4. QED
  BY <1>1, <1>2, <1>3 DEF ReadPast

LEMMA InvDiscover == ASSUME IInv, NEW n \in PRs, Discover(n) PROVE IInv'
<1>1. TypeOK'
  BY TypeStep DEF Next, RunStep
<1>2. /\ run # None /\ run \in Runs /\ RunInv(run) /\ Only /\ run.step = "discover"
      /\ n \in run.todo /\ run.open[n] # None
      /\ UNCHANGED <<main, data, pr, site>>
  BY InvTypes DEF IInv, Discover, At, Only, world, pages, RunInv, PreviewsListed
<1>3. run' = None \/ /\ run'.main = run.main /\ run'.data = run.data /\ run'.step = "discover"
                     /\ run'.todo = run.todo \ {n} /\ run'.open = run.open
                     /\ run'.whole = run.whole
                     /\ \A m \in PRs \ {n} : run'.previews[m] = run.previews[m]
  <2> DEFINE rest == [run EXCEPT !.todo = @ \ {n}]
             chosen(i) == [id |-> i, attempt |-> builds[n][i].attempt, required |-> Required(n)]
  <2>1. \/ run' = rest
        \/ run' = None
        \/ \E i \in Uploaded(n, run.open[n].head) : run' = [rest EXCEPT !.previews[n] = chosen(i)]
    BY DEF Discover, Go, Throw
  <2>2. run.previews \in [PRs -> Selections \cup {None}]
    BY <1>2 DEF Runs
  <2>3. CASE run' = rest
    BY <1>2, <2>3 DEF Runs
  <2>4. ASSUME NEW i, run' = [rest EXCEPT !.previews[n] = chosen(i)]
        PROVE  /\ run'.main = run.main /\ run'.data = run.data /\ run'.step = "discover"
               /\ run'.todo = run.todo \ {n} /\ run'.open = run.open /\ run'.whole = run.whole
               /\ \A m \in PRs \ {n} : run'.previews[m] = run.previews[m]
    <3> HIDE DEF chosen
    <3>1. QED
      BY <1>2, <2>2, <2>4 DEF Runs
  <2>5. QED
    BY <2>1, <2>3, <2>4
<1>4. ASSUME run' # None PROVE RunInv(run)'
  <2>1. ReadPast(run)' /\ OneSnapshot(run)'
    BY <1>2, <1>3, <1>4 DEF RunInv, ReadPast, OneSnapshot
  <2>2. SiteBuilt(run)' /\ NotBehind(run)' /\ PreviewsAgree(run)'
    BY <1>3, <1>4 DEF SiteBuilt, NotBehind, PreviewsAgree, Built
  <2>3. PreviewsListed(run)'
    BY <1>2, <1>3, <1>4 DEF RunInv, PreviewsListed
  <2>4. QED
    BY <2>1, <2>2, <2>3 DEF RunInv
<1>5. QED
  BY <1>1, <1>2, <1>4, RunGoes

LEMMA InvAssemble == ASSUME IInv, Assemble PROVE IInv'
<1>1. TypeOK'
  BY TypeStep DEF Next, RunStep
<1>2. /\ run # None /\ run \in Runs /\ RunInv(run) /\ Only /\ run.step = "discover"
      /\ UNCHANGED <<main, data, pr, site>>
  BY InvTypes DEF IInv, Assemble, At, Only, world, pages
<1>3. ASSUME run' # None PROVE RunInv(run)'
  <2> DEFINE result == Assembled(run.main, data, run.open, run.previews)
  <2>1. run.data = data /\ Groups(result) /\ run' = [run EXCEPT !.site = result, !.step = "checkMain"]
    BY <1>3 DEF Assemble, Go, Throw
  <2> HIDE DEF result
  <2>2. /\ run'.main = run.main /\ run'.data = run.data /\ run'.step = "checkMain"
        /\ run'.todo = run.todo /\ run'.open = run.open /\ run'.whole = run.whole
        /\ run'.previews = run.previews /\ run'.site = result
    BY <1>2, <2>1 DEF Runs
  <2>3. Groups(result)
    BY <2>1
  <2>4. ReadPast(run)' /\ OneSnapshot(run)'
    BY <1>2, <2>2 DEF RunInv, ReadPast, OneSnapshot
  <2>5. SiteBuilt(run)'
    BY <2>1, <2>2, <2>3 DEF SiteBuilt, result
  <2>6. PreviewsListed(run)' /\ NotBehind(run)' /\ PreviewsAgree(run)'
    BY <1>2, <2>2 DEF RunInv, PreviewsListed, NotBehind, PreviewsAgree
  <2>7. QED
    BY <2>4, <2>5, <2>6 DEF RunInv
<1>4. QED
  BY <1>1, <1>2, <1>3, RunGoes

LEMMA InvCheck == ASSUME IInv, CheckMain \/ CheckData \/ CheckPulls PROVE IInv'
<1>1. TypeOK'
  BY TypeStep DEF Next, RunStep
<1>2. run # None /\ run \in Runs /\ RunInv(run) /\ Only /\ run.step \in Built
  BY InvTypes DEF IInv, CheckMain, CheckData, CheckPulls, Check, At, Built
<1>3. ASSUME run' # None, CheckMain PROVE RunInv(run)'
  <2>1. /\ run.step = "checkMain" /\ run.main = main
        /\ run' = [run EXCEPT !.step = "checkData"]
    BY <1>3 DEF CheckMain, Check, At, Go, Throw
  <2>2. run'.step = "checkData" /\ run'.todo = run.todo
    BY <1>2, <2>1 DEF Runs
  <2>3. run' = [run EXCEPT !.step = run'.step, !.todo = run'.todo] /\ run'.step \in Steps
    BY <1>2, <2>1, <2>2 DEF Runs, Steps
  <2>4. OneSnapshot(run)'
    BY <1>2, <2>1, <2>2, <2>3, RunPart, InvTypes DEF RunInv, OneSnapshot
  <2>5. NotBehind(run)' /\ PreviewsAgree(run)'
    BY <1>2, <2>1, <2>2, <2>3, RunPart DEF IInv, SiteInv, NotBehind, PreviewsAgree
  <2>6. SiteBuilt(run)' /\ PreviewsListed(run)' /\ ReadPast(run)'
    BY <1>2, <2>1, <2>2, <2>3, RunPart DEF RunInv, SiteBuilt, PreviewsListed, Built
  <2>7. QED
    BY <2>4, <2>5, <2>6 DEF RunInv
<1>4. ASSUME run' # None, CheckData PROVE RunInv(run)'
  <2>1. /\ run.step = "checkData" /\ run.data = data
        /\ run' = [run EXCEPT !.step = "checkPulls"]
    BY <1>4 DEF CheckData, Check, At, Go, Throw
  <2>2. run'.step = "checkPulls" /\ run'.todo = run.todo
    BY <1>2, <2>1 DEF Runs
  <2>3. run' = [run EXCEPT !.step = run'.step, !.todo = run'.todo] /\ run'.step \in Steps
    BY <1>2, <2>1, <2>2 DEF Runs, Steps
  <2>4. OneSnapshot(run)'
    BY <1>2, <2>1, <2>2, <2>3, RunPart, InvTypes DEF RunInv, OneSnapshot
  <2>5. NotBehind(run)' /\ PreviewsAgree(run)'
    BY <1>2, <2>1, <2>2, <2>3, RunPart DEF IInv, RunInv, SiteInv, NotBehind, PreviewsAgree, Built
  <2>6. SiteBuilt(run)' /\ PreviewsListed(run)' /\ ReadPast(run)'
    BY <1>2, <2>1, <2>2, <2>3, RunPart DEF RunInv, SiteBuilt, PreviewsListed, Built
  <2>7. QED
    BY <2>4, <2>5, <2>6 DEF RunInv
<1>5. ASSUME run' # None, CheckPulls PROVE RunInv(run)'
  <2>1. /\ run.step = "checkPulls" /\ run.open = Listing
        /\ run' = [run EXCEPT !.step = "previews", !.todo = {n \in PRs : run.previews[n] # None}]
    BY <1>5 DEF CheckPulls, At, Go, Throw
  <2>2. run'.step = "previews" /\ run'.todo = {n \in PRs : run.previews[n] # None}
    BY <1>2, <2>1 DEF Runs
  <2>3. run' = [run EXCEPT !.step = run'.step, !.todo = run'.todo] /\ run'.step \in Steps
    BY <1>2, <2>1, <2>2 DEF Runs, Steps
  <2>4. OneSnapshot(run)' /\ NotBehind(run)'
    BY <1>2, <2>1, <2>2, <2>3, RunPart DEF RunInv, OneSnapshot, NotBehind, Built
  <2>5. PreviewsAgree(run)'
    <3>1. run.steady \subseteq PRs /\ Listing' = Listing
      BY <1>2, <2>3, RunPart DEF Runs, Listing
    <3>2. QED
      BY <2>1, <2>2, <2>3, <3>1, <1>2, RunPart DEF PreviewsAgree
  <2>6. SiteBuilt(run)' /\ PreviewsListed(run)' /\ ReadPast(run)'
    BY <1>2, <2>1, <2>2, <2>3, RunPart DEF RunInv, SiteBuilt, PreviewsListed, Built
  <2>7. QED
    BY <2>4, <2>5, <2>6 DEF RunInv
<1>6. QED
  BY <1>1, <1>2, <1>3, <1>4, <1>5, RunGoes

LEMMA InvPreview ==
    ASSUME IInv, Verified \/ \E n \in PRs : CheckPreview(n)
    PROVE  IInv'
<1>1. TypeOK'
  BY TypeStep DEF Next, RunStep
<1>2. run # None /\ run \in Runs /\ RunInv(run) /\ Only /\ run.step = "previews"
  BY InvTypes DEF IInv, Verified, CheckPreview, At
<1>3. ASSUME run' # None, NEW n \in PRs, CheckPreview(n) PROVE RunInv(run)'
  <2>1. run' = [run EXCEPT !.todo = @ \ {n}] /\ n \in run.todo /\ run.previews[n].required = Required(n)
    BY <1>3 DEF CheckPreview, Go, Throw
  <2>2. run'.step = "previews" /\ run'.todo = run.todo \ {n}
    BY <1>2, <2>1 DEF Runs
  <2>3. run' = [run EXCEPT !.step = run'.step, !.todo = run'.todo] /\ run'.step \in Steps
    BY <1>2, <2>1, <2>2 DEF Runs, Steps
  <2>4. OneSnapshot(run)' /\ NotBehind(run)' /\ SiteBuilt(run)' /\ PreviewsListed(run)' /\ ReadPast(run)'
    BY <1>2, <2>1, <2>2, <2>3, RunPart DEF RunInv, OneSnapshot, NotBehind, SiteBuilt, PreviewsListed, Built
  <2>5. PreviewsAgree(run)'
    <3>1. Listing' = Listing /\ \A m \in PRs : Required(m)' = Required(m)
      BY <1>2, <2>3, RunPart DEF Listing, Required
    <3>2. run.steady \subseteq PRs
      BY <1>2 DEF Runs
    <3>3. QED
      BY <1>2, <2>1, <2>2, <2>3, <3>1, <3>2, RunPart DEF RunInv, PreviewsAgree
  <2>6. QED
    BY <2>4, <2>5 DEF RunInv
<1>4. ASSUME Verified PROVE RunInv(run)'
  <2>1. run' = [run EXCEPT !.step = "deploy"] /\ run.todo = {}
    BY <1>4 DEF Verified, Go
  <2>2. run'.step = "deploy" /\ run'.todo = {}
    BY <1>2, <2>1 DEF Runs
  <2>3. run' = [run EXCEPT !.step = run'.step, !.todo = run'.todo] /\ run'.step \in Steps
    BY <1>2, <2>1, <2>2 DEF Runs, Steps
  <2>4. OneSnapshot(run)' /\ NotBehind(run)' /\ SiteBuilt(run)' /\ PreviewsListed(run)' /\ ReadPast(run)'
    BY <1>2, <2>1, <2>2, <2>3, RunPart DEF RunInv, OneSnapshot, NotBehind, SiteBuilt, PreviewsListed, Built
  <2>5. PreviewsAgree(run)'
    <3>1. Listing' = Listing /\ \A m \in PRs : Required(m)' = Required(m)
      BY <1>2, <2>3, RunPart DEF Listing, Required
    <3>2. run.steady \subseteq PRs
      BY <1>2 DEF Runs
    <3>3. QED
      BY <1>2, <2>1, <2>2, <2>3, <3>1, <3>2, RunPart DEF RunInv, PreviewsAgree
  <2>6. QED
    BY <2>4, <2>5 DEF RunInv
<1>5. QED
  BY <1>1, <1>2, <1>3, <1>4, RunGoes

LEMMA InvUpload == ASSUME IInv, Upload PROVE IInv'
<1>1. TypeOK'
  BY TypeStep DEF Next, RunStep
<1>2. /\ run # None /\ run \in Runs /\ RunInv(run) /\ run.step = "previews"
      /\ UNCHANGED <<main, data, pr, site, reader>>
      /\ run' = [run EXCEPT !.job = "deploy", !.step = "checkMain", !.steady = PRs]
      /\ kept' = kept \/ kept' = run'
  BY InvTypes DEF IInv, Upload, Go, At, world
<1>3. /\ run'.main = run.main /\ run'.data = run.data /\ run'.step = "checkMain"
      /\ run'.todo = run.todo /\ run'.open = run.open /\ run'.whole = run.whole
      /\ run'.previews = run.previews /\ run'.site = run.site
  BY <1>2 DEF Runs
<1>4. RunInv(run)'
  <2>1. ReadPast(run)' /\ OneSnapshot(run)'
    BY <1>2, <1>3 DEF RunInv, ReadPast, OneSnapshot
  <2>2. SiteBuilt(run)' /\ PreviewsListed(run)'
    BY <1>2, <1>3 DEF RunInv, SiteBuilt, PreviewsListed, Built
  <2>3. NotBehind(run)' /\ PreviewsAgree(run)'
    BY <1>3 DEF NotBehind, PreviewsAgree
  <2>4. QED
    BY <2>1, <2>2, <2>3 DEF RunInv
<1>5. kept' # None => RunInv(kept)' /\ kept'.step = "checkMain"
  <2>1. CASE kept' = kept
    BY <1>1, <1>2, <2>1, InvTypes, KeptFrame DEF Grows
  <2>2. CASE kept' = run'
    BY <1>3, <1>4, <2>2 DEF RunInv, ReadPast, OneSnapshot, SiteBuilt, PreviewsListed, NotBehind,
                            PreviewsAgree
  <2>3. QED
    BY <1>2, <2>1, <2>2
<1>6. SiteInv' /\ ReaderInv'
  BY <1>2 DEF IInv, SiteInv, ReaderInv, SteadyReader, ProductionReader
<1>7. QED
  BY <1>1, <1>4, <1>5, <1>6 DEF IInv

(* What is deployed is not older than what it replaces.                    *)
LEMMA DeployGrows ==
    ASSUME IInv, Deploy
    PROVE  /\ site.main <= site'.main /\ site.runs \subseteq site'.runs
           /\ site'.main <= main /\ site'.runs \subseteq data.published
           /\ Groups(site') /\ PendingOfHead(site')
<1>1. run # None /\ RunInv(run) /\ run.step = "deploy" /\ site' = run.site
  BY DEF IInv, Deploy, At
<1>2. site' = Assembled(run.main, run.data, run.open, run.previews) /\ Groups(site')
  BY <1>1 DEF RunInv, SiteBuilt, Built
<1>3. site'.main = run.main /\ site'.runs = run.data.published
  BY <1>2 DEF Assembled
<1>4. PendingOfHead(site')
  BY <1>2, AssembledPending
<1>5. QED
  BY <1>1, <1>2, <1>3, <1>4 DEF RunInv, NotBehind, ReadPast, Built

LEMMA InvDeploy == ASSUME IInv, Deploy PROVE IInv'
<1>1. TypeOK'
  BY TypeStep DEF Next, RunStep
<1>2. run' = None /\ UNCHANGED <<main, data, pr, kept>>
  BY DEF Deploy, world
<1>3. kept' # None => RunInv(kept)' /\ kept'.step = "checkMain"
  BY <1>1, <1>2, InvTypes, KeptFrame DEF Grows
<1>4. SiteInv'
  BY <1>2, DeployGrows DEF IInv, SiteInv
<1>5. ReaderInv'
  <2>0. reader # None =>
           reader = [page |-> reader.page, index |-> reader.index, todo |-> reader.todo,
                     got |-> reader.got, state |-> reader.state, replaced |-> reader.replaced]
    BY DEF IInv, TypeOK, ReaderType
  <2>1. CASE Replaced
    <3>1. /\ reader # None /\ reader'.replaced /\ reader'.page = reader.page
          /\ reader'.state = reader.state /\ reader'.index = reader.index
          /\ reader'.todo = reader.todo /\ reader'.got = reader.got
      BY <2>0, <2>1 DEF Deploy, Replaced, Loading
    <3>2. SteadyReader'
      BY <3>1 DEF SteadyReader
    <3>3. ProductionReader'
      BY <3>1, DeployGrows DEF IInv, ReaderInv, ProductionReader
    <3>4. QED
      BY <3>2, <3>3 DEF ReaderInv
  <2>2. CASE ~Replaced
    <3>1. reader' = reader /\ site' = run.site
      BY <2>2 DEF Deploy
    <3>2. SteadyReader'
      BY <2>2, <3>1 DEF IInv, ReaderInv, SteadyReader, Replaced, Loading
    <3>3. ProductionReader'
      BY <3>1, DeployGrows DEF IInv, ReaderInv, ProductionReader
    <3>4. QED
      BY <3>2, <3>3 DEF ReaderInv
  <2>3. QED
    BY <2>1, <2>2
<1>6. QED
  BY <1>1, <1>2, <1>3, <1>4, <1>5 DEF IInv

LEMMA InvRunStep == IInv /\ RunStep => IInv'
BY InvRead, InvDiscover, InvAssemble, InvCheck, InvPreview, InvUpload, InvDeploy DEF RunStep

LEMMA InvOther == IInv /\ (Start \/ RerunDeploy \/ Fail) => IInv'
<1> SUFFICES ASSUME IInv, Start \/ RerunDeploy \/ Fail PROVE IInv'
  OBVIOUS
<1>1. TypeOK'
  BY TypeStep DEF Next
<1>2. UNCHANGED <<main, data, pr, site, reader>>
  BY DEF Start, RerunDeploy, Fail, world, pages
<1>3. SiteInv' /\ ReaderInv' /\ Grows
  BY <1>2, InvTypes DEF IInv, SiteInv, ReaderInv, SteadyReader, ProductionReader, Grows
<1>4. CASE Start
  <2>1. run' = [Fresh EXCEPT !.checkout = main] /\ kept' = kept
    BY <1>4 DEF Start, Go, pages
  <2>2. /\ run'.main = 0 /\ run'.data.published = {} /\ run'.data.version = 0 /\ run'.step = "main"
        /\ run'.todo = {} /\ \A n \in PRs : run'.previews[n] = None
    BY <2>1 DEF Fresh
  <2>3. RunInv(run)'
    BY <1>2, <2>2, InvTypes
    DEF IInv, SiteInv, RunInv, ReadPast, OneSnapshot, SiteBuilt, PreviewsListed, NotBehind,
        PreviewsAgree, Built
  <2>4. QED
    BY <1>1, <1>3, <2>1, <2>3, KeptFrame DEF IInv
<1>5. CASE RerunDeploy
  <2>1. run' = kept /\ kept # None /\ kept' = None
    BY <1>5 DEF RerunDeploy
  <2>2. RunInv(kept) /\ kept.step = "checkMain"
    BY <2>1 DEF IInv
  <2>3. RunInv(run)'
    BY <1>2, <2>1, <2>2
    DEF RunInv, ReadPast, OneSnapshot, SiteBuilt, PreviewsListed, NotBehind, PreviewsAgree
  <2>4. QED
    BY <1>1, <1>3, <2>1, <2>3 DEF IInv
<1>6. CASE Fail
  <2>1. run' = None /\ kept' = kept
    BY <1>6 DEF Fail
  <2>2. QED
    BY <1>1, <1>3, <2>1, KeptFrame DEF IInv
<1>7. QED
  BY <1>4, <1>5, <1>6

-----------------------------------------------------------------------------
(* The reader.                                                             *)

(* Files that were served for parts of one consistent history group.       *)
LEMMA ServedAgree ==
    ASSUME NEW all \in SUBSET Bundles, Consistent(all),
           NEW runs1 \in SUBSET all, NEW first \in runs1,
           NEW runs2 \in SUBSET all, NEW second \in runs2
    PROVE  Compatible(Served(first, runs1), Served(second, runs2))
<1> DEFINE group(b, runs) == {c \in runs : c.version = b.version}
           owner(id, b, runs) == CHOOSE c \in group(b, runs) : id \in DOMAIN c.catalog
           merged(b, runs) == [id \in UNION {DOMAIN c.catalog : c \in group(b, runs)} |->
                                 owner(id, b, runs).catalog[id]]
<1>1. ASSUME NEW b \in Bundles, NEW runs
      PROVE  /\ Served(b, runs).source = b.source
             /\ Served(b, runs).version = b.version
             /\ Served(b, runs).settings = b.settings
             /\ Served(b, runs).catalog = merged(b, runs)
  <2>1. Served(b, runs) = [b EXCEPT !.catalog = merged(b, runs)]
    BY DEF Served
  <2>2. b = [run |-> b.run, pullRequest |-> b.pullRequest, tree |-> b.tree,
             source |-> b.source, complete |-> b.complete, version |-> b.version,
             settings |-> b.settings, catalog |-> b.catalog, sku |-> b.sku]
    BY SiteAssumption
  <2> HIDE DEF merged
  <2>3. QED
    BY <2>1, <2>2
<1>2. ASSUME NEW b \in Bundles, NEW runs, NEW id \in DOMAIN merged(b, runs)
      PROVE  /\ owner(id, b, runs) \in group(b, runs)
             /\ id \in DOMAIN owner(id, b, runs).catalog
             /\ merged(b, runs)[id] = owner(id, b, runs).catalog[id]
  <2>1. \E c \in group(b, runs) : id \in DOMAIN c.catalog
    BY <1>2
  <2>2. QED
    BY <1>2, <2>1
<1>3. first.source = second.source
  BY DEF Consistent, Compatible
<1>4. ASSUME first.version = second.version
      PROVE  /\ first.settings = second.settings
             /\ CatalogsAgree(merged(first, runs1), merged(second, runs2))
  <2>1. first.settings = second.settings
    BY <1>4 DEF Consistent, Compatible
  <2>2. ASSUME NEW id \in DOMAIN merged(first, runs1) \cap DOMAIN merged(second, runs2)
        PROVE  merged(first, runs1)[id] = merged(second, runs2)[id]
    <3> DEFINE one == owner(id, first, runs1)
               two == owner(id, second, runs2)
    <3>1. /\ one \in runs1 /\ one.version = first.version /\ id \in DOMAIN one.catalog
          /\ two \in runs2 /\ two.version = second.version /\ id \in DOMAIN two.catalog
          /\ merged(first, runs1)[id] = one.catalog[id]
          /\ merged(second, runs2)[id] = two.catalog[id]
      BY <1>2, <2>2
    <3> HIDE DEF one, two, merged
    <3>2. Compatible(one, two)
      BY <3>1 DEF Consistent
    <3>3. QED
      BY <1>4, <3>1, <3>2 DEF Compatible, CatalogsAgree
  <2>3. QED
    BY <2>1, <2>2 DEF CatalogsAgree
<1>5. first \in Bundles /\ second \in Bundles
  OBVIOUS
<1> HIDE DEF merged
<1>6. QED
  BY <1>1, <1>3, <1>4, <1>5 DEF Compatible

LEMMA ReaderShape ==
    ASSUME IInv, reader # None
    PROVE  reader = [page |-> reader.page, index |-> reader.index, todo |-> reader.todo,
                     got |-> reader.got, state |-> reader.state, replaced |-> reader.replaced]
BY DEF IInv, TypeOK, ReaderType

LEMMA SteadyFetch ==
    ASSUME IInv, NEW bundle \in Bundles, FetchRun(bundle)
    PROVE  SteadyReader'
<1>1. /\ reader # None /\ bundle \in reader.todo
      /\ site' = site
  BY DEF FetchRun, Loading, pages
<1>2. reader' # None => reader'.replaced = reader.replaced
  BY <1>1, ReaderShape DEF FetchRun, Failed
<1> SUFFICES ASSUME ~reader.replaced PROVE SteadyReader'
  BY <1>2 DEF SteadyReader
<1> DEFINE page == Page(site, reader.page)
<1>3. /\ reader.state = "loading" /\ reader.page \in Pages(site) /\ reader.index = page
      /\ reader.todo \subseteq page.runs
      /\ \A file \in reader.got : \E b \in page.runs : file = Served(b, page.runs)
  BY <1>1 DEF IInv, ReaderInv, SteadyReader
<1>4. reader' = [reader EXCEPT !.todo = @ \ {bundle}, !.got = @ \cup {Served(bundle, page.runs)}]
  BY <1>1, <1>3 DEF FetchRun
<1> HIDE DEF page
<1>5. /\ reader'.state = reader.state /\ reader'.page = reader.page /\ reader'.index = reader.index
      /\ reader'.todo = reader.todo \ {bundle}
      /\ reader'.got = reader.got \cup {Served(bundle, page.runs)}
  BY <1>1, <1>4, ReaderShape
<1>6. bundle \in page.runs
  BY <1>1, <1>3
<1>7. \A file \in reader'.got : \E b \in page.runs : file = Served(b, page.runs)
  BY <1>3, <1>5, <1>6
<1>8. /\ reader'.page \in Pages(site)' /\ reader'.index = Page(site, reader.page)'
      /\ reader'.index = page
  BY <1>1, <1>3, <1>5 DEF page
<1>9. QED
  BY <1>3, <1>5, <1>7, <1>8 DEF SteadyReader

LEMMA SteadyEnd ==
    ASSUME IInv, EndLoad, ~reader.replaced
    PROVE  reader' = None
<1> DEFINE page == Page(site, reader.page)
<1>1. /\ reader # None /\ reader.page \in Pages(site) /\ reader.index = page
      /\ \A file \in reader.got : \E b \in page.runs : file = Served(b, page.runs)
  BY DEF IInv, ReaderInv, SteadyReader, EndLoad, Loading
<1>2. Consistent(page.runs)
  BY <1>1 DEF IInv, SiteInv, Groups
<1>3. page.runs \subseteq Bundles
  BY <1>1, InvTypes DEF Page, Pages, Sites, PageContents
<1>4. page.pending # None => /\ page.pending.pullRequest.number = reader.page
                            /\ page.pending.pullRequest.head = page.head
  BY <1>1 DEF IInv, SiteInv, PendingOfHead
<1> HIDE DEF page
<1>5. Consistent(reader.got)
  <2> SUFFICES ASSUME NEW one \in reader.got, NEW two \in reader.got PROVE Compatible(one, two)
    BY DEF Consistent
  <2>1. PICK first \in page.runs : one = Served(first, page.runs)
    BY <1>1
  <2>2. PICK second \in page.runs : two = Served(second, page.runs)
    BY <1>1
  <2>3. page.runs \in SUBSET Bundles /\ page.runs \in SUBSET page.runs
    BY <1>3
  <2>4. QED
    BY <1>2, <2>1, <2>2, <2>3, ServedAgree
<1>6. QED
  BY <1>1, <1>4, <1>5 DEF EndLoad

LEMMA ProductionFetch ==
    ASSUME IInv, NEW bundle \in Bundles, FetchRun(bundle)
    PROVE  ProductionReader'
<1>1. reader # None /\ bundle \in reader.todo /\ site' = site
  BY DEF FetchRun, Loading, pages
<1>2. reader'.page = reader.page
  BY <1>1, ReaderShape DEF FetchRun, Failed
<1> SUFFICES ASSUME reader.page = Root PROVE ProductionReader'
  BY <1>2 DEF ProductionReader
<1>3. /\ reader.state = "loading" /\ reader.index.pending = None
      /\ reader.todo \subseteq site.runs
      /\ \A file \in reader.got :
           \E runs \in SUBSET site.runs : \E b \in runs : file = Served(b, runs)
  BY <1>1 DEF IInv, ReaderInv, ProductionReader
<1>4. Page(site, reader.page).runs = site.runs /\ reader.page \in Pages(site)
  BY DEF Page, Pages
<1>5. reader' = [reader EXCEPT !.todo = @ \ {bundle}, !.got = @ \cup {Served(bundle, site.runs)}]
  <2>1. bundle \in Page(site, reader.page).runs
    BY <1>1, <1>3, <1>4
  <2>2. reader' = [reader EXCEPT !.todo = @ \ {bundle},
                      !.got = @ \cup {Served(bundle, Page(site, reader.page).runs)}]
    BY <1>4, <2>1 DEF FetchRun
  <2>3. QED
    BY <1>4, <2>2
<1>6. /\ reader'.state = "loading" /\ reader'.index = reader.index
      /\ reader'.todo = reader.todo \ {bundle}
      /\ reader'.got = reader.got \cup {Served(bundle, site.runs)}
  BY <1>1, <1>3, <1>5, ReaderShape
<1>7. \E runs \in SUBSET site.runs : \E b \in runs : Served(bundle, site.runs) = Served(b, runs)
  BY <1>1, <1>3
<1>8. QED
  BY <1>1, <1>3, <1>6, <1>7 DEF ProductionReader

LEMMA ProductionEnd ==
    ASSUME IInv, EndLoad, reader.page = Root
    PROVE  reader' = None
<1>1. /\ reader.index.pending = None
      /\ \A file \in reader.got :
           \E runs \in SUBSET site.runs : \E b \in runs : file = Served(b, runs)
  BY DEF IInv, ReaderInv, ProductionReader, EndLoad, Loading
<1>2. site.runs \in SUBSET Bundles
  BY InvTypes DEF Sites
<1>3. Consistent(site.runs)
  BY DEF IInv, SiteInv, Groups, Pages, Page
<1>4. Consistent(reader.got)
  BY <1>1, <1>2, <1>3, ServedAgree, SMTT(30) DEF Consistent
<1>5. QED
  BY <1>1, <1>4 DEF EndLoad

LEMMA InvReader == IInv /\ Read => IInv'
<1> SUFFICES ASSUME IInv, Read PROVE IInv'
  OBVIOUS
<1>1. TypeOK'
  BY TypeStep DEF Next
<1>2. UNCHANGED <<main, data, pr, site, run, kept>>
  BY DEF Read, OpenPage, FetchRun, EndLoad, world, pages
<1>3. ReaderInv'
  <2>1. ASSUME NEW p \in Pages(site), OpenPage(p) PROVE ReaderInv'
    <3>1. p = Root => /\ Page(site, p).pending = None /\ Page(site, p).runs = site.runs
      BY DEF Page
    <3>2. reader' = [page |-> p, index |-> Page(site, p), todo |-> Page(site, p).runs,
                     got |-> {}, state |-> "loading", replaced |-> FALSE]
      BY <2>1 DEF OpenPage
    <3>3. SteadyReader'
      BY <1>2, <3>2 DEF SteadyReader
    <3>4. ProductionReader'
      BY <1>2, <3>1, <3>2 DEF ProductionReader
    <3>5. QED
      BY <3>3, <3>4 DEF ReaderInv
  <2>2. ASSUME NEW bundle \in Bundles, FetchRun(bundle) PROVE ReaderInv'
    BY <2>2, SteadyFetch, ProductionFetch DEF ReaderInv
  <2>3. CASE EndLoad
    <3>1. reader # None
      BY <2>3 DEF EndLoad, Loading
    <3>2. reader' # None => reader'.page = reader.page /\ reader'.replaced = reader.replaced
      BY <2>3, <3>1, ReaderShape DEF EndLoad, Failed
    <3>3. SteadyReader'
      BY <2>3, <3>2, SteadyEnd DEF SteadyReader
    <3>4. ProductionReader'
      BY <2>3, <3>2, ProductionEnd DEF ProductionReader
    <3>5. QED
      BY <3>3, <3>4 DEF ReaderInv
  <2>4. QED
    BY <2>1, <2>2, <2>3 DEF Read
<1>4. QED
  BY <1>1, <1>2, <1>3, InvSame

-----------------------------------------------------------------------------
(* The theorems.                                                           *)

(* Every step of GitHub, of a run and of a reader keeps the invariant.     *)
THEOREM StepInv == IInv /\ [Next]_vars => IInv'
<1> SUFFICES ASSUME IInv, [Next]_vars PROVE IInv'
  OBVIOUS
<1>1. CASE UNCHANGED vars
  <2>1. TypeOK'
    BY TypeStep
  <2>2. UNCHANGED <<main, data, pr, site, run, kept, reader>>
    BY <1>1 DEF vars, world, pages
  <2>3. ReaderInv'
    BY <2>2 DEF IInv, ReaderInv, SteadyReader, ProductionReader
  <2>4. QED
    BY <2>1, <2>2, <2>3, InvSame
<1>2. QED
  BY <1>1, InvWorld, InvBuildStep, InvRunStep, InvOther, InvReader DEF Next

(* Every reachable state satisfies the inductive invariant.                *)
THEOREM InductiveInvariant == Spec => []IInv
BY InitInv, StepInv, PTL DEF Spec

(* The state of GitHub, of the runs of Pages and of the reader is always   *)
(* well formed.                                                            *)
THEOREM TypeCorrect == Spec => []TypeOK
<1>1. IInv => TypeOK
  BY DEF IInv
<1>2. QED
  BY <1>1, InductiveInvariant, PTL

(* What passes both checks of a run existed as a whole at one moment,      *)
(* although its parts were read one by one.                                *)
THEOREM OneSnapshotDeployed == Spec => []DeploysOneSnapshot
<1>1. IInv => DeploysOneSnapshot
  BY DEF IInv, RunInv, OneSnapshot, DeploysOneSnapshot, At
<1>2. QED
  BY <1>1, InductiveInvariant, PTL

(* A preview about to be deployed is of an open PR, at its head, with the  *)
(* results its label allows, unless the PR changed after the job began.    *)
THEOREM OpenPreviewsDeployed == Spec => []DeploysOpenPreviews
<1>1. IInv => DeploysOpenPreviews
  <2> SUFFICES ASSUME IInv, At("deploy"), NEW n \in run.steady, run.site.previews[n] # None
               PROVE  LET preview == run.site.previews[n] IN
                      /\ pr[n].listed
                      /\ preview.head = pr[n].head
                      /\ preview.pending # None =>
                           Required(n) /\ preview.pending.pullRequest.base = pr[n].base
    BY DEF DeploysOpenPreviews
  <2>1. /\ run # None /\ run.step = "deploy" /\ RunInv(run) /\ run \in Runs
        /\ n \in PRs
    BY InvTypes DEF IInv, At, Runs
  <2>2. run.site = Assembled(run.main, run.data, run.open, run.previews)
    BY <2>1 DEF RunInv, SiteBuilt, Built
  <2>3. /\ run.previews[n] # None
        /\ run.site.previews[n] =
             PreviewOf(run.data, n, run.open[n], run.previews[n].required)
    BY <2>1, <2>2 DEF Assembled
  <2>4. run.open[n] = Listing[n] /\ run.open[n] # None /\ run.previews[n].required = Required(n)
    BY <2>1, <2>3 DEF RunInv, PreviewsAgree, PreviewsListed
  <2>5. pr[n].listed /\ run.open[n] = [head |-> pr[n].head, base |-> pr[n].base]
    BY <2>1, <2>4 DEF Listing
  <2>6. run.site.previews[n].head = pr[n].head
    BY <2>3, <2>5 DEF PreviewOf
  <2>7. ASSUME run.site.previews[n].pending # None
        PROVE  Required(n) /\ run.site.previews[n].pending.pullRequest.base = pr[n].base
    BY <2>3, <2>4, <2>5, <2>7 DEF PreviewOf
  <2>8. QED
    BY <2>5, <2>6, <2>7
<1>2. QED
  BY <1>1, InductiveInvariant, PTL

(* Production never goes back, whatever fails or is repeated.              *)
THEOREM NeverBack == Spec => NeverGoesBack
<1>1. IInv /\ [Next]_vars => [site.main <= site'.main /\ site.runs \subseteq site'.runs]_vars
  <2> SUFFICES ASSUME IInv, Next PROVE site.main <= site'.main /\ site.runs \subseteq site'.runs
    BY DEF vars
  <2>1. CASE Deploy
    BY <2>1, DeployGrows
  <2>2. CASE World
    BY <2>2, WorldGrows, InvTypes
  <2>3. CASE ~Deploy /\ ~World
    <3>1. site' = site
      BY <2>3 DEF Next, BuildStep, CheckRevision, BuildEnds, Start, RunStep, ReadMain, ReadData,
         ReadPulls, Assemble, CheckMain, CheckData, Check, CheckPulls, Upload, Verified, Discover,
         CheckPreview, RerunDeploy, Fail, Read, OpenPage, FetchRun, EndLoad, Only, pages
    <3>2. QED
      BY <3>1, InvTypes
  <2>4. QED
    BY <2>1, <2>2, <2>3
<1>2. QED
  BY <1>1, InductiveInvariant, PTL DEF Spec, NeverGoesBack

(* A reader of production finds every run its index named and accepts them,*)
(* however often the site is deployed while it loads.                      *)
THEOREM ProductionAlwaysLoads == Spec => []ProductionLoads
<1>1. IInv => ProductionLoads
  BY DEF IInv, ReaderInv, ProductionReader, ProductionLoads
<1>2. QED
  BY <1>1, InductiveInvariant, PTL

(* A page that no deployment replaced while it was read is accepted: it was*)
(* assembled from histories that group, with pending results of its head,  *)
(* and the catalogs that assembly merges still agree.                      *)
THEOREM SteadyPagesLoad == Spec => []PagesLoad
<1>1. IInv => PagesLoad
  BY DEF IInv, ReaderInv, SteadyReader, PagesLoad
<1>2. QED
  BY <1>1, InductiveInvariant, PTL


-----------------------------------------------------------------------------
(* Nothing gets lost.                                                      *)

Quiet == queue = 0 /\ faults = 0 /\ ~BuildFailed /\ \A n \in PRs : ~Building(n)

(* Only the newest build of a PR runs: a new one cancels those before it.  *)
LastBuilds ==
    \A n \in PRs : \A i \in DOMAIN builds[n] :
        Running(builds[n][i].state) => i = Len(builds[n])

(* What a run took for a PR is what there is.                              *)
Selected(r, n) ==
    IF Available(n)
    THEN /\ r.previews[n] # None
         /\ r.previews[n].required = Required(n)
         /\ r.previews[n].id \in Uploaded(n, pr[n].head)
         /\ r.previews[n].attempt = builds[n][r.previews[n].id].attempt
    ELSE r.previews[n] = None

(* Everything a run has read so far is as it was read.                     *)
UpToDate(r) ==
    /\ r.checkout = main
    /\ r.step # "main" => r.main = main
    /\ r.step \notin {"main", "data"} => r.data = data
    /\ r.step \notin {"main", "data", "pulls"} =>
         /\ r.open = Listing
         /\ \A n \in PRs : IF r.step = "discover" /\ n \in r.todo THEN r.previews[n] = None
                                                                   ELSE Selected(r, n)
    /\ r.step = "previews" => \A n \in r.todo : r.previews[n] # None

(* While nothing waits behind it, a run is up to date; when it has ended   *)
(* too, the site is, unless the histories do not group.  A change is then  *)
(* always followed by a run that reads it, because a run that it overtakes *)
(* is never the last one.                                                  *)
QuietInv ==
    Quiet => IF run = None THEN ~Groups(Current) \/ site = Current ELSE UpToDate(run)

LEMMA BuildsSeq ==
    ASSUME TypeOK, NEW n \in PRs
    PROVE  /\ builds[n] \in Seq(Builds) /\ Len(builds[n]) \in Nat
           /\ DOMAIN builds[n] = 1 .. Len(builds[n])
           /\ builds[n] # <<>> => Len(builds[n]) \in DOMAIN builds[n]
<1>1. builds[n] \in Seq(Builds)
  BY DEF TypeOK, Builds
<1>2. QED
  BY <1>1, LenProperties, EmptySeq

LEMMA NewBuildRuns ==
    ASSUME TypeOK, NEW n \in PRs, NEW head \in Heads, builds' = NewBuild(n, head)
    PROVE  /\ Building(n)'
           /\ \A i \in DOMAIN builds'[n] : Running(builds'[n][i].state) => i = Len(builds'[n])
           /\ \A m \in PRs \ {n} : builds'[m] = builds[m]
<1> DEFINE old == builds[n]
           done == [i \in DOMAIN old |-> IF Running(old[i].state)
                                         THEN [old[i] EXCEPT !.state = "failed"] ELSE old[i]]
           new == [head |-> head, attempt |-> 1, state |-> "checking"]
<1>1. old \in Seq(Builds) /\ Len(old) \in Nat /\ DOMAIN old = 1 .. Len(old)
  BY BuildsSeq
<1>2. \A i \in 1 .. Len(old) : old[i] \in Builds
  BY <1>1, ElementOfSeq
<1>3. \A i \in 1 .. Len(old) : done[i] \in Builds /\ ~Running(done[i].state)
  BY <1>1, <1>2 DEF Builds, Running
<1>4. done \in Seq(Builds) /\ Len(done) = Len(old)
  <2>1. done \in [1 .. Len(old) -> Builds]
    BY <1>1, <1>3
  <2>2. done \in Seq(Builds)
    BY <1>1, <2>1, SeqDef
  <2>3. QED
    BY <1>1, <2>1, <2>2, LenProperties
<1>5. new \in Builds /\ Running(new.state)
  BY DEF Builds, Running
<1>6. builds' = [builds EXCEPT ![n] = Append(done, new)]
  BY DEF NewBuild
<1> HIDE DEF old, done, new
<1>7. builds'[n] = Append(done, new) /\ \A m \in PRs \ {n} : builds'[m] = builds[m]
  BY <1>6 DEF TypeOK
<1>8. /\ Len(Append(done, new)) = Len(old) + 1
      /\ DOMAIN Append(done, new) = 1 .. Len(old) + 1
      /\ Append(done, new)[Len(old) + 1] = new
      /\ \A i \in 1 .. Len(old) : Append(done, new)[i] = done[i]
      /\ Append(done, new) # <<>>
  BY <1>1, <1>4, <1>5, AppendProperties
<1>9. Building(n)'
  BY <1>5, <1>7, <1>8 DEF Building
<1>10. ASSUME NEW i \in DOMAIN builds'[n], Running(builds'[n][i].state)
       PROVE  i = Len(builds'[n])
  BY <1>1, <1>3, <1>7, <1>8, <1>10
<1>11. QED
  BY <1>7, <1>9, <1>10

LEMMA SetBuildKeeps ==
    ASSUME TypeOK, NEW n \in PRs, NEW i \in DOMAIN builds[n], NEW fields \in Builds,
           builds' = [builds EXCEPT ![n][i] = fields]
    PROVE  /\ builds'[n][i] = fields
           /\ \A j \in DOMAIN builds[n] \ {i} : builds'[n][j] = builds[n][j]
           /\ DOMAIN builds'[n] = DOMAIN builds[n] /\ Len(builds'[n]) = Len(builds[n])
           /\ builds[n] # <<>> /\ builds'[n] # <<>>
           /\ \A m \in PRs \ {n} : builds'[m] = builds[m]
<1>1. builds[n] \in Seq(Builds) /\ DOMAIN builds[n] = 1 .. Len(builds[n]) /\ Len(builds[n]) \in Nat
  BY BuildsSeq
<1>2. builds'[n] = [builds[n] EXCEPT ![i] = fields] /\ \A m \in PRs \ {n} : builds'[m] = builds[m]
  BY DEF TypeOK
<1>3. builds'[n] \in Seq(Builds) /\ Len(builds'[n]) = Len(builds[n])
  BY <1>1, <1>2, ExceptSeq
<1>4. DOMAIN builds'[n] = DOMAIN builds[n] /\ builds'[n][i] = fields
      /\ \A j \in DOMAIN builds[n] \ {i} : builds'[n][j] = builds[n][j]
  BY <1>1, <1>2
<1>5. builds[n] # <<>> /\ builds'[n] # <<>>
  BY <1>1, <1>3, EmptySeq
<1>6. QED
  BY <1>2, <1>3, <1>4, <1>5

(* A change is followed by a run or a build, and a build by a run.         *)
LEMMA WorldDisturbs ==
    ASSUME TypeOK, LastBuilds, World
    PROVE  LastBuilds' /\ ~Quiet'
<1>1. ASSUME NEW triggers, Change(triggers), triggers = TRUE PROVE ~Quiet'
  BY <1>1 DEF Change, Quiet, TypeOK
<1>2. ASSUME UNCHANGED builds PROVE LastBuilds'
  BY <1>2 DEF LastBuilds
<1>3. CASE PushMain
  BY <1>1, <1>2, <1>3 DEF PushMain
<1>4. CASE \E bundle \in Bundles : Archive(bundle) \/ Promote(bundle)
  BY <1>1, <1>2, <1>4 DEF Archive, Promote
<1>5. ASSUME NEW n \in PRs, Merge(n) \/ Unlist(n) \/ MoveBase(n) \/ Relabel(n)
      PROVE  LastBuilds' /\ ~Quiet'
  BY <1>1, <1>2, <1>5 DEF Merge, Unlist, MoveBase, Relabel, ChangePR
<1>6. ASSUME NEW n \in PRs, List(n) \/ PushHead(n) PROVE LastBuilds' /\ ~Quiet'
  <2>1. PICK head \in Heads : builds' = NewBuild(n, head)
    BY <1>6 DEF List, PushHead
  <2>2. QED
    BY <2>1, NewBuildRuns DEF LastBuilds, Quiet
<1>7. ASSUME NEW n \in PRs, RerunBuild(n) PROVE LastBuilds' /\ ~Quiet'
  <2>1. PICK i \in DOMAIN builds[n] :
          /\ i = Len(builds[n])
          /\ builds' = [builds EXCEPT ![n][i] = [builds[n][i] EXCEPT !.attempt = @ + 1,
                                                                     !.state = "checking"]]
    BY <1>7, BuildsSeq DEF RerunBuild, SetBuild
  <2> DEFINE new == [builds[n][i] EXCEPT !.attempt = @ + 1, !.state = "checking"]
  <2>2. builds[n][i] \in Builds
    BY BuildType
  <2>3. new \in Builds /\ Running(new.state)
    <3>1. builds[n][i].attempt + 1 \in Nat
      BY <2>2 DEF Builds
    <3>2. QED
      BY <2>2, <3>1 DEF Builds, Running
  <2>4. builds' = [builds EXCEPT ![n][i] = new]
    BY <2>1
  <2> HIDE DEF new
  <2>5. /\ builds'[n][i] = new
        /\ \A j \in DOMAIN builds[n] \ {i} : builds'[n][j] = builds[n][j]
        /\ DOMAIN builds'[n] = DOMAIN builds[n] /\ Len(builds'[n]) = Len(builds[n])
        /\ builds[n] # <<>> /\ builds'[n] # <<>>
        /\ \A m \in PRs \ {n} : builds'[m] = builds[m]
    BY <2>3, <2>4, SetBuildKeeps
  <2>6. Building(n)'
    BY <2>1, <2>3, <2>5 DEF Building
  <2>7. LastBuilds'
    BY <2>1, <2>5 DEF LastBuilds
  <2>8. QED
    BY <2>6, <2>7 DEF Quiet
<1>8. QED
  BY <1>3, <1>4, <1>5, <1>6, <1>7 DEF World

LEMMA BuildDisturbs ==
    ASSUME TypeOK, LastBuilds, BuildStep
    PROVE  LastBuilds' /\ ~Quiet'
<1>1. PICK n \in PRs : \E i \in DOMAIN builds[n] : CheckRevision(n, i) \/ BuildEnds(n, i)
  BY DEF BuildStep
<1>2. PICK i \in DOMAIN builds[n] : CheckRevision(n, i) \/ BuildEnds(n, i)
  BY <1>1
<1>3. builds[n][i] \in Builds /\ i = Len(builds[n])
  BY <1>2, BuildType DEF LastBuilds, CheckRevision, BuildEnds, Running
<1>4. PICK state \in {"building", "success", "failed"} :
        /\ builds' = [builds EXCEPT ![n][i] = [builds[n][i] EXCEPT !.state = state]]
        /\ state = "success" => queue' = queue + 1
  BY <1>2 DEF CheckRevision, BuildEnds, SetBuild
<1> DEFINE new == [builds[n][i] EXCEPT !.state = state]
<1>5. new \in Builds /\ new.state = state
  BY <1>3 DEF Builds
<1>6. /\ builds'[n][Len(builds'[n])].state = state /\ builds'[n] # <<>>
      /\ \A j \in DOMAIN builds[n] \ {i} : builds'[n][j] = builds[n][j]
      /\ DOMAIN builds'[n] = DOMAIN builds[n] /\ Len(builds'[n]) = Len(builds[n])
      /\ \A m \in PRs \ {n} : builds'[m] = builds[m]
  <2>1. builds' = [builds EXCEPT ![n][i] = new]
    BY <1>4
  <2> HIDE DEF new
  <2>2. /\ builds'[n][i] = new
        /\ \A j \in DOMAIN builds[n] \ {i} : builds'[n][j] = builds[n][j]
        /\ DOMAIN builds'[n] = DOMAIN builds[n] /\ Len(builds'[n]) = Len(builds[n])
        /\ builds[n] # <<>> /\ builds'[n] # <<>>
        /\ \A m \in PRs \ {n} : builds'[m] = builds[m]
    BY <1>5, <2>1, SetBuildKeeps
  <2>3. QED
    BY <1>3, <1>5, <2>2
<1>7. LastBuilds'
  BY <1>3, <1>6 DEF LastBuilds
<1>8. ~Quiet'
  <2>1. CASE state = "building"
    BY <1>6, <2>1 DEF Quiet, Building, Running
  <2>2. CASE state = "success"
    BY <1>4, <2>2 DEF Quiet, TypeOK
  <2>3. CASE state = "failed"
    BY <1>6, <2>3 DEF Quiet, BuildFailed
  <2>4. QED
    BY <2>1, <2>2, <2>3
<1>9. QED
  BY <1>7, <1>8

LEMMA AssembledCurrent ==
    ASSUME TypeOK, NEW previews, \A n \in PRs : Selected([previews |-> previews], n)
    PROVE  Assembled(main, data, Listing, previews) = Current
<1> DEFINE now == [n \in PRs |-> IF Available(n) THEN [required |-> Required(n)] ELSE None]
<1>1. ASSUME NEW n \in PRs
      PROVE  /\ previews[n] = None <=> now[n] = None
             /\ now[n] # None => previews[n].required = now[n].required
  <2>1. [required |-> Required(n)] # None /\ [required |-> Required(n)].required = Required(n)
    <3>1. Required(n) \in BOOLEAN
      BY DEF Required
    <3>2. [required |-> Required(n)] \in [required : BOOLEAN]
      BY <3>1
    <3>3. QED
      BY <3>2, NoneAssumption
  <2>2. CASE Available(n)
    BY <2>1, <2>2 DEF Selected
  <2>3. CASE ~Available(n)
    BY <2>3 DEF Selected
  <2>4. QED
    BY <2>2, <2>3
<1>2. Current = Assembled(main, data, Listing, now)
  BY DEF Current
<1> HIDE DEF now
<1>3. QED
  BY <1>1, <1>2 DEF Assembled

(* The world is as it was.                                                 *)
LEMMA WorldSame ==
    ASSUME UNCHANGED world
    PROVE  /\ UNCHANGED <<main, data, pr, builds>>
           /\ Listing' = Listing /\ Current' = Current
           /\ LastBuilds => LastBuilds'
           /\ \A n \in PRs : /\ Available(n)' = Available(n) /\ Required(n)' = Required(n)
                             /\ \A head : Uploaded(n, head)' = Uploaded(n, head)
           /\ UNCHANGED <<queue, faults>> => Quiet' = Quiet
<1>1. UNCHANGED <<main, data, pr, builds>>
  BY DEF world
<1>2. Listing' = Listing /\ LastBuilds' = LastBuilds
  BY <1>1 DEF Listing, LastBuilds
<1>3. \A n \in PRs : /\ Available(n)' = Available(n) /\ Required(n)' = Required(n)
                     /\ \A head : Uploaded(n, head)' = Uploaded(n, head)
  BY <1>1 DEF Available, Required, Uploaded
<1>4. Current' = Current
  BY <1>1 DEF Current, Available, Required, Uploaded, Listing
<1>5. UNCHANGED <<queue, faults>> => Quiet' = Quiet
  BY <1>1 DEF Quiet, Building, BuildFailed
<1>6. QED
  BY <1>1, <1>2, <1>3, <1>4, <1>5

(* A run that only moves on stays up to date.                              *)
LEMMA QuietFrame ==
    ASSUME UpToDate(run), run # None, UNCHANGED world,
           run'.main = run.main, run'.data = run.data, run'.checkout = run.checkout,
           run'.open = run.open, run'.previews = run.previews,
           run.step \notin {"main", "data", "pulls"},
           run.step = "discover" => run.todo = {},
           run'.step \notin {"main", "data", "pulls", "discover"},
           run'.step = "previews" => \A n \in run'.todo : run.previews[n] # None
    PROVE  UpToDate(run)'
<1>1. \A n \in PRs : Selected(run, n)
  BY DEF UpToDate
<1>2. \A n \in PRs : Selected(run, n)'
  BY <1>1, WorldSame DEF Selected
<1>3. QED
  BY <1>2, WorldSame DEF UpToDate

LEMMA QuietReads ==
    ASSUME IInv, UpToDate(run), ReadMain \/ ReadData \/ ReadPulls
    PROVE  run' # None /\ UpToDate(run)'
<1>1. run # None /\ run \in Runs /\ RunInv(run) /\ UNCHANGED world
  BY InvTypes DEF IInv, ReadMain, ReadData, ReadPulls, At, Only
<1>0. run' # None
  <2>1. /\ main \in Nat /\ data \in Histories /\ Listing \in [PRs -> Revisions \cup {None}]
        /\ Listed(Listing) \subseteq PRs /\ (run.main = main /\ run.data = data) \in BOOLEAN
    BY InvTypes, ListingType DEF IInv, Listed
  <2>2. [run EXCEPT !.main = main, !.step = "data"] \in Runs
    BY <1>1, <2>1 DEF Runs, Steps
  <2>3. [run EXCEPT !.data = data, !.step = "pulls"] \in Runs
    BY <1>1, <2>1 DEF Runs, Steps
  <2>4. [run EXCEPT !.open = Listing, !.todo = Listed(Listing), !.step = "discover",
                    !.whole = (run.main = main /\ run.data = data)] \in Runs
    BY <1>1, <2>1 DEF Runs, Steps
  <2>5. run' \in Runs
    BY <2>2, <2>3, <2>4 DEF ReadMain, ReadData, ReadPulls, Go
  <2>6. QED
    BY <2>5, NoneAssumption
<1>2. CASE ReadMain
  <2>1. run'.main = main /\ run'.step = "data" /\ run'.checkout = run.checkout
    BY <1>1, <1>2 DEF ReadMain, Go, Runs
  <2>2. QED
    BY <1>0, <1>1, <2>1, WorldSame DEF UpToDate
<1>3. CASE ReadData
  <2>1. /\ run'.main = run.main /\ run'.data = data /\ run'.step = "pulls"
        /\ run'.checkout = run.checkout /\ run.step = "data"
    BY <1>1, <1>3 DEF ReadData, Go, Runs, At
  <2>2. QED
    BY <1>0, <1>1, <2>1, WorldSame DEF UpToDate
<1>4. CASE ReadPulls
  <2>1. /\ run'.main = run.main /\ run'.data = run.data /\ run'.step = "discover"
        /\ run'.checkout = run.checkout /\ run.step = "pulls" /\ run'.open = Listing
        /\ run'.todo = Listed(Listing) /\ run'.previews = run.previews
    BY <1>1, <1>4 DEF ReadPulls, Go, Runs, At
  <2>2. \A n \in PRs : run'.previews[n] = None
    BY <1>1, <2>1 DEF RunInv, PreviewsListed
  <2>3. ASSUME NEW n \in PRs, n \notin run'.todo PROVE ~Available(n)'
    <3>1. Listing[n] = None
      BY <2>1, <2>3 DEF Listed
    <3>2. [head |-> pr[n].head, base |-> pr[n].base] \in Revisions
      BY DEF IInv, TypeOK, PullRequests, Revisions
    <3>3. ~pr[n].listed
      BY <3>1, <3>2, SiteAssumption DEF Listing
    <3>4. QED
      BY <1>1, <3>3, WorldSame DEF Available
  <2>4. \A n \in PRs : n \notin run'.todo => Selected(run, n)'
    BY <2>2, <2>3 DEF Selected
  <2>5. QED
    BY <1>0, <1>1, <2>1, <2>2, <2>4, WorldSame DEF UpToDate
<1>5. QED
  BY <1>0, <1>2, <1>3, <1>4

LEMMA QuietDiscover ==
    ASSUME IInv, UpToDate(run), NEW n \in PRs, Discover(n)
    PROVE  run' # None /\ UpToDate(run)'
<1>1. /\ run # None /\ run \in Runs /\ RunInv(run) /\ UNCHANGED world
      /\ run.step = "discover" /\ n \in run.todo
  BY InvTypes DEF IInv, Discover, At, Only
<1>2. /\ run.open = Listing /\ run.previews[n] = None
      /\ run.checkout = main /\ run.main = main /\ run.data = data
      /\ \A m \in PRs : IF m \in run.todo THEN run.previews[m] = None ELSE Selected(run, m)
  BY <1>1 DEF UpToDate
<1>3. run.open[n] # None
  BY <1>1 DEF RunInv, PreviewsListed
<1>4. pr[n].listed /\ run.open[n] = [head |-> pr[n].head, base |-> pr[n].base]
  BY <1>2, <1>3 DEF Listing
<1>5. run.open[n].head = pr[n].head
  BY <1>4
<1> DEFINE rest == [run EXCEPT !.todo = @ \ {n}]
           chosen(i) == [id |-> i, attempt |-> builds[n][i].attempt, required |-> Required(n)]
<1>6. \/ Uploaded(n, pr[n].head) = {} /\ run' = rest
      \/ \E i \in Uploaded(n, pr[n].head) : run' = [rest EXCEPT !.previews[n] = chosen(i)]
  BY <1>4, <1>5 DEF Discover, Go
<1>7. run.previews \in [PRs -> Selections \cup {None}]
  BY <1>1 DEF Runs
<1>8. /\ run'.open = run.open /\ run'.checkout = run.checkout /\ run'.main = run.main
      /\ run'.data = run.data /\ run'.step = "discover" /\ run'.todo = run.todo \ {n}
      /\ \A m \in PRs \ {n} : run'.previews[m] = run.previews[m]
      /\ run' # None
  <2>1. CASE run' = rest
    <3>1. rest \in Runs
      BY <1>1 DEF Runs
    <3>2. QED
      BY <1>1, <2>1, <3>1, NoneAssumption DEF Runs
  <2>2. ASSUME NEW i \in Uploaded(n, pr[n].head), run' = [rest EXCEPT !.previews[n] = chosen(i)]
        PROVE  /\ run'.open = run.open /\ run'.checkout = run.checkout /\ run'.main = run.main
               /\ run'.data = run.data /\ run'.step = "discover" /\ run'.todo = run.todo \ {n}
               /\ \A m \in PRs \ {n} : run'.previews[m] = run.previews[m]
               /\ run' # None
    <3>1. chosen(i) \in Selections
      BY BuildType DEF Uploaded, IInv, Selections, Builds, Required, TypeOK, PullRequests
    <3> HIDE DEF chosen
    <3>2. [run.previews EXCEPT ![n] = chosen(i)] \in [PRs -> Selections \cup {None}]
      BY <1>7, <3>1
    <3>3. run' = [run EXCEPT !.todo = @ \ {n}, !.previews = [run.previews EXCEPT ![n] = chosen(i)]]
      BY <1>1, <2>2 DEF Runs
    <3>4. run' \in Runs /\ run' # None
      <4>1. run' \in Runs
        BY <1>1, <3>2, <3>3 DEF Runs
      <4>2. QED
        BY <4>1, NoneAssumption
    <3>5. /\ run'.open = run.open /\ run'.checkout = run.checkout /\ run'.main = run.main
          /\ run'.data = run.data /\ run'.step = "discover" /\ run'.todo = run.todo \ {n}
          /\ run'.previews = [run.previews EXCEPT ![n] = chosen(i)]
      BY <1>1, <3>3 DEF Runs
    <3>6. \A m \in PRs \ {n} : run'.previews[m] = run.previews[m]
      BY <1>7, <3>5
    <3>7. QED
      BY <3>4, <3>5, <3>6
  <2>3. QED
    BY <1>6, <2>1, <2>2
<1>9. Selected(run, n)'
  <2>1. CASE Uploaded(n, pr[n].head) = {} /\ run' = rest
    <3>1. run'.previews[n] = None
      BY <1>1, <1>2, <2>1 DEF Runs
    <3>2. QED
      BY <1>1, <2>1, <3>1, WorldSame DEF Selected, Available
  <2>2. ASSUME NEW i \in Uploaded(n, pr[n].head), run' = [rest EXCEPT !.previews[n] = chosen(i)]
        PROVE  Selected(run, n)'
    <3>1. chosen(i) \in Selections
      BY BuildType DEF Uploaded, IInv, Selections, Builds, Required, TypeOK, PullRequests
    <3>2. /\ chosen(i) # None /\ chosen(i).id = i /\ chosen(i).required = Required(n)
          /\ chosen(i).attempt = builds[n][i].attempt
      BY <3>1, NoneAssumption
    <3>3. run'.previews[n] = chosen(i)
      <4> HIDE DEF chosen
      <4>1. QED
        BY <1>1, <1>7, <2>2 DEF Runs
    <3> HIDE DEF chosen
    <3>4. QED
      BY <1>1, <1>4, <3>2, <3>3, WorldSame DEF Selected, Available
  <2>3. QED
    BY <1>6, <2>1, <2>2
<1>10. \A m \in PRs \ {n} : m \notin run.todo => Selected(run, m)'
  BY <1>1, <1>2, <1>8, WorldSame DEF Selected
<1>11. QED
  BY <1>1, <1>2, <1>8, <1>9, <1>10, WorldSame DEF UpToDate

(* Nothing that is assembled while nothing waits differs from what there is*)
(* then: only histories that do not group keep it from being deployed.     *)
LEMMA QuietAssemble ==
    ASSUME IInv, UpToDate(run), Assemble
    PROVE  IF run' = None THEN ~Groups(Current)' ELSE UpToDate(run)'
<1>1. /\ run # None /\ run \in Runs /\ UNCHANGED world
      /\ run.step = "discover" /\ run.todo = {}
  BY InvTypes DEF Assemble, At, Only
<1>2. /\ run.checkout = main /\ run.main = main /\ run.data = data /\ run.open = Listing
      /\ \A n \in PRs : Selected(run, n)
  BY <1>1 DEF UpToDate
<1>3. Assembled(main, data, Listing, run.previews) = Current
  <2>1. \A n \in PRs : Selected([previews |-> run.previews], n)
    BY <1>2 DEF Selected
  <2>2. QED
    BY <2>1, AssembledCurrent DEF IInv
<1>4. IF Groups(Current) THEN run' = [run EXCEPT !.site = Current, !.step = "checkMain"]
                         ELSE run' = None
  BY <1>2, <1>3 DEF Assemble, Go, Throw
<1>5. CASE Groups(Current)
  <2> DEFINE now == Current
  <2> HIDE DEF now
  <2>1. run' = [run EXCEPT !.site = now, !.step = "checkMain"]
    BY <1>4, <1>5 DEF now
  <2>2. /\ run'.main = run.main /\ run'.data = run.data /\ run'.checkout = run.checkout
        /\ run'.open = run.open /\ run'.previews = run.previews /\ run'.step = "checkMain"
    BY <1>1, <2>1 DEF Runs
  <2>3. UpToDate(run)'
    BY <1>1, <2>2, QuietFrame
  <2>4. now \in Sites
    <3>1. \A n \in PRs : run.previews[n] # None => Listing[n] \in Revisions
      BY <1>1, <1>2, ListingType DEF IInv, RunInv, PreviewsListed
    <3>2. Assembled(main, data, Listing, run.previews) \in Sites
      BY <3>1, AssembledType, InvTypes
    <3>3. QED
      BY <1>3, <3>2 DEF now
  <2>5. run' \in Runs
    BY <1>1, <2>1, <2>4 DEF Runs, Steps
  <2>6. QED
    BY <2>3, <2>5, NoneAssumption
<1>6. CASE ~Groups(Current)
  BY <1>1, <1>4, <1>6, WorldSame DEF Groups
<1>7. QED
  BY <1>5, <1>6

LEMMA RunPasses ==
    ASSUME run \in Runs, NEW step \in Steps, NEW todo \in SUBSET PRs,
           run' = [run EXCEPT !.step = step, !.todo = todo]
    PROVE  /\ run' # None
           /\ run'.main = run.main /\ run'.data = run.data /\ run'.checkout = run.checkout
           /\ run'.open = run.open /\ run'.previews = run.previews /\ run'.step = step
           /\ run'.todo = todo
<1>1. run' \in Runs
  BY DEF Runs
<1>2. QED
  BY <1>1, NoneAssumption DEF Runs

(* A run that is up to date passes its checks.                             *)
LEMMA QuietCheck ==
    ASSUME IInv, UpToDate(run), CheckMain \/ CheckData \/ CheckPulls
    PROVE  run' # None /\ UpToDate(run)'
<1>1. /\ run # None /\ run \in Runs /\ UNCHANGED world /\ run.todo \in SUBSET PRs
      /\ run.step \in {"checkMain", "checkData", "checkPulls"}
  BY InvTypes DEF CheckMain, CheckData, CheckPulls, Check, At, Only, Runs
<1>2. run.main = main /\ run.data = data /\ run.open = Listing
  BY <1>1 DEF UpToDate
<1>3. CASE CheckMain
  <2>1. run' = [run EXCEPT !.step = "checkData", !.todo = run.todo]
    BY <1>1, <1>2, <1>3 DEF CheckMain, Check, Go, Runs
  <2>2. QED
    BY <1>1, <2>1, RunPasses, QuietFrame DEF Steps
<1>4. CASE CheckData
  <2>1. run' = [run EXCEPT !.step = "checkPulls", !.todo = run.todo]
    BY <1>1, <1>2, <1>4 DEF CheckData, Check, Go, Runs
  <2>2. QED
    BY <1>1, <2>1, RunPasses, QuietFrame DEF Steps
<1>5. CASE CheckPulls
  <2> DEFINE todo == {n \in PRs : run.previews[n] # None}
  <2>1. run' = [run EXCEPT !.step = "previews", !.todo = todo]
    BY <1>1, <1>2, <1>5 DEF CheckPulls, Go
  <2>2. todo \in SUBSET PRs /\ \A n \in todo : run.previews[n] # None
    OBVIOUS
  <2> HIDE DEF todo
  <2>3. QED
    BY <1>1, <2>1, <2>2, RunPasses, QuietFrame, ZenonT(30) DEF Steps
<1>6. QED
  BY <1>3, <1>4, <1>5

LEMMA QuietPreviews ==
    ASSUME IInv, UpToDate(run), Verified \/ Upload \/ \E n \in PRs : CheckPreview(n)
    PROVE  run' # None /\ UpToDate(run)'
<1>1. /\ run # None /\ run \in Runs /\ RunInv(run) /\ UNCHANGED world
      /\ run.todo \in SUBSET PRs /\ run.step = "previews"
  BY InvTypes DEF IInv, Verified, Upload, CheckPreview, At, Only, Runs
<1>2. ASSUME NEW n \in PRs, CheckPreview(n) PROVE run' # None /\ UpToDate(run)'
  <2>1. /\ n \in run.todo /\ run.previews[n] # None /\ run.open = Listing
        /\ run.open[n] # None /\ Selected(run, n)
        /\ \A m \in run.todo : run.previews[m] # None
    BY <1>1, <1>2 DEF CheckPreview, UpToDate, RunInv, PreviewsListed
  <2>2. pr[n].listed /\ run.open[n] = [head |-> pr[n].head, base |-> pr[n].base]
    BY <2>1 DEF Listing
  <2>3. /\ builds[n][run.previews[n].id].attempt = run.previews[n].attempt
        /\ builds[n][run.previews[n].id].state = "success"
        /\ builds[n][run.previews[n].id].head = run.open[n].head
        /\ run.previews[n].required = Required(n)
    BY <2>1, <2>2 DEF Selected, Uploaded
  <2> DEFINE todo == run.todo \ {n}
  <2>4. run' = [run EXCEPT !.step = "previews", !.todo = todo]
    BY <1>1, <1>2, <2>2, <2>3, ZenonT(30) DEF CheckPreview, Go, Runs
  <2>5. todo \in SUBSET PRs /\ \A m \in todo : run.previews[m] # None
    BY <1>1, <2>1
  <2> HIDE DEF todo
  <2>6. QED
    BY <1>1, <2>4, <2>5, RunPasses, QuietFrame DEF Steps
<1>3. CASE Verified
  <2>1. run' = [run EXCEPT !.step = "deploy", !.todo = run.todo]
    BY <1>1, <1>3 DEF Verified, Go, Runs
  <2>2. QED
    BY <1>1, <2>1, RunPasses, QuietFrame DEF Steps
<1>4. CASE Upload
  <2>1. run' = [run EXCEPT !.job = "deploy", !.step = "checkMain", !.steady = PRs]
    BY <1>4 DEF Upload, Go
  <2>2. run' \in Runs
    BY <1>1, <2>1 DEF Runs, Steps
  <2>3. /\ run'.main = run.main /\ run'.data = run.data /\ run'.checkout = run.checkout
        /\ run'.open = run.open /\ run'.previews = run.previews /\ run'.step = "checkMain"
    BY <1>1, <2>1 DEF Runs
  <2>4. UpToDate(run)'
    BY <1>1, <2>3, QuietFrame
  <2>5. QED
    BY <2>2, <2>4, NoneAssumption
<1>5. QED
  BY <1>2, <1>3, <1>4

LEMMA QuietDeploy ==
    ASSUME IInv, UpToDate(run), Deploy
    PROVE  run' = None /\ (site = Current)'
<1>1. run # None /\ run.step = "deploy" /\ RunInv(run) /\ UNCHANGED world
  BY DEF IInv, Deploy, At
<1>2. /\ run.main = main /\ run.data = data /\ run.open = Listing
      /\ \A n \in PRs : Selected([previews |-> run.previews], n)
  BY <1>1 DEF UpToDate, Selected
<1>3. run.site = Current
  BY <1>1, <1>2, AssembledCurrent DEF IInv, RunInv, SiteBuilt, Built
<1>4. QED
  BY <1>1, <1>3, WorldSame DEF Deploy

LEMMA QuietStep == IInv /\ LastBuilds /\ QuietInv /\ [Next]_vars => LastBuilds' /\ QuietInv'
<1> SUFFICES ASSUME IInv, LastBuilds, QuietInv, [Next]_vars PROVE LastBuilds' /\ QuietInv'
  OBVIOUS
<1>0. TypeOK
  BY DEF IInv
<1>1. CASE World \/ BuildStep
  BY <1>0, <1>1, WorldDisturbs, BuildDisturbs DEF QuietInv
<1>2. CASE Start
  <2>1. run' = [Fresh EXCEPT !.checkout = main] /\ UNCHANGED world
    BY <1>2 DEF Start, Go
  <2>2. run'.checkout = main /\ run'.step = "main"
    BY <2>1 DEF Fresh
  <2>3. main' = main /\ LastBuilds'
    BY <2>1, WorldSame
  <2>4. UpToDate(run)'
    BY <2>2, <2>3 DEF UpToDate
  <2>5. run' \in Runs
    <3>1. Fresh \in Runs /\ main \in Nat
      BY FreshType, <1>0 DEF TypeOK
    <3>2. QED
      BY <2>1, <3>1 DEF Runs
  <2>6. QED
    BY <2>3, <2>4, <2>5, NoneAssumption DEF QuietInv
<1>3. CASE RunStep
  <2>1. UNCHANGED <<world, queue, faults>> /\ run # None
    BY <1>3 DEF RunStep, ReadMain, ReadData, ReadPulls, Assemble, CheckMain, CheckData, CheckPulls,
                Upload, Verified, Deploy, Discover, CheckPreview, Check, Only, At, pages
  <2>2. LastBuilds' /\ Quiet' = Quiet
    BY <2>1, WorldSame
  <2>3. ASSUME Quiet
        PROVE  (IF run = None THEN ~Groups(Current) \/ site = Current ELSE UpToDate(run))'
    <3>1. UpToDate(run)
      BY <2>1, <2>3 DEF QuietInv
    <3>2. CASE ReadMain \/ ReadData \/ ReadPulls
      BY <3>1, <3>2, QuietReads
    <3>3. CASE \E n \in PRs : Discover(n)
      BY <3>1, <3>3, QuietDiscover
    <3>4. CASE Assemble
      BY <3>1, <3>4, QuietAssemble
    <3>5. CASE CheckMain \/ CheckData \/ CheckPulls
      BY <3>1, <3>5, QuietCheck
    <3>6. CASE Verified \/ Upload \/ \E n \in PRs : CheckPreview(n)
      BY <3>1, <3>6, QuietPreviews
    <3>7. CASE Deploy
      BY <3>1, <3>7, QuietDeploy
    <3>8. QED
      BY <1>3, <3>2, <3>3, <3>4, <3>5, <3>6, <3>7 DEF RunStep
  <2>4. QED
    BY <2>2, <2>3 DEF QuietInv
<1>4. CASE RerunDeploy \/ Fail
  <2>1. faults' = faults + 1 /\ UNCHANGED world
    BY <1>4 DEF RerunDeploy, Fail
  <2>2. ~Quiet' /\ LastBuilds'
    BY <1>0, <2>1, WorldSame DEF TypeOK, Quiet
  <2>3. QED
    BY <2>2 DEF QuietInv
<1>5. CASE Read \/ UNCHANGED vars
  <2>1. UNCHANGED <<world, queue, faults, run, site>>
    BY <1>5 DEF Read, OpenPage, FetchRun, EndLoad, vars, pages
  <2>2. LastBuilds' /\ Quiet' = Quiet /\ Current' = Current
    BY <2>1, WorldSame
  <2>3. UpToDate(run) => UpToDate(run)'
    BY <2>1, WorldSame DEF UpToDate, Selected
  <2>4. QED
    BY <2>1, <2>2, <2>3 DEF QuietInv, Groups
<1>6. QED
  BY <1>1, <1>2, <1>3, <1>4, <1>5 DEF Next

LEMMA QuietInit == Init => LastBuilds /\ QuietInv
<1> SUFFICES ASSUME Init PROVE LastBuilds /\ QuietInv
  OBVIOUS
<1> DEFINE now == [n \in PRs |-> IF pr[n].listed THEN [required |-> TRUE] ELSE None]
           was == [n \in PRs |-> IF Available(n) THEN [required |-> Required(n)] ELSE None]
<1>1. ASSUME NEW n \in PRs
      PROVE  /\ \A i \in DOMAIN builds[n] : ~Running(builds[n][i].state)
             /\ Available(n) <=> pr[n].listed
             /\ Required(n) = TRUE
  <2>1. pr[n].skip = FALSE /\ pr[n].listed \in BOOLEAN
    BY DEF Init
  <2>2. CASE pr[n].listed
    <3>1. builds[n] = <<[head |-> pr[n].head, attempt |-> 1, state |-> "success"]>>
      BY <2>2 DEF Init
    <3>2. DOMAIN builds[n] = {1} /\ builds[n][1].state = "success" /\ builds[n][1].head = pr[n].head
      BY <3>1
    <3>3. QED
      BY <2>1, <2>2, <3>2 DEF Running, Available, Uploaded, Required
  <2>3. CASE ~pr[n].listed
    <3>1. builds[n] = <<>>
      BY <2>3 DEF Init
    <3>2. DOMAIN builds[n] = {}
      BY <3>1
    <3>3. QED
      BY <2>1, <2>3, <3>2 DEF Available, Required
  <2>4. QED
    BY <2>2, <2>3
<1>2. now = was
  BY <1>1
<1>3. site = Assembled(main, data, Listing, now) /\ run = None
  BY DEF Init
<1>4. site = Current
  BY <1>2, <1>3 DEF Current
<1>5. QED
  BY <1>1, <1>3, <1>4 DEF LastBuilds, QuietInv

(* No change of main, of the history or of a PR gets lost, in whatever     *)
(* order events, builds and the requests of a run come: when no run and no *)
(* build is on its way, the website shows what there is.                   *)
THEOREM NothingGetsLost == Spec => []QuietMeansCurrent
<1>1. IInv /\ LastBuilds /\ QuietInv => QuietMeansCurrent
  BY DEF IInv, TypeOK, QuietInv, Quiet, QuietMeansCurrent, Busy
<1>2. QED
  BY <1>1, QuietInit, QuietStep, InductiveInvariant, PTL DEF Spec
=============================================================================
