-------------------------- MODULE PublishCI_proofs --------------------------
(***************************************************************************)
(* Proofs about PublishCI for every set of bundles, any number of jobs at  *)
(* a time and any number of changes of PRs and failed requests.            *)
(***************************************************************************)
EXTENDS PublishCI, TLAPS

(* A copy of the data branch: index, publication records and pointers      *)
(* refer to archived, complete bundles of their own PRs ...                *)
StoreInv(store) ==
    /\ store.index = {store.published[n] : n \in Numbers} \ {None}
    /\ store.index \subseteq store.runs
    /\ \A n \in Numbers : store.pending[n] # None =>
        store.pending[n] \in store.runs /\ store.pending[n].pullRequest.number = n
    /\ \A n \in Numbers : store.published[n] # None =>
        store.published[n].pullRequest.number = n
    /\ \A b \in store.runs : CompleteRun(b)

(* ... and what it publishes was merged.                                   *)
MergedInv(store) ==
    \A n \in Numbers : store.published[n] # None =>
        /\ pr[n].state = "merged"
        /\ store.published[n].pullRequest.head = pr[n].head
        /\ store.published[n].tree = pr[n].tree

(* A merged PR that a job has seen stays as it was seen.                   *)
SeenInv(job) ==
    /\ job.number \in Numbers
    /\ job.seen \in PullRequests(job.number)
    /\ job.seen.state = "merged" =>
        /\ pr[job.number].state = "merged"
        /\ pr[job.number].head = job.seen.head
        /\ pr[job.number].tree = job.seen.tree

Recorded(head) == head \in skipped \/ \E b \in remote.runs : b.pullRequest.head = head

(* The jobs: every clone was the branch at some time, and what a job has   *)
(* checked holds until it uses it.                                         *)
JobInv(e) ==
    /\ StoreInv(jobs[e].clone)
    /\ MergedInv(jobs[e].clone)
    /\ jobs[e].clone.runs \subseteq remote.runs
    /\ jobs[e].phase \in {"reporting", "archiving", "rereading", "publishing"} => SeenInv(jobs[e])
    /\ At(e, "opening") /\ Archiving(e) => SeenInv(jobs[e])
    /\ At(e, "archiving") => Archiving(e) /\ Archivable(e.bundle, jobs[e].seen)
    /\ At(e, "publishing") => jobs[e].seen.state = "merged"
    /\ At(e, "succeeding") => Recorded(Head(e))

BranchInv == StoreInv(remote) /\ MergedInv(remote)
StatusInv == \A h \in AllHeads : status[h] = "success" => Recorded(h)

IInv ==
    /\ TypeOK
    /\ BranchInv
    /\ StatusInv
    /\ \A e \in Events : JobInv(e)

-----------------------------------------------------------------------------
(* The inputs.                                                             *)

LEMMA EventTypes ==
    /\ \A e \in Events : Archiving(e) => e.bundle \in Bundles /\ e.bundle.pullRequest.number \in Numbers
    /\ \A e \in Events : ~Archiving(e) => e.numbers \in SUBSET Numbers
BY DEF Events, ArchiveEvents, PushEvents, Archiving, Numbers

LEMMA EmptyStoreType == EmptyStore \in Stores /\ StoreInv(EmptyStore) /\ MergedInv(EmptyStore)
BY DEF EmptyStore, Stores, StoreInv, MergedInv

LEMMA IdleType == Idle \in JobStates
BY EmptyStoreType DEF Idle, JobStates, Phases

LEMMA SeenTypes == \A n \in Numbers : \A p \in PullRequests(n) :
    p \in AllPullRequests /\ p.head \in AllHeads
BY DEF AllPullRequests, PullRequests, Heads, Of, AllHeads

-----------------------------------------------------------------------------
(* What archival and promotion make of a good copy of the branch.          *)

LEMMA ArchivedGood ==
    ASSUME NEW s \in Stores, NEW b \in Bundles
    PROVE  /\ Archived(s, b) \in Stores
           /\ s.runs \subseteq Archived(s, b).runs
           /\ b \in Archived(s, b).runs
           /\ Archived(s, b).index = s.index
           /\ Archived(s, b).published = s.published
           /\ StoreInv(s) /\ CompleteRun(b) => StoreInv(Archived(s, b))
           /\ MergedInv(s) => MergedInv(Archived(s, b))
<1>1. b.pullRequest.number \in Numbers
  BY DEF Numbers
<1>2. Archived(s, b) \in Stores
  BY <1>1 DEF Archived, Stores
<1>3. /\ Archived(s, b).runs = s.runs \cup {b}
      /\ Archived(s, b).index = s.index
      /\ Archived(s, b).published = s.published
      /\ \A n \in Numbers : Archived(s, b).pending[n] =
            IF n = b.pullRequest.number /\ NewerRun(s.pending[n], b) THEN b ELSE s.pending[n]
  BY <1>1 DEF Archived, Stores
<1>4. StoreInv(s) /\ CompleteRun(b) => StoreInv(Archived(s, b))
  BY <1>1, <1>3 DEF StoreInv
<1>5. MergedInv(s) => MergedInv(Archived(s, b))
  BY <1>3 DEF MergedInv
<1> QED
  BY <1>2, <1>3, <1>4, <1>5

LEMMA PromotedGood ==
    ASSUME NEW s \in Stores, NEW n \in Numbers, NEW seen, StoreInv(s), Promotable(s, n, seen)
    PROVE  /\ Promoted(s, n) \in Stores
           /\ Promoted(s, n).runs = s.runs
           /\ Promoted(s, n).pending = s.pending
           /\ Promoted(s, n).index = s.index \cup {s.pending[n]}
           /\ s.pending[n] \in s.runs
           /\ s.pending[n].pullRequest.head = seen.head
           /\ StoreInv(Promoted(s, n))
<1>1. s.pending[n] # None /\ s.pending[n] \in s.runs /\ s.pending[n] \in Bundles
  BY DEF Promotable, StoreInv, Stores
<1>2. Promoted(s, n) \in Stores
  BY <1>1 DEF Promoted, Stores
<1>3. /\ Promoted(s, n).runs = s.runs
      /\ Promoted(s, n).pending = s.pending
      /\ Promoted(s, n).index = s.index \cup {s.pending[n]}
      /\ \A m \in Numbers : Promoted(s, n).published[m] =
            IF m = n THEN s.pending[n] ELSE s.published[m]
  BY DEF Promoted, Stores
<1>4. s.published[n] \in {None, s.pending[n]} /\ s.pending[n].pullRequest.head = seen.head
  BY DEF Promotable, CandidateOf
<1>5. Promoted(s, n).index = {Promoted(s, n).published[m] : m \in Numbers} \ {None}
  BY <1>1, <1>3, <1>4 DEF StoreInv
<1>6. StoreInv(Promoted(s, n))
  BY <1>1, <1>3, <1>5 DEF StoreInv
<1> QED
  BY <1>1, <1>2, <1>3, <1>4, <1>6

LEMMA PromotedMerged ==
    ASSUME NEW s \in Stores, NEW n \in Numbers, NEW seen, StoreInv(s), MergedInv(s),
           Promotable(s, n, seen), pr[n].state = "merged",
           pr[n].head = seen.head, pr[n].tree = seen.tree
    PROVE  MergedInv(Promoted(s, n))
<1>1. \A m \in Numbers : Promoted(s, n).published[m] =
            IF m = n THEN s.pending[n] ELSE s.published[m]
  BY DEF Promoted, Stores
<1>2. s.pending[n].pullRequest.head = seen.head /\ s.pending[n].tree = seen.tree
  BY DEF Promotable, CandidateOf, PublicationMatches
<1> QED
  BY <1>1, <1>2 DEF MergedInv

-----------------------------------------------------------------------------
(* One job's record.                                                       *)

LEMMA StepType ==
    ASSUME TypeOK, NEW e \in Events, NEW job \in JobStates, Step(e, job)
    PROVE  /\ jobs' \in [Events -> JobStates]
           /\ jobs'[e] = job
           /\ \A f \in Events \ {e} : jobs'[f] = jobs[f]
BY DEF Step, TypeOK

LEMMA GotoType ==
    ASSUME TypeOK, NEW e \in Events, NEW phase \in Phases, Goto(e, phase)
    PROVE  /\ jobs' \in [Events -> JobStates]
           /\ jobs'[e].phase = phase
           /\ jobs'[e].number = jobs[e].number
           /\ jobs'[e].todo = jobs[e].todo
           /\ jobs'[e].seen = jobs[e].seen
           /\ jobs'[e].clone = jobs[e].clone
           /\ \A f \in Events \ {e} : jobs'[f] = jobs[f]
<1> DEFINE job == [jobs[e] EXCEPT !.phase = phase]
<1>1. jobs[e] \in JobStates
  BY DEF TypeOK
<1>2. /\ job \in JobStates /\ job.phase = phase /\ job.number = jobs[e].number
      /\ job.todo = jobs[e].todo /\ job.seen = jobs[e].seen /\ job.clone = jobs[e].clone
  BY <1>1 DEF JobStates
<1>3. Step(e, job)
  BY DEF Goto
<1> QED
  BY <1>2, <1>3, StepType

(* A push leaves the clone and the branch as they were, or makes both the  *)
(* new store from the same old one.                                        *)
LEMMA PushOutcome ==
    ASSUME TypeOK, NEW e \in Events, NEW store \in Stores, NEW next \in Phases, Push(e, store, next)
    PROVE  /\ jobs' \in [Events -> JobStates]
           /\ jobs'[e].number = jobs[e].number
           /\ jobs'[e].todo = jobs[e].todo
           /\ jobs'[e].seen = jobs[e].seen
           /\ \A f \in Events \ {e} : jobs'[f] = jobs[f]
           /\ \/ jobs'[e].phase = "failing" /\ jobs'[e].clone = jobs[e].clone /\ remote' = remote
              \/ /\ jobs'[e].phase = next /\ jobs'[e].clone = store
                 /\ \/ store = jobs[e].clone /\ remote' = remote
                    \/ remote = jobs[e].clone /\ remote' = store
<1>1. CASE store = jobs[e].clone
  BY <1>1, GotoType DEF Push
<1>2. CASE store # jobs[e].clone /\ remote = jobs[e].clone
  <2> DEFINE job == [jobs[e] EXCEPT !.phase = next, !.clone = store]
  <2>1. jobs[e] \in JobStates
    BY DEF TypeOK
  <2>2. /\ job \in JobStates /\ job.phase = next /\ job.number = jobs[e].number
        /\ job.todo = jobs[e].todo /\ job.seen = jobs[e].seen /\ job.clone = store
    BY <2>1 DEF JobStates
  <2>3. Step(e, job) /\ remote' = store
    BY <1>2 DEF Push
  <2> QED
    BY <1>2, <2>2, <2>3, StepType
<1>3. CASE store # jobs[e].clone /\ remote # jobs[e].clone
  <2>1. "failing" \in Phases
    BY DEF Phases
  <2> QED
    BY <1>3, <2>1, GotoType DEF Push
<1> QED
  BY <1>1, <1>2, <1>3

-----------------------------------------------------------------------------
(* Steps of GitHub: what is merged stays as it is.                         *)

GitHubStep ==
    \/ \E n \in Numbers : PushHead(n) \/ MoveBase(n) \/ Relabel(n) \/ Close(n)
    \/ \E numbers \in (SUBSET Numbers) \ {{}} : Merge(numbers)

MergedStays ==
    \A n \in Numbers : pr[n].state = "merged" =>
        pr'[n].state = "merged" /\ pr'[n].head = pr[n].head /\ pr'[n].tree = pr[n].tree

LEMMA ChangeType ==
    ASSUME TypeOK, NEW n \in Numbers, NEW fields \in PullRequests(n), Change(n, fields),
           pr[n].state = "merged" =>
                fields.state = "merged" /\ fields.head = pr[n].head /\ fields.tree = pr[n].tree
    PROVE  TypeOK' /\ MergedStays /\ UNCHANGED <<status, remote, jobs, skipped>>
<1>1. /\ pr' = [pr EXCEPT ![n] = fields] /\ changes' = changes + 1 /\ changes < MaxChanges
      /\ UNCHANGED <<merges, status, remote, jobs, skipped, failures>>
  BY DEF Change
<1>2. pr' \in [Numbers -> AllPullRequests] /\ \A m \in Numbers : pr'[m] \in PullRequests(m)
  BY <1>1, SeenTypes DEF TypeOK
<1>3. changes' \in 0 .. MaxChanges
  BY <1>1, PublishAssumption DEF TypeOK
<1>4. MergedStays
  BY <1>1 DEF MergedStays, TypeOK
<1> QED
  BY <1>1, <1>2, <1>3, <1>4 DEF TypeOK

LEMMA GitHubStepType ==
    ASSUME TypeOK, GitHubStep
    PROVE  TypeOK' /\ MergedStays /\ UNCHANGED <<status, remote, jobs, skipped>>
<1>0. \A n \in Numbers : pr[n] \in PullRequests(n)
  BY DEF TypeOK
<1>1. ASSUME NEW n \in Numbers, PushHead(n) PROVE TypeOK' /\ MergedStays /\ UNCHANGED <<status, remote, jobs, skipped>>
  <2>1. PICK h \in Heads(n) : Change(n, [pr[n] EXCEPT !.head = h]) /\ pr[n].state = "open"
    BY <1>1 DEF PushHead, Open
  <2>2. [pr[n] EXCEPT !.head = h] \in PullRequests(n)
    BY <1>0 DEF PullRequests
  <2> QED
    BY <2>1, <2>2, ChangeType
<1>2. ASSUME NEW n \in Numbers, MoveBase(n) PROVE TypeOK' /\ MergedStays /\ UNCHANGED <<status, remote, jobs, skipped>>
  <2>1. PICK b \in Bases(n) : Change(n, [pr[n] EXCEPT !.base = b]) /\ pr[n].state = "open"
    BY <1>2 DEF MoveBase, Open
  <2>2. [pr[n] EXCEPT !.base = b] \in PullRequests(n)
    BY <1>0 DEF PullRequests
  <2> QED
    BY <2>1, <2>2, ChangeType
<1>3. ASSUME NEW n \in Numbers, Relabel(n) PROVE TypeOK' /\ MergedStays /\ UNCHANGED <<status, remote, jobs, skipped>>
  <2> DEFINE fields == [pr[n] EXCEPT !.skip = ~@]
  <2>1. /\ fields \in PullRequests(n) /\ fields.state = pr[n].state
        /\ fields.head = pr[n].head /\ fields.tree = pr[n].tree
    BY <1>0 DEF PullRequests
  <2>2. Change(n, fields)
    BY <1>3 DEF Relabel
  <2> HIDE DEF fields
  <2> QED
    BY <2>1, <2>2, ChangeType
<1>4. ASSUME NEW n \in Numbers, Close(n) PROVE TypeOK' /\ MergedStays /\ UNCHANGED <<status, remote, jobs, skipped>>
  <2>1. Change(n, [pr[n] EXCEPT !.state = "closed"]) /\ pr[n].state = "open"
    BY <1>4 DEF Close, Open
  <2>2. [pr[n] EXCEPT !.state = "closed"] \in PullRequests(n)
    BY <1>0 DEF PullRequests
  <2> QED
    BY <2>1, <2>2, ChangeType
<1>5. ASSUME NEW numbers \in (SUBSET Numbers) \ {{}}, Merge(numbers)
      PROVE TypeOK' /\ MergedStays /\ UNCHANGED <<status, remote, jobs, skipped>>
  <2>1. PICK onto \in [numbers -> UNION {Bases(n) : n \in numbers}] :
          /\ \A n \in numbers : onto[n] \in Bases(n)
          /\ pr' = [n \in Numbers |->
                IF n \in numbers
                THEN [pr[n] EXCEPT !.state = "merged", !.tree = MergeTree(onto[n], pr[n].head)]
                ELSE pr[n]]
    BY <1>5 DEF Merge
  <2>2. /\ \A n \in numbers : pr[n].state = "open"
        /\ merges' = merges \cup {numbers} /\ changes < MaxChanges /\ changes' = changes + 1
        /\ UNCHANGED <<status, remote, jobs, skipped, failures>>
    BY <1>5 DEF Merge, Open
  <2>3. \A n \in Numbers : pr'[n] \in PullRequests(n)
    <3> SUFFICES ASSUME NEW n \in Numbers PROVE pr'[n] \in PullRequests(n)
      OBVIOUS
    <3>1. CASE n \in numbers
      <4>1. MergeTree(onto[n], pr[n].head) \in Trees(n)
        <5>1. onto[n] \in Bases(n)
          BY <2>1, <3>1
        <5>2. pr[n].head \in Heads(n)
          BY <1>0 DEF PullRequests
        <5> QED
          BY <5>1, <5>2 DEF Trees
      <4> QED
        BY <1>0, <2>1, <3>1, <4>1 DEF PullRequests
    <3>2. CASE n \notin numbers
      BY <1>0, <2>1, <3>2
    <3> QED
      BY <3>1, <3>2
  <2>4. pr' \in [Numbers -> AllPullRequests]
    BY <2>1, <2>3, SeenTypes
  <2>5. MergedStays
    BY <2>1, <2>2 DEF MergedStays
  <2>6. changes' \in 0 .. MaxChanges
    BY <2>2, PublishAssumption DEF TypeOK
  <2> QED
    BY <2>2, <2>3, <2>4, <2>5, <2>6 DEF TypeOK
<1> QED
  BY <1>1, <1>2, <1>3, <1>4, <1>5 DEF GitHubStep

-----------------------------------------------------------------------------
(* Steps of jobs.                                                          *)

(* What a step of e leaves to the other jobs ...                           *)
Frame(e) ==
    /\ pr' = pr
    /\ remote.runs \subseteq remote'.runs
    /\ skipped \subseteq skipped'
    /\ \A f \in Events \ {e} : jobs'[f] = jobs[f]

LEMMA RecordedStays ==
    ASSUME remote.runs \subseteq remote'.runs, skipped \subseteq skipped',
           NEW h, Recorded(h)
    PROVE  Recorded(h)'
BY DEF Recorded

LEMMA FrameKeeps ==
    ASSUME NEW e \in Events, Frame(e), NEW f \in Events \ {e}, JobInv(f)
    PROVE  JobInv(f)'
<1>1. jobs'[f] = jobs[f] /\ pr' = pr /\ remote.runs \subseteq remote'.runs
  BY DEF Frame
<1>2. At(f, "succeeding") => Recorded(Head(f))'
  BY <1>1, RecordedStays DEF Frame, JobInv, Head
<1> QED
  BY <1>1, <1>2 DEF JobInv, MergedInv, SeenInv, At, Head

(* ... and what it keeps itself.                                           *)
StepGood(e) ==
    /\ TypeOK'
    /\ BranchInv'
    /\ StatusInv'
    /\ JobInv(e)'
    /\ Frame(e)

(* A step that only changes the job.                                       *)
LEMMA LocalStep ==
    ASSUME IInv, NEW e \in Events, UNCHANGED <<github, status, remote, skipped, changes>>,
           failures' \in 0 .. MaxFailures,
           jobs' \in [Events -> JobStates], \A f \in Events \ {e} : jobs'[f] = jobs[f],
           JobInv(e)'
    PROVE  StepGood(e)
<1>1. TypeOK'
  BY DEF IInv, TypeOK, github
<1>2. BranchInv'
  BY DEF IInv, BranchInv, MergedInv, github
<1>3. StatusInv'
  BY DEF IInv, StatusInv, Recorded
<1>4. Frame(e)
  BY DEF Frame, github
<1> QED
  BY <1>1, <1>2, <1>3, <1>4 DEF StepGood

LEMMA StartGood ==
    ASSUME IInv, NEW e \in Events, Start(e)
    PROVE  StepGood(e)
<1> DEFINE archival == [Idle EXCEPT !.phase = "reading", !.todo = {e.bundle.pullRequest.number}]
           push == [Idle EXCEPT !.phase = "opening", !.todo = e.numbers]
           job == IF Archiving(e) THEN archival ELSE push
<1>1. job \in JobStates /\ job.clone = EmptyStore
  <2>1. CASE Archiving(e)
    <3>1. archival \in JobStates /\ archival.clone = EmptyStore
      BY <2>1, EventTypes, EmptyStoreType DEF Idle, JobStates, Phases
    <3> QED
      BY <2>1, <3>1
  <2>2. CASE ~Archiving(e)
    <3>1. push \in JobStates /\ push.clone = EmptyStore
      BY <2>2, EventTypes, EmptyStoreType DEF Idle, JobStates, Phases
    <3> QED
      BY <2>2, <3>1
  <2> QED
    BY <2>1, <2>2
<1>2. job.phase = IF Archiving(e) THEN "reading" ELSE "opening"
  BY DEF Idle
<1>3. Step(e, job) /\ UNCHANGED <<github, status, remote, skipped, bounds>>
  BY DEF Start
<1> HIDE DEF job
<1>4. /\ jobs' \in [Events -> JobStates] /\ jobs'[e] = job
      /\ \A f \in Events \ {e} : jobs'[f] = jobs[f]
  BY <1>1, <1>3, StepType DEF IInv
<1>5. JobInv(e)'
  <2>1. MergedInv(EmptyStore)' /\ StoreInv(EmptyStore) /\ EmptyStore.runs = {}
    BY EmptyStoreType DEF MergedInv, EmptyStore
  <2> QED
    BY <1>1, <1>2, <1>4, <2>1 DEF JobInv, MergedInv, At, Archiving
<1>6. failures' \in 0 .. MaxFailures
  BY <1>3 DEF IInv, TypeOK, bounds
<1> QED
  BY <1>3, <1>4, <1>5, <1>6, LocalStep DEF bounds

LEMMA IdleGood ==
    ASSUME IInv, NEW e \in Events, Step(e, Idle),
           UNCHANGED <<github, status, remote, skipped, changes>>, failures' \in 0 .. MaxFailures
    PROVE  StepGood(e)
<1>1. /\ jobs' \in [Events -> JobStates] /\ jobs'[e] = Idle
      /\ \A f \in Events \ {e} : jobs'[f] = jobs[f]
  BY IdleType, StepType DEF IInv
<1>2. JobInv(e)'
  <2>1. MergedInv(EmptyStore)' /\ StoreInv(EmptyStore) /\ EmptyStore.runs = {}
    BY EmptyStoreType DEF MergedInv, EmptyStore
  <2> QED
    BY <1>1, <2>1 DEF JobInv, MergedInv, At, Idle
<1> QED
  BY <1>1, <1>2, LocalStep

LEMMA ReadPRGood ==
    ASSUME IInv, NEW e \in Events, ReadPR(e)
    PROVE  StepGood(e)
<1>1. UNCHANGED <<github, status, remote, skipped, changes>> /\ failures' \in 0 .. MaxFailures
  BY DEF ReadPR, bounds, IInv, TypeOK
<1>2. PICK n \in jobs[e].todo :
        Step(e, IF Archiving(e) => pr[n].head = e.bundle.pullRequest.head
                THEN [jobs[e] EXCEPT !.phase = "reporting", !.number = n, !.todo = @ \ {n}, !.seen = pr[n]]
                ELSE Idle)
  BY DEF ReadPR
<1>3. CASE ~(Archiving(e) => pr[n].head = e.bundle.pullRequest.head)
  BY <1>1, <1>2, <1>3, IdleGood
<1>4. CASE Archiving(e) => pr[n].head = e.bundle.pullRequest.head
  <2> DEFINE job == [jobs[e] EXCEPT !.phase = "reporting", !.number = n, !.todo = @ \ {n}, !.seen = pr[n]]
  <2>1. jobs[e] \in JobStates /\ n \in Numbers
    BY DEF IInv, TypeOK, JobStates
  <2>2. pr[n] \in PullRequests(n) /\ pr[n] \in AllPullRequests
    BY <2>1 DEF IInv, TypeOK
  <2>3. /\ job \in JobStates /\ job.phase = "reporting" /\ job.number = n
        /\ job.seen = pr[n] /\ job.clone = jobs[e].clone
    BY <2>1, <2>2 DEF JobStates, Phases
  <2>4. Step(e, job)
    BY <1>2, <1>4
  <2> HIDE DEF job
  <2>5. /\ jobs' \in [Events -> JobStates] /\ jobs'[e] = job
        /\ \A f \in Events \ {e} : jobs'[f] = jobs[f]
    BY <2>3, <2>4, StepType DEF IInv
  <2>6. JobInv(e)'
    BY <1>1, <2>1, <2>2, <2>3, <2>5 DEF IInv, JobInv, SeenInv, MergedInv, At, github
  <2> QED
    BY <1>1, <2>5, <2>6, LocalStep
<1> QED
  BY <1>3, <1>4

(* A step that only moves the job on and keeps what it has seen.           *)
LEMMA GotoGood ==
    ASSUME IInv, NEW e \in Events, NEW phase \in Phases, Goto(e, phase),
           UNCHANGED <<github, status, remote, skipped, changes>>, failures' \in 0 .. MaxFailures,
           phase \in {"opening", "rereading"} => SeenInv(jobs[e]),
           phase \in {"opening", "rereading", "reading", "failing"}
    PROVE  StepGood(e)
<1>1. /\ jobs' \in [Events -> JobStates]
      /\ jobs'[e].phase = phase
      /\ jobs'[e].number = jobs[e].number
      /\ jobs'[e].seen = jobs[e].seen
      /\ jobs'[e].clone = jobs[e].clone
      /\ \A f \in Events \ {e} : jobs'[f] = jobs[f]
  BY GotoType DEF IInv
<1>2. JobInv(e)'
  BY <1>1 DEF IInv, JobInv, SeenInv, MergedInv, At, github
<1> QED
  BY <1>1, <1>2, LocalStep

LEMMA ReportPendingGood ==
    ASSUME IInv, NEW e \in Events, ReportPending(e)
    PROVE  StepGood(e)
<1> DEFINE phase == IF Archiving(e) THEN "opening" ELSE "rereading"
<1>1. /\ At(e, "reporting") /\ Goto(e, phase) /\ phase \in Phases
      /\ status' = [status EXCEPT ![Head(e)] = "pending"]
      /\ UNCHANGED <<github, remote, skipped, bounds>>
  BY DEF ReportPending, Phases
<1>2. phase \in {"opening", "rereading"}
  OBVIOUS
<1> HIDE DEF phase
<1>3. /\ jobs' \in [Events -> JobStates]
      /\ jobs'[e].phase = phase
      /\ jobs'[e].number = jobs[e].number
      /\ jobs'[e].seen = jobs[e].seen
      /\ jobs'[e].clone = jobs[e].clone
      /\ \A f \in Events \ {e} : jobs'[f] = jobs[f]
  BY <1>1, GotoType DEF IInv
<1>4. TypeOK'
  BY <1>1, <1>3 DEF IInv, TypeOK, github, bounds
<1>5. BranchInv'
  BY <1>1 DEF IInv, BranchInv, MergedInv, github
<1>6. StatusInv'
  BY <1>1 DEF IInv, TypeOK, StatusInv, Recorded
<1>7. JobInv(e)'
  BY <1>1, <1>2, <1>3 DEF IInv, JobInv, SeenInv, MergedInv, At, github
<1>8. Frame(e)
  BY <1>1, <1>3 DEF Frame, github
<1> QED
  BY <1>4, <1>5, <1>6, <1>7, <1>8 DEF StepGood

LEMMA ReportFailureGood ==
    ASSUME IInv, NEW e \in Events, ReportFailure(e)
    PROVE  StepGood(e)
<1>1. /\ Step(e, Idle)
      /\ status' = [status EXCEPT ![Head(e)] = "failure"]
      /\ UNCHANGED <<github, remote, skipped, bounds>>
  BY DEF ReportFailure
<1>2. /\ jobs' \in [Events -> JobStates] /\ jobs'[e] = Idle
      /\ \A f \in Events \ {e} : jobs'[f] = jobs[f]
  BY <1>1, IdleType, StepType DEF IInv
<1>3. TypeOK'
  BY <1>1, <1>2 DEF IInv, TypeOK, github, bounds
<1>4. BranchInv'
  BY <1>1 DEF IInv, BranchInv, MergedInv, github
<1>5. StatusInv'
  BY <1>1 DEF IInv, TypeOK, StatusInv, Recorded
<1>6. JobInv(e)'
  <2>1. MergedInv(EmptyStore)' /\ StoreInv(EmptyStore) /\ EmptyStore.runs = {}
    BY EmptyStoreType DEF MergedInv, EmptyStore
  <2> QED
    BY <1>2, <2>1 DEF JobInv, MergedInv, At, Idle
<1>7. Frame(e)
  BY <1>1, <1>2 DEF Frame, github
<1> QED
  BY <1>3, <1>4, <1>5, <1>6, <1>7 DEF StepGood

LEMMA ReportSuccessGood ==
    ASSUME IInv, NEW e \in Events, ReportSuccess(e)
    PROVE  StepGood(e)
<1> DEFINE more == [jobs[e] EXCEPT !.phase = "reading"]
           job == IF jobs[e].todo = {} THEN Idle ELSE more
<1>1. /\ At(e, "succeeding") /\ Step(e, job)
      /\ status' = [status EXCEPT ![Head(e)] = "success"]
      /\ UNCHANGED <<github, remote, skipped, bounds>>
  BY DEF ReportSuccess
<1>2. more \in JobStates /\ more.phase = "reading" /\ more.clone = jobs[e].clone
  <2>1. jobs[e] \in JobStates
    BY DEF IInv, TypeOK
  <2> QED
    BY <2>1 DEF JobStates, Phases
<1>3. job \in JobStates /\ job.phase \in {"idle", "reading"} /\ job.clone \in {EmptyStore, jobs[e].clone}
  <2>1. Idle.phase = "idle" /\ Idle.clone = EmptyStore
    BY DEF Idle
  <2> HIDE DEF more
  <2> QED
    BY <1>2, <2>1, IdleType
<1> HIDE DEF job
<1>4. /\ jobs' \in [Events -> JobStates] /\ jobs'[e] = job
      /\ \A f \in Events \ {e} : jobs'[f] = jobs[f]
  BY <1>1, <1>3, StepType DEF IInv
<1>5. TypeOK'
  BY <1>1, <1>4 DEF IInv, TypeOK, github, bounds
<1>6. BranchInv'
  BY <1>1 DEF IInv, BranchInv, MergedInv, github
<1>7. StatusInv'
  <2>1. Recorded(Head(e))
    BY <1>1 DEF IInv, JobInv
  <2>2. \A h \in AllHeads : Recorded(h) => Recorded(h)'
    BY <1>1 DEF Recorded
  <2>3. \A h \in AllHeads : status'[h] = "success" => h = Head(e) \/ status[h] = "success"
    BY <1>1 DEF IInv, TypeOK
  <2> QED
    BY <2>1, <2>2, <2>3 DEF IInv, StatusInv
<1>8. JobInv(e)'
  <2>1. MergedInv(EmptyStore)' /\ StoreInv(EmptyStore) /\ EmptyStore.runs = {}
    BY EmptyStoreType DEF MergedInv, EmptyStore
  <2>2. job.phase \notin {"reporting", "archiving", "rereading", "publishing", "opening", "succeeding"}
    BY <1>3
  <2> QED
    BY <1>1, <1>3, <1>4, <2>1, <2>2 DEF IInv, JobInv, MergedInv, At, github
<1>9. Frame(e)
  BY <1>1, <1>4 DEF Frame, github
<1> QED
  BY <1>5, <1>6, <1>7, <1>8, <1>9 DEF StepGood

LEMMA SkipGood ==
    ASSUME IInv, NEW e \in Events, NEW job \in JobStates, Step(e, job),
           job.phase = "succeeding", job.clone = jobs[e].clone, job.seen.head \in AllHeads,
           skipped' = skipped \cup {job.seen.head},
           UNCHANGED <<github, status, remote, bounds>>
    PROVE  StepGood(e)
<1>1. /\ jobs' \in [Events -> JobStates] /\ jobs'[e] = job
      /\ \A f \in Events \ {e} : jobs'[f] = jobs[f]
  BY StepType DEF IInv
<1>2. TypeOK'
  BY <1>1 DEF IInv, TypeOK, github, bounds
<1>3. BranchInv'
  BY DEF IInv, BranchInv, MergedInv, github
<1>4. StatusInv'
  BY DEF IInv, StatusInv, Recorded
<1>5. JobInv(e)'
  BY <1>1 DEF IInv, JobInv, MergedInv, At, Head, Recorded, github
<1>6. Frame(e)
  BY <1>1 DEF Frame, github
<1> QED
  BY <1>2, <1>3, <1>4, <1>5, <1>6 DEF StepGood

LEMMA OpenStoreGood ==
    ASSUME IInv, NEW e \in Events, OpenStore(e)
    PROVE  StepGood(e)
<1>1. /\ At(e, "opening") /\ UNCHANGED <<github, status, remote, bounds>>
      /\ failures' \in 0 .. MaxFailures /\ jobs[e] \in JobStates
  BY DEF OpenStore, bounds, IInv, TypeOK
<1>2. CASE Archiving(e) /\ jobs[e].seen.skip
  <2> DEFINE job == [jobs[e] EXCEPT !.phase = "succeeding"]
  <2>1. Step(e, job) /\ skipped' = skipped \cup {jobs[e].seen.head}
    BY <1>2 DEF OpenStore, Goto, Head
  <2>2. job \in JobStates /\ job.phase = "succeeding" /\ job.clone = jobs[e].clone /\ job.seen = jobs[e].seen
    BY <1>1 DEF JobStates, Phases
  <2>3. jobs[e].seen.head \in AllHeads
    BY <1>1, <1>2, SeenTypes DEF IInv, JobInv, SeenInv
  <2> HIDE DEF job
  <2> QED
    BY <1>1, <2>1, <2>2, <2>3, SkipGood
<1>3. CASE Archiving(e) /\ ~jobs[e].seen.skip /\ Archivable(e.bundle, jobs[e].seen)
  <2> DEFINE job == [jobs[e] EXCEPT !.phase = "archiving", !.clone = remote]
  <2>1. Step(e, job) /\ skipped' = skipped
    BY <1>3 DEF OpenStore
  <2>2. /\ job \in JobStates /\ job.phase = "archiving" /\ job.clone = remote
        /\ job.seen = jobs[e].seen /\ job.number = jobs[e].number
    BY <1>1 DEF JobStates, Phases, IInv, TypeOK
  <2> HIDE DEF job
  <2>3. /\ jobs' \in [Events -> JobStates] /\ jobs'[e] = job
        /\ \A f \in Events \ {e} : jobs'[f] = jobs[f]
    BY <2>1, <2>2, StepType DEF IInv
  <2>4. SeenInv(jobs[e])
    BY <1>1, <1>3 DEF IInv, JobInv
  <2>5. JobInv(e)'
    BY <1>1, <1>3, <2>2, <2>3, <2>4 DEF IInv, BranchInv, JobInv, SeenInv, MergedInv, At, github
  <2> QED
    BY <1>1, <2>1, <2>3, <2>5, LocalStep DEF bounds
<1>4. CASE Archiving(e) /\ ~jobs[e].seen.skip /\ ~Archivable(e.bundle, jobs[e].seen)
  <2>1. Goto(e, "failing") /\ skipped' = skipped /\ "failing" \in Phases
    BY <1>4 DEF OpenStore, Goto, Phases
  <2> QED
    BY <1>1, <2>1, GotoGood DEF bounds
<1>5. CASE ~Archiving(e)
  <2> DEFINE job == [jobs[e] EXCEPT !.phase = "reading", !.clone = remote]
  <2>1. Step(e, job) /\ skipped' = skipped
    BY <1>5 DEF OpenStore
  <2>2. job \in JobStates /\ job.phase = "reading" /\ job.clone = remote
    BY <1>1 DEF JobStates, Phases, IInv, TypeOK
  <2> HIDE DEF job
  <2>3. /\ jobs' \in [Events -> JobStates] /\ jobs'[e] = job
        /\ \A f \in Events \ {e} : jobs'[f] = jobs[f]
    BY <2>1, <2>2, StepType DEF IInv
  <2>4. JobInv(e)'
    BY <1>1, <2>2, <2>3 DEF IInv, BranchInv, JobInv, MergedInv, At, github
  <2> QED
    BY <1>1, <2>1, <2>3, <2>4, LocalStep DEF bounds
<1> QED
  BY <1>2, <1>3, <1>4, <1>5

LEMMA RereadPRGood ==
    ASSUME IInv, NEW e \in Events, RereadPR(e)
    PROVE  StepGood(e)
<1> DEFINE now == pr[jobs[e].number]
           phase == CASE now.state # "merged" -> "failing"
                      [] now.state = "merged" /\ now.skip -> "succeeding"
                      [] OTHER -> "publishing"
           job == [jobs[e] EXCEPT !.seen = now, !.phase = phase]
<1>1. /\ At(e, "rereading") /\ Step(e, job)
      /\ skipped' = IF now.state = "merged" /\ now.skip THEN skipped \cup {now.head} ELSE skipped
      /\ UNCHANGED <<github, status, remote, bounds>>
      /\ failures' \in 0 .. MaxFailures /\ jobs[e] \in JobStates
  BY DEF RereadPR, bounds, IInv, TypeOK
<1>2. jobs[e].number \in Numbers
  BY <1>1 DEF IInv, JobInv, SeenInv, At
<1>3. now \in PullRequests(jobs[e].number) /\ now \in AllPullRequests /\ now.head \in AllHeads
  BY <1>2, SeenTypes DEF IInv, TypeOK
<1>4. phase \in Phases
  BY DEF Phases
<1>5. /\ phase \in {"failing", "succeeding", "publishing"}
      /\ phase = "publishing" => now.state = "merged"
      /\ phase = "succeeding" => now.state = "merged" /\ now.skip
      /\ phase # "succeeding" => ~(now.state = "merged" /\ now.skip)
  OBVIOUS
<1> HIDE DEF phase
<1>6. /\ job \in JobStates /\ job.phase = phase /\ job.seen = now
      /\ job.clone = jobs[e].clone /\ job.number = jobs[e].number
  BY <1>1, <1>3, <1>4 DEF JobStates
<1> HIDE DEF job
<1>7. CASE phase = "succeeding"
  BY <1>1, <1>3, <1>5, <1>6, <1>7, SkipGood
<1>8. CASE phase # "succeeding"
  <2>1. /\ jobs' \in [Events -> JobStates] /\ jobs'[e] = job
        /\ \A f \in Events \ {e} : jobs'[f] = jobs[f]
    BY <1>1, <1>6, StepType DEF IInv
  <2>2. JobInv(e)'
    BY <1>1, <1>2, <1>3, <1>5, <1>6, <1>8, <2>1 DEF IInv, JobInv, SeenInv, MergedInv, At, github
  <2> QED
    BY <1>1, <1>5, <1>8, <2>1, <2>2, LocalStep DEF bounds
<1> QED
  BY <1>7, <1>8

(* A push of a good store that extends the clone.                          *)
LEMMA PushGood ==
    ASSUME IInv, NEW e \in Events, NEW store \in Stores, NEW next \in {"rereading", "succeeding"},
           Push(e, store, next), UNCHANGED <<github, status, skipped, bounds>>,
           StoreInv(store), MergedInv(store), jobs[e].clone.runs \subseteq store.runs,
           SeenInv(jobs[e]),
           \E b \in store.runs : b.pullRequest.head = Head(e)
    PROVE  StepGood(e)
<1>1. next \in Phases
  BY DEF Phases
<1>2. /\ jobs' \in [Events -> JobStates]
      /\ jobs'[e].number = jobs[e].number
      /\ jobs'[e].seen = jobs[e].seen
      /\ \A f \in Events \ {e} : jobs'[f] = jobs[f]
      /\ \/ jobs'[e].phase = "failing" /\ jobs'[e].clone = jobs[e].clone /\ remote' = remote
         \/ /\ jobs'[e].phase = next /\ jobs'[e].clone = store
            /\ \/ store = jobs[e].clone /\ remote' = remote
               \/ remote = jobs[e].clone /\ remote' = store
  BY <1>1, PushOutcome DEF IInv
<1>3. remote' \in {remote, store} /\ remote.runs \subseteq remote'.runs
  BY <1>2
<1>4. TypeOK'
  BY <1>2, <1>3 DEF IInv, TypeOK, github, bounds
<1>5. BranchInv'
  BY <1>3 DEF IInv, BranchInv, MergedInv, github
<1>6. StatusInv'
  <2>1. \A h \in AllHeads : Recorded(h) => Recorded(h)'
    BY <1>3 DEF Recorded
  <2> QED
    BY <2>1 DEF IInv, StatusInv
<1>7. JobInv(e)'
  <2>1. CASE jobs'[e].phase = "failing" /\ jobs'[e].clone = jobs[e].clone /\ remote' = remote
    BY <2>1 DEF IInv, JobInv, MergedInv, At, github
  <2>2. CASE jobs'[e].phase = next /\ jobs'[e].clone = store
    <3>1. store.runs \subseteq remote'.runs
      BY <1>2, <2>2 DEF IInv, JobInv
    <3>2. Recorded(Head(e))'
      BY <1>2, <3>1 DEF Recorded, Head
    <3>3. SeenInv(jobs[e])'
      BY <1>2 DEF SeenInv, github
    <3>4. MergedInv(store)'
      BY DEF MergedInv, github
    <3> QED
      BY <2>2, <3>1, <3>2, <3>3, <3>4 DEF JobInv, MergedInv, At
  <2> QED
    BY <1>2, <2>1, <2>2
<1>8. Frame(e)
  BY <1>2, <1>3 DEF Frame, github
<1> QED
  BY <1>4, <1>5, <1>6, <1>7, <1>8 DEF StepGood

LEMMA PushArchiveGood ==
    ASSUME IInv, NEW e \in Events, PushArchive(e)
    PROVE  StepGood(e)
<1> DEFINE store == Archived(jobs[e].clone, e.bundle)
           next == IF jobs[e].seen.state = "merged" THEN "rereading" ELSE "succeeding"
<1>1. At(e, "archiving") /\ Push(e, store, next) /\ UNCHANGED <<github, status, skipped, bounds>>
  BY DEF PushArchive
<1>2. /\ StoreInv(jobs[e].clone) /\ MergedInv(jobs[e].clone) /\ SeenInv(jobs[e])
      /\ Archiving(e) /\ Archivable(e.bundle, jobs[e].seen)
  BY <1>1 DEF IInv, JobInv, At
<1>3. jobs[e].clone \in Stores /\ e.bundle \in Bundles
  BY <1>2, EventTypes DEF IInv, TypeOK, JobStates
<1>4. CompleteRun(e.bundle) /\ e.bundle.pullRequest.head = Head(e)
  BY <1>2 DEF Archivable, PublishableRun, CandidateOf, Head
<1>5. /\ store \in Stores /\ StoreInv(store) /\ MergedInv(store)
      /\ jobs[e].clone.runs \subseteq store.runs /\ e.bundle \in store.runs
  BY <1>2, <1>3, <1>4, ArchivedGood
<1>6. next \in {"rereading", "succeeding"}
  OBVIOUS
<1> HIDE DEF store, next
<1> QED
  BY <1>1, <1>2, <1>4, <1>5, <1>6, PushGood

LEMMA PushPromotionGood ==
    ASSUME IInv, NEW e \in Events, PushPromotion(e)
    PROVE  StepGood(e)
<1> DEFINE n == jobs[e].number
           clone == jobs[e].clone
           store == Promoted(clone, n)
<1>1. At(e, "publishing") /\ UNCHANGED <<github, status, skipped, bounds>>
  BY DEF PushPromotion
<1>2. StoreInv(clone) /\ MergedInv(clone) /\ SeenInv(jobs[e]) /\ jobs[e].seen.state = "merged"
  BY <1>1 DEF IInv, JobInv, At
<1>3. clone \in Stores /\ n \in Numbers
  BY <1>2 DEF IInv, TypeOK, JobStates, SeenInv
<1>4. pr[n].state = "merged" /\ pr[n].head = jobs[e].seen.head /\ pr[n].tree = jobs[e].seen.tree
  BY <1>2 DEF SeenInv
<1>5. CASE Promotable(clone, n, jobs[e].seen)
  <2>1. Push(e, store, "succeeding")
    BY <1>5 DEF PushPromotion
  <2>2. /\ store \in Stores /\ StoreInv(store) /\ clone.runs \subseteq store.runs
        /\ \E b \in store.runs : b.pullRequest.head = jobs[e].seen.head
    BY <1>2, <1>3, <1>5, PromotedGood
  <2>3. MergedInv(store)
    BY <1>2, <1>3, <1>4, <1>5, PromotedMerged
  <2> HIDE DEF store
  <2> QED
    BY <1>1, <1>2, <2>1, <2>2, <2>3, PushGood DEF Head
<1>6. CASE ~Promotable(clone, n, jobs[e].seen)
  <2>1. Goto(e, "failing") /\ UNCHANGED remote /\ "failing" \in Phases
    BY <1>6 DEF PushPromotion, Phases
  <2>2. failures' \in 0 .. MaxFailures
    BY <1>1 DEF IInv, TypeOK, bounds
  <2> QED
    BY <1>1, <2>1, <2>2, GotoGood DEF bounds
<1> QED
  BY <1>5, <1>6

LEMMA FailGood ==
    ASSUME IInv, NEW e \in Events, Fail(e)
    PROVE  StepGood(e)
<1>1. UNCHANGED <<github, status, remote, skipped, changes>> /\ "failing" \in Phases
  BY DEF Fail, Phases
<1>2. failures' \in 0 .. MaxFailures
  BY PublishAssumption DEF Fail, IInv, TypeOK
<1>3. Goto(e, "failing") \/ Step(e, Idle)
  BY DEF Fail
<1> QED
  BY <1>1, <1>2, <1>3, GotoGood, IdleGood

-----------------------------------------------------------------------------
(* The invariant.                                                          *)

LEMMA JobStepGood ==
    ASSUME IInv, NEW e \in Events, Start(e) \/ JobStep(e) \/ Fail(e)
    PROVE  StepGood(e)
BY StartGood, ReadPRGood, ReportPendingGood, OpenStoreGood, PushArchiveGood, RereadPRGood,
   PushPromotionGood, ReportSuccessGood, ReportFailureGood, FailGood DEF JobStep

LEMMA Steps ==
    ASSUME [Next]_vars
    PROVE  \/ \E e \in Events : Start(e) \/ JobStep(e) \/ Fail(e)
           \/ GitHubStep
           \/ UNCHANGED vars
BY DEF Next, GitHubStep

LEMMA InitInv == Init => IInv
<1> SUFFICES ASSUME Init PROVE IInv
  OBVIOUS
<1>1. pr \in [Numbers -> AllPullRequests] /\ \A n \in Numbers : pr[n] \in PullRequests(n)
  BY DEF Init
<1>2. jobs \in [Events -> JobStates] /\ \A e \in Events : jobs[e] = Idle
  BY IdleType DEF Init
<1>3. TypeOK
  BY <1>1, <1>2, EmptyStoreType, PublishAssumption DEF Init, TypeOK
<1>4. BranchInv
  BY EmptyStoreType DEF Init, BranchInv
<1>5. StatusInv
  BY DEF Init, StatusInv
<1>6. \A e \in Events : JobInv(e)
  <2>1. StoreInv(EmptyStore) /\ MergedInv(EmptyStore) /\ EmptyStore.runs = {}
    BY EmptyStoreType DEF EmptyStore
  <2> QED
    BY <1>2, <2>1 DEF JobInv, At, Idle
<1> QED
  BY <1>3, <1>4, <1>5, <1>6 DEF IInv

LEMMA NextInv == IInv /\ [Next]_vars => IInv'
<1> SUFFICES ASSUME IInv, [Next]_vars PROVE IInv'
  OBVIOUS
<1>1. ASSUME NEW e \in Events, Start(e) \/ JobStep(e) \/ Fail(e) PROVE IInv'
  <2>1. TypeOK' /\ BranchInv' /\ StatusInv' /\ JobInv(e)' /\ Frame(e)
    BY <1>1, JobStepGood DEF StepGood
  <2>2. \A f \in Events \ {e} : JobInv(f)'
    BY <2>1, FrameKeeps DEF IInv
  <2> QED
    BY <2>1, <2>2 DEF IInv
<1>2. CASE GitHubStep
  <2>1. TypeOK' /\ MergedStays /\ UNCHANGED <<status, remote, jobs, skipped>>
    BY <1>2, GitHubStepType DEF IInv
  <2>2. ASSUME NEW store, MergedInv(store) PROVE \A n \in Numbers : store.published[n] # None =>
            /\ pr'[n].state = "merged"
            /\ store.published[n].pullRequest.head = pr'[n].head
            /\ store.published[n].tree = pr'[n].tree
    BY <2>1, <2>2 DEF MergedInv, MergedStays
  <2>3. BranchInv'
    BY <2>1, <2>2 DEF IInv, BranchInv, MergedInv
  <2>4. StatusInv'
    BY <2>1 DEF IInv, StatusInv, Recorded
  <2>5. ASSUME NEW e \in Events PROVE JobInv(e)'
    <3>1. JobInv(e) /\ jobs'[e] = jobs[e]
      BY <2>1 DEF IInv
    <3>2. MergedInv(jobs[e].clone)'
      BY <2>1, <2>2, <3>1 DEF JobInv, MergedInv
    <3>3. SeenInv(jobs[e]) => SeenInv(jobs[e])'
      BY <2>1 DEF SeenInv, MergedStays
    <3>4. Recorded(Head(e)) => Recorded(Head(e))'
      BY <2>1 DEF Recorded, Head
    <3> QED
      BY <2>1, <3>1, <3>2, <3>3, <3>4 DEF JobInv, At
  <2> QED
    BY <2>1, <2>3, <2>4, <2>5 DEF IInv
<1>3. CASE UNCHANGED vars
  BY <1>3 DEF vars, github, bounds, IInv, TypeOK, BranchInv, StatusInv, JobInv, MergedInv,
              SeenInv, Recorded, At, Head
<1> QED
  BY <1>1, <1>2, <1>3, Steps

(* Every reachable state satisfies the inductive invariant.                *)
THEOREM Invariance == Spec => []IInv
BY InitInv, NextInv, PTL DEF Spec

-----------------------------------------------------------------------------
(* The theorems.                                                           *)

(* Every variable stays within its type.                                   *)
THEOREM TypeCorrect == Spec => []TypeOK
<1>1. IInv => TypeOK
  BY DEF IInv
<1> QED
  BY <1>1, Invariance, PTL

(* The index, the publication records and the pending pointers of the data *)
(* branch agree at every commit that archive and promote push.             *)
THEOREM BranchAlwaysConsistent == Spec => []BranchConsistent
<1>1. IInv => BranchConsistent
  BY DEF IInv, BranchInv, StoreInv, BranchConsistent
<1> QED
  BY <1>1, Invariance, PTL

(* What promote publishes for a PR measured what was merged.               *)
THEOREM OnlyMergedPublished == Spec => []PublishedWasMerged
<1>1. IInv => PublishedWasMerged
  BY DEF IInv, BranchInv, StoreInv, MergedInv, PublishedWasMerged
<1> QED
  BY <1>1, Invariance, PTL

(* withPublicationStatus reports success only for recorded or skipped work.*)
THEOREM SuccessMeansRecorded == Spec => []SuccessIsRecorded
<1>1. IInv => SuccessIsRecorded
  BY DEF IInv, StatusInv, Recorded, SuccessIsRecorded
<1> QED
  BY <1>1, Invariance, PTL

-----------------------------------------------------------------------------
(* Steps of the data branch.                                               *)

(* A step that changes the branch is the push of an archive or of a        *)
(* promotion on top of it.                                                 *)
LEMMA BranchSteps ==
    ASSUME IInv, [Next]_vars, remote' # remote
    PROVE  \E e \in Events :
              \/ At(e, "archiving") /\ Archiving(e) /\ remote' = Archived(remote, e.bundle)
              \/ /\ jobs[e].number \in Numbers
                 /\ Promotable(remote, jobs[e].number, jobs[e].seen)
                 /\ remote' = Promoted(remote, jobs[e].number)
<1>1. PICK e \in Events : Start(e) \/ JobStep(e) \/ Fail(e)
  BY Steps, GitHubStepType DEF IInv, vars
<1>2. PushArchive(e) \/ PushPromotion(e)
  BY <1>1 DEF JobStep, Start, Fail, ReadPR, ReportPending, OpenStore, RereadPR, ReportSuccess, ReportFailure
<1>3. JobInv(e)
  BY DEF IInv
<1>4. CASE PushArchive(e)
  <2>1. remote = jobs[e].clone /\ remote' = Archived(jobs[e].clone, e.bundle)
    BY <1>4 DEF PushArchive, Push
  <2> QED
    BY <1>3, <1>4, <2>1 DEF PushArchive, JobInv
<1>5. CASE PushPromotion(e)
  <2>1. /\ Promotable(jobs[e].clone, jobs[e].number, jobs[e].seen)
        /\ remote = jobs[e].clone /\ remote' = Promoted(jobs[e].clone, jobs[e].number)
    BY <1>5 DEF PushPromotion, Push
  <2>2. jobs[e].number \in Numbers
    BY <1>3, <1>5 DEF PushPromotion, JobInv, SeenInv, At
  <2> QED
    BY <2>1, <2>2
<1> QED
  BY <1>2, <1>4, <1>5

LEMMA NewerRunReflexive == \A b \in Bundles : NewerRun(b, b)
BY PublishAssumption DEF NewerRun

(* The pending pointers only advance, in whatever order archivals end.     *)
THEOREM PointersAdvance == Spec => PointerNeverGoesBack
<1> DEFINE Advance == \A n \in Numbers : remote.pending[n] # None =>
                /\ remote'.pending[n] # None
                /\ NewerRun(remote.pending[n], remote'.pending[n])
<1>1. ASSUME IInv, [Next]_vars PROVE Advance
  <2>1. remote \in Stores /\ \A n \in Numbers : remote.pending[n] \in Bundles \cup {None}
    BY <1>1 DEF IInv, TypeOK, Stores
  <2>2. CASE remote' = remote
    BY <2>1, <2>2, NewerRunReflexive
  <2>3. ASSUME NEW e \in Events, Archiving(e), remote' = Archived(remote, e.bundle) PROVE Advance
    <3>1. e.bundle \in Bundles /\ e.bundle.pullRequest.number \in Numbers /\ e.bundle # None
      BY <2>3, EventTypes, PublishAssumption
    <3>2. \A n \in Numbers : remote'.pending[n] =
            IF n = e.bundle.pullRequest.number /\ NewerRun(remote.pending[n], e.bundle)
            THEN e.bundle ELSE remote.pending[n]
      BY <2>1, <2>3, <3>1 DEF Archived, Stores
    <3> QED
      BY <2>1, <3>1, <3>2, NewerRunReflexive
  <2>4. ASSUME NEW e \in Events, remote' = Promoted(remote, jobs[e].number) PROVE Advance
    <3>1. remote'.pending = remote.pending
      BY <2>1, <2>4 DEF Promoted, Stores
    <3> QED
      BY <2>1, <3>1, NewerRunReflexive
  <2> QED
    BY <1>1, <2>2, <2>3, <2>4, BranchSteps
<1>2. IInv /\ [Next]_vars => [Advance]_vars
  BY <1>1
<1> QED
  BY <1>2, Invariance, PTL DEF Spec, PointerNeverGoesBack

(* The data branch implements the abstract history that ResultStore's      *)
(* directories implement too.                                              *)
THEOREM Refinement == Spec => ImplementsPublishedHistory
<1>1. Init => Abstract!Init
  BY DEF Init, EmptyStore, Abstract!Init
<1>2. IInv /\ [Next]_vars => [Abstract!Next]_(remote.index)
  <2> SUFFICES ASSUME IInv, [Next]_vars, remote'.index # remote.index PROVE Abstract!Next
    OBVIOUS
  <2>1. remote \in Stores /\ StoreInv(remote)
    BY DEF IInv, TypeOK, BranchInv
  <2>2. PICK e \in Events :
          \/ Archiving(e) /\ remote' = Archived(remote, e.bundle)
          \/ /\ jobs[e].number \in Numbers
             /\ Promotable(remote, jobs[e].number, jobs[e].seen)
             /\ remote' = Promoted(remote, jobs[e].number)
    BY BranchSteps
  <2>3. ~(Archiving(e) /\ remote' = Archived(remote, e.bundle))
    BY <2>1, EventTypes, ArchivedGood
  <2> DEFINE n == jobs[e].number
             bundle == remote.pending[n]
  <2>4. n \in Numbers /\ Promotable(remote, n, jobs[e].seen) /\ remote' = Promoted(remote, n)
    BY <2>2, <2>3
  <2> HIDE DEF n
  <2>5. remote'.index = remote.index \cup {bundle} /\ bundle \in remote.runs
    BY <2>1, <2>4, PromotedGood
  <2>6. bundle \in Bundles /\ CompleteRun(bundle) /\ bundle.pullRequest.number = n /\ bundle # None
    BY <2>1, <2>4, <2>5 DEF StoreInv, Stores, Promotable
  <2>7. bundle.source = "published" /\ Consistent(remote.index \cup {bundle})
    BY <2>4 DEF Promotable, PublicationMatches
  <2>8. remote.published[n] = None
    <3>1. bundle \notin remote.index
      BY <2>5
    <3>2. remote.published[n] # None => remote.published[n] \in remote.index
      BY <2>1, <2>4 DEF StoreInv
    <3> QED
      BY <2>4, <3>1, <3>2 DEF Promotable
  <2>9. \A other \in remote.index : other.pullRequest.number # n
    BY <2>1, <2>8 DEF StoreInv
  <2> HIDE DEF bundle
  <2>10. Abstract!Publish(bundle)
    BY <2>5, <2>6, <2>7, <2>9 DEF Abstract!Publish, Abstract!CompleteRun, CompleteRun,
        Abstract!Consistent, Consistent, Abstract!Compatible, Compatible,
        Abstract!CatalogsAgree, CatalogsAgree
  <2> QED
    BY <2>6, <2>10 DEF Abstract!Next
<1> QED
  BY <1>1, <1>2, Invariance, PTL DEF Spec, ImplementsPublishedHistory, Abstract!Spec

-----------------------------------------------------------------------------
(* Every job ends, and the archival of the newest run publishes it.        *)

(* The step of a job, or its failure, as a change of its own record.       *)
Moves(e) ==
    \/ At(e, "reporting") /\ jobs'[e].phase = IF Archiving(e) THEN "opening" ELSE "rereading"
    \/ /\ At(e, "opening")
       /\ IF Archiving(e) THEN jobs'[e].phase \in {"archiving", "succeeding", "failing"}
                          ELSE jobs'[e].phase = "reading"
    \/ /\ At(e, "archiving") /\ Archiving(e) /\ jobs'[e].phase \in {"rereading", "succeeding", "failing"}
       /\ jobs'[e].phase = "rereading" => jobs'[e].clone = Archived(jobs[e].clone, e.bundle)
    \/ /\ At(e, "rereading") /\ jobs'[e].phase \in {"publishing", "succeeding", "failing"}
       /\ jobs'[e].clone = jobs[e].clone
    \/ At(e, "publishing") /\ jobs'[e].phase \in {"succeeding", "failing"}
    \/ At(e, "succeeding") /\ jobs'[e].phase = "failing"
    \/ At(e, "succeeding") /\ jobs'[e].phase = "reading" /\ jobs[e].todo # {}

Selects(e) ==
    /\ At(e, "reading")
    /\ jobs'[e].phase = "reporting"
    /\ \E n \in jobs[e].todo :
        /\ jobs'[e].number = n
        /\ jobs'[e].todo = jobs[e].todo \ {n}
        /\ Archiving(e) => pr[n].head = e.bundle.pullRequest.head

LEMMA GotoMoves ==
    ASSUME TypeOK, NEW e \in Events, NEW phase \in Phases, Goto(e, phase)
    PROVE  /\ jobs'[e].phase = phase /\ jobs'[e].clone = jobs[e].clone
           /\ jobs'[e].todo = jobs[e].todo /\ jobs'[e].number = jobs[e].number
BY GotoType

LEMMA JobOutcome ==
    ASSUME IInv, NEW e \in Events, JobStep(e) \/ Fail(e)
    PROVE  \/ ~At(e, "idle") /\ jobs'[e] = Idle
           \/ Selects(e)
           \/ /\ jobs'[e].todo = jobs[e].todo /\ jobs'[e].number = jobs[e].number
              /\ Moves(e)
<1>1. /\ TypeOK /\ JobInv(e)
      /\ jobs[e] \in [phase : Phases, number : Numbers \cup {None}, todo : SUBSET Numbers,
                      seen : AllPullRequests \cup {None}, clone : Stores]
      /\ jobs \in [Events -> JobStates]
    BY DEF IInv, TypeOK, JobStates
<1>2. {"idle", "opening", "reading", "reporting", "archiving", "rereading",
       "publishing", "succeeding", "failing"} = Phases
    BY DEF Phases
<1>3. CASE ReadPR(e)
    <2>1. PICK n \in jobs[e].todo :
            Step(e, IF Archiving(e) => pr[n].head = e.bundle.pullRequest.head
                    THEN [jobs[e] EXCEPT !.phase = "reporting", !.number = n,
                                         !.todo = @ \ {n}, !.seen = pr[n]]
                    ELSE Idle)
        BY <1>3 DEF ReadPR
    <2>2. CASE Archiving(e) => pr[n].head = e.bundle.pullRequest.head
        <3>1. jobs'[e] = [jobs[e] EXCEPT !.phase = "reporting", !.number = n,
                                         !.todo = @ \ {n}, !.seen = pr[n]]
            BY <1>1, <2>1, <2>2 DEF Step
        <3>2. /\ jobs'[e].phase = "reporting" /\ jobs'[e].number = n
              /\ jobs'[e].todo = jobs[e].todo \ {n}
            BY <1>1, <3>1
        <3> QED BY <1>3, <2>2, <3>2 DEF Selects, ReadPR
    <2>3. CASE ~(Archiving(e) => pr[n].head = e.bundle.pullRequest.head)
        BY <1>1, <1>3, <2>1, <2>3 DEF Step, ReadPR, At
    <2> QED BY <2>2, <2>3
<1>4. CASE ReportPending(e)
    <2>1. Goto(e, IF Archiving(e) THEN "opening" ELSE "rereading") /\ At(e, "reporting")
        BY <1>4 DEF ReportPending
    <2> QED BY <1>1, <1>2, <2>1, GotoMoves DEF Moves
<1>5. CASE OpenStore(e)
    <2>1. /\ At(e, "opening")
          /\ \/ Archiving(e) /\ (Goto(e, "succeeding") \/ Goto(e, "failing"))
             \/ Archiving(e) /\ Step(e, [jobs[e] EXCEPT !.phase = "archiving", !.clone = remote])
             \/ ~Archiving(e) /\ Step(e, [jobs[e] EXCEPT !.phase = "reading", !.clone = remote])
        BY <1>5 DEF OpenStore, Goto
    <2>2. ASSUME Archiving(e), NEW phase \in {"succeeding", "failing"}, Goto(e, phase)
          PROVE  Moves(e) /\ jobs'[e].todo = jobs[e].todo /\ jobs'[e].number = jobs[e].number
        BY <1>1, <1>2, <2>1, <2>2, GotoMoves DEF Moves
    <2>3. ASSUME NEW phase \in {"archiving", "reading"},
                 Step(e, [jobs[e] EXCEPT !.phase = phase, !.clone = remote])
          PROVE  /\ jobs'[e].phase = phase /\ jobs'[e].todo = jobs[e].todo
                 /\ jobs'[e].number = jobs[e].number
        BY <1>1, <2>3 DEF Step
    <2> QED BY <2>1, <2>2, <2>3 DEF Moves
<1>6. CASE PushArchive(e)
    <2> DEFINE store == Archived(jobs[e].clone, e.bundle)
               next == IF jobs[e].seen.state = "merged" THEN "rereading" ELSE "succeeding"
    <2>1. At(e, "archiving") /\ Archiving(e) /\ Push(e, store, next)
        BY <1>1, <1>6 DEF PushArchive, JobInv
    <2>2. store \in Stores /\ next \in {"rereading", "succeeding"} /\ next \in Phases
        BY <1>1, <1>2, <2>1, EventTypes, ArchivedGood
    <2> HIDE DEF store, next
    <2>3. /\ jobs'[e].todo = jobs[e].todo /\ jobs'[e].number = jobs[e].number
          /\ \/ jobs'[e].phase = "failing"
             \/ jobs'[e].phase = next /\ jobs'[e].clone = store
        BY <1>1, <2>1, <2>2, PushOutcome
    <2> QED BY <2>1, <2>2, <2>3 DEF Moves, store
<1>7. CASE RereadPR(e)
    <2>1. PICK phase \in {"publishing", "succeeding", "failing"} :
            Step(e, [jobs[e] EXCEPT !.seen = pr[jobs[e].number], !.phase = phase])
        BY <1>7 DEF RereadPR
    <2>2. /\ jobs'[e].phase = phase /\ jobs'[e].todo = jobs[e].todo
          /\ jobs'[e].number = jobs[e].number /\ jobs'[e].clone = jobs[e].clone
        BY <1>1, <2>1 DEF Step
    <2> QED BY <1>7, <2>2 DEF RereadPR, Moves
<1>8. CASE PushPromotion(e)
    <2> DEFINE store == Promoted(jobs[e].clone, jobs[e].number)
    <2>1. At(e, "publishing") /\ jobs[e].number \in Numbers /\ StoreInv(jobs[e].clone)
        BY <1>1, <1>8 DEF PushPromotion, JobInv, SeenInv, At
    <2>2. CASE Promotable(jobs[e].clone, jobs[e].number, jobs[e].seen)
        <3>1. Push(e, store, "succeeding")
            BY <1>8, <2>2 DEF PushPromotion
        <3>2. store \in Stores
            BY <1>1, <2>1, <2>2, PromotedGood
        <3> HIDE DEF store
        <3>3. /\ jobs'[e].todo = jobs[e].todo /\ jobs'[e].number = jobs[e].number
              /\ jobs'[e].phase \in {"succeeding", "failing"}
            BY <1>1, <1>2, <3>1, <3>2, PushOutcome
        <3> QED BY <2>1, <3>3 DEF Moves
    <2>3. CASE ~Promotable(jobs[e].clone, jobs[e].number, jobs[e].seen)
        <3>1. Goto(e, "failing")
            BY <1>8, <2>3 DEF PushPromotion
        <3> QED BY <1>1, <1>2, <2>1, <3>1, GotoMoves DEF Moves
    <2> QED BY <2>2, <2>3
<1>9. CASE ReportSuccess(e)
    <2>1. CASE jobs[e].todo = {}
        BY <1>1, <1>9, <2>1 DEF ReportSuccess, Step, At
    <2>2. CASE jobs[e].todo # {}
        <3>1. jobs'[e] = [jobs[e] EXCEPT !.phase = "reading"]
            BY <1>1, <1>9, <2>2 DEF ReportSuccess, Step
        <3>2. /\ jobs'[e].phase = "reading" /\ jobs'[e].todo = jobs[e].todo
              /\ jobs'[e].number = jobs[e].number
            BY <1>1, <3>1
        <3> QED BY <1>9, <2>2, <3>2 DEF ReportSuccess, Moves
    <2> QED BY <2>1, <2>2
<1>10. CASE ReportFailure(e)
    BY <1>1, <1>10 DEF ReportFailure, Step, At
<1>11. CASE Fail(e)
    <2>1. CASE /\ Goto(e, "failing")
               /\ \/ Archiving(e) /\ At(e, "opening")
                  \/ jobs[e].phase \in {"archiving", "rereading", "publishing", "succeeding"}
        <3>1. /\ jobs'[e].phase = "failing" /\ jobs'[e].clone = jobs[e].clone
              /\ jobs'[e].todo = jobs[e].todo /\ jobs'[e].number = jobs[e].number
            BY <1>1, <1>2, <2>1, GotoMoves
        <3>2. At(e, "archiving") => Archiving(e)
            BY <1>1 DEF JobInv
        <3> QED BY <2>1, <3>1, <3>2 DEF Moves, At
    <2>2. CASE Step(e, Idle)
        BY <1>1, <1>11, <2>2 DEF Fail, Step, At
    <2> QED BY <1>11, <2>1, <2>2 DEF Fail
<1> QED BY <1>3, <1>4, <1>5, <1>6, <1>7, <1>8, <1>9, <1>10, <1>11 DEF JobStep

(* How near a job is to its end, or to the next PR of its push.            *)
Rank(e, phase) ==
    CASE phase = "opening" -> IF Archiving(e) THEN 6 ELSE 8
      [] phase = "reporting" -> 7
      [] phase = "archiving" -> 5
      [] phase = "rereading" -> 4
      [] phase = "publishing" -> 3
      [] phase = "succeeding" -> 2
      [] phase \in {"reading", "failing"} -> 1
      [] OTHER -> 0

Advances(e) ==
    \/ jobs'[e].todo \subseteq jobs[e].todo /\ jobs'[e].todo # jobs[e].todo
    \/ jobs'[e].todo = jobs[e].todo /\ Rank(e, jobs'[e].phase) < Rank(e, jobs[e].phase)

(* Only its own steps move a job, and each of them, and each failure, takes*)
(* it nearer to its end or ends it.                                        *)
JobMovesOn(e) ==
    /\ ~At(e, "idle") => jobs'[e] = jobs[e] \/ Advances(e)
    /\ JobStep(e) => Advances(e)

LEMMA RankValues ==
    ASSUME NEW e
    PROVE  /\ Rank(e, "idle") = 0
           /\ Rank(e, "reading") = 1 /\ Rank(e, "failing") = 1
           /\ Rank(e, "succeeding") = 2 /\ Rank(e, "publishing") = 3
           /\ Rank(e, "rereading") = 4 /\ Rank(e, "archiving") = 5
           /\ Rank(e, "reporting") = 7
           /\ Archiving(e) => Rank(e, "opening") = 6
           /\ ~Archiving(e) => Rank(e, "opening") = 8
<1> USE DEF Rank
<1>1. /\ Rank(e, "idle") = 0 /\ Rank(e, "reading") = 1 /\ Rank(e, "failing") = 1
      /\ Rank(e, "succeeding") = 2 /\ Rank(e, "publishing") = 3
    OBVIOUS
<1>2. /\ Rank(e, "rereading") = 4 /\ Rank(e, "archiving") = 5 /\ Rank(e, "reporting") = 7
    OBVIOUS
<1>3. Rank(e, "opening") = IF Archiving(e) THEN 6 ELSE 8
    OBVIOUS
<1> QED BY <1>1, <1>2, <1>3

LEMMA JobAdvances ==
    ASSUME IInv, NEW e \in Events, JobStep(e) \/ Fail(e)
    PROVE  Advances(e)
<1>1. jobs[e].phase \in Phases
    BY DEF IInv, TypeOK, JobStates
<1>2. CASE ~At(e, "idle") /\ jobs'[e] = Idle
    <2>1. jobs'[e].phase = "idle" /\ jobs'[e].todo = {}
        BY <1>2 DEF Idle
    <2>2. Rank(e, jobs'[e].phase) = 0
        BY <2>1, RankValues
    <2>3. Rank(e, jobs[e].phase) \in 1 .. 8
        BY <1>1, <1>2, RankValues DEF Phases, At
    <2> QED BY <2>1, <2>2, <2>3 DEF Advances
<1>3. CASE Selects(e)
    BY <1>3 DEF Selects, Advances
<1>4. CASE jobs'[e].todo = jobs[e].todo /\ Moves(e)
    BY <1>4, RankValues DEF Moves, At, Advances
<1> QED BY <1>2, <1>3, <1>4, JobOutcome

(* A job ends, whatever fails in it and whatever other jobs and the PRs do:*)
(* the PRs a push has merged are taken in turn, and each at most once.     *)
THEOREM JobsMoveOn == Spec => [][\A e \in Events : JobMovesOn(e)]_vars
<1>1. ASSUME IInv, [Next]_vars, NEW e \in Events PROVE JobMovesOn(e)
    <2>1. CASE JobStep(e) \/ Fail(e)
        BY <1>1, <2>1, JobAdvances DEF JobMovesOn
    <2>2. CASE Start(e) /\ ~JobStep(e)
        BY <2>2 DEF Start, JobMovesOn
    <2>3. ASSUME NEW f \in Events \ {e}, Start(f) \/ JobStep(f) \/ Fail(f), ~JobStep(e)
          PROVE  JobMovesOn(e)
        <3>1. jobs'[e] = jobs[e]
            BY <1>1, <2>3, JobStepGood DEF StepGood, Frame
        <3> QED BY <2>3, <3>1 DEF JobMovesOn
    <2>4. CASE GitHubStep /\ ~JobStep(e)
        BY <1>1, <2>4, GitHubStepType DEF IInv, JobMovesOn
    <2>5. CASE UNCHANGED vars /\ ~JobStep(e)
        BY <2>5 DEF vars, JobMovesOn
    <2> QED BY <1>1, <2>1, <2>2, <2>3, <2>4, <2>5, Steps
<1>2. IInv /\ [Next]_vars => \A e \in Events : JobMovesOn(e)
    BY <1>1
<1> QED BY <1>2, Invariance, PTL DEF Spec

(* Runs, entries and publications are only added.                          *)
BranchGrows ==
    /\ \A n \in Numbers : remote.published[n] # None => remote'.published[n] = remote.published[n]
    /\ remote.runs \subseteq remote'.runs
    /\ remote.index \subseteq remote'.index

(* What the data branch has stays there: no push from an old clone, no     *)
(* retry and no second promotion takes a record back or replaces it.       *)
THEOREM NothingIsWithdrawn == Spec => [][BranchGrows]_vars
<1>1. ASSUME IInv, [Next]_vars PROVE BranchGrows
    <2>1. remote \in Stores /\ StoreInv(remote)
        BY <1>1 DEF IInv, TypeOK, BranchInv
    <2>2. CASE remote' = remote
        BY <2>2 DEF BranchGrows
    <2>3. ASSUME NEW e \in Events, Archiving(e), remote' = Archived(remote, e.bundle)
          PROVE  BranchGrows
        BY <2>1, <2>3, EventTypes, ArchivedGood DEF BranchGrows
    <2>4. ASSUME NEW n \in Numbers, NEW seen, Promotable(remote, n, seen), remote' = Promoted(remote, n)
          PROVE  BranchGrows
        <3>1. \A m \in Numbers : remote'.published[m] =
                    IF m = n THEN remote.pending[n] ELSE remote.published[m]
            BY <2>1, <2>4 DEF Promoted, Stores
        <3>2. remote.published[n] \in {None, remote.pending[n]}
            BY <2>4 DEF Promotable
        <3>3. /\ remote'.runs = remote.runs
              /\ remote'.index = remote.index \cup {remote.pending[n]}
            BY <2>1, <2>4, PromotedGood
        <3> QED BY <3>1, <3>2, <3>3 DEF BranchGrows
    <2> QED BY <1>1, <2>2, <2>3, <2>4, BranchSteps
<1>2. IInv /\ [Next]_vars => BranchGrows
    BY <1>1
<1> QED BY <1>2, Invariance, PTL DEF Spec

(* A bundle of a head that its PR had once is older than every run of the  *)
(* head it has now.                                                        *)
OldHead(bundle) ==
    LET n == bundle.pullRequest.number IN
    \/ bundle.pullRequest.head = pr[n].head
    \/ \A new \in Of(n) : new.pullRequest.head = pr[n].head => bundle.run.id < new.run.id

(* An archival is about its bundle's PR, and its clone's pointer names its *)
(* bundle or a newer one when it goes on to publish.                       *)
ArchivalInv(e) ==
    LET n == e.bundle.pullRequest.number IN
    /\ jobs[e].todo \subseteq {n}
    /\ jobs[e].phase \notin {"idle", "reading"} => jobs[e].number = n /\ OldHead(e.bundle)
    /\ jobs[e].phase \in {"rereading", "publishing"} =>
        /\ jobs[e].clone.pending[n] # None
        /\ NewerRun(e.bundle, jobs[e].clone.pending[n])
        /\ PublishableRun(e.bundle, ArchivePolicy(e.bundle))
        /\ e.bundle.tree = MergeTree(e.bundle.pullRequest.base, e.bundle.pullRequest.head)

(* A job that is about to read a PR has one to read.                       *)
TodoInv(e) ==
    At(e, "reading") \/ (At(e, "opening") /\ ~Archiving(e)) => jobs[e].todo # {}

NewestInv ==
    /\ \A b \in remote.runs : OldHead(b)
    /\ \A e \in ArchiveEvents : ArchivalInv(e)
    /\ \A e \in Events : TodoInv(e)

(* The newest run of the head its PR has, and the only one of its attempt. *)
IsNewest(bundle) ==
    LET n == bundle.pullRequest.number IN
    /\ pr[n].head = bundle.pullRequest.head
    /\ \A other \in Of(n) :
        /\ other.pullRequest.head = pr[n].head => NewerRun(other, bundle)
        /\ other.run.id = bundle.run.id /\ other.run.attempt = bundle.run.attempt => other = bundle

(* An archival that gets as far as promoting, of the newest run of what was*)
(* merged, promotes that very run, unless another run was published for the*)
(* PR or the history does not group with it: no archival of an older run or*)
(* head that came in between has taken the pointer from it.                *)
NewestIsPromotable(e) ==
    LET n == e.bundle.pullRequest.number
        store == jobs[e].clone
    IN At(e, "publishing") /\ IsNewest(e.bundle) /\ pr[n].tree = e.bundle.tree =>
        \/ Promotable(store, n, jobs[e].seen) /\ store.pending[n] = e.bundle
        \/ store.published[n] \notin {None, e.bundle}
        \/ ~Consistent(store.index \cup {e.bundle})

LEMMA ArchiveEventTypes ==
    ASSUME NEW e \in ArchiveEvents
    PROVE  /\ e \in Events /\ Archiving(e)
           /\ e.bundle \in Bundles /\ e.bundle # None
           /\ e.bundle.pullRequest.number \in Numbers
           /\ e.bundle \in Of(e.bundle.pullRequest.number)
BY PublishAssumption DEF ArchiveEvents, Events, Archiving, Numbers, Of

(* Changes of PRs: the runs of a new head are newer than those before it.  *)
LEMMA HeadsMoveOn ==
    ASSUME TypeOK, GitHubStep, NEW bundle \in Bundles, OldHead(bundle)
    PROVE  OldHead(bundle)'
<1> DEFINE n == bundle.pullRequest.number
<1>1. n \in Numbers /\ bundle \in Of(n) /\ pr[n] \in PullRequests(n)
    BY DEF Numbers, Of, TypeOK
<1>2. CASE pr'[n].head = pr[n].head
    BY <1>2 DEF OldHead
<1>3. ASSUME NEW m \in Numbers, PushHead(m), pr'[n].head # pr[n].head PROVE OldHead(bundle)'
    <2>1. PICK h \in Heads(m) :
            /\ \A old, new \in Of(m) :
                old.pullRequest.head = pr[m].head /\ new.pullRequest.head = h => old.run.id < new.run.id
            /\ Change(m, [pr[m] EXCEPT !.head = h])
        BY <1>3 DEF PushHead
    <2>2. pr' = [pr EXCEPT ![m] = [pr[m] EXCEPT !.head = h]] /\ pr[m] \in PullRequests(m)
        BY <2>1 DEF Change, TypeOK
    <2>3. m = n /\ pr'[n].head = h
        BY <1>1, <1>3, <2>2 DEF TypeOK, PullRequests
    <2>4. PICK last \in Of(n) : last.pullRequest.head = pr[n].head
        BY <1>1 DEF PullRequests, Heads
    <2>5. ASSUME NEW new \in Of(n), new.pullRequest.head = pr'[n].head PROVE bundle.run.id < new.run.id
        <3>1. last.run.id < new.run.id
            BY <2>1, <2>3, <2>4, <2>5
        <3>2. CASE bundle.pullRequest.head = pr[n].head
            BY <1>1, <2>1, <2>3, <2>5, <3>2
        <3>3. CASE bundle.run.id < last.run.id
            <4>1. bundle.run.id \in Nat /\ last.run.id \in Nat /\ new.run.id \in Nat
                BY PublishAssumption DEF Of
            <4> QED BY <3>1, <3>3, <4>1
        <3> QED BY <2>4, <3>2, <3>3 DEF OldHead
    <2> QED BY <2>5 DEF OldHead
<1>4. CASE \A m \in Numbers : ~PushHead(m)
    <2>1. pr'[n].head = pr[n].head
        <3>1. ASSUME NEW m \in Numbers, MoveBase(m) \/ Relabel(m) \/ Close(m)
              PROVE  pr'[n].head = pr[n].head
            <4>1. pr[m] \in [state : {"open", "closed", "merged"}, head : Heads(m), base : Bases(m),
                              skip : BOOLEAN, tree : Trees(m) \cup {None}]
                BY DEF TypeOK, PullRequests
            <4>2. ASSUME NEW fields, Change(m, fields), fields.head = pr[m].head
                  PROVE  pr'[n].head = pr[n].head
                BY <1>1, <4>2 DEF Change, TypeOK
            <4>3. CASE MoveBase(m)
                <5>1. PICK b \in Bases(m) : Change(m, [pr[m] EXCEPT !.base = b])
                    BY <4>3 DEF MoveBase
                <5>2. [pr[m] EXCEPT !.base = b].head = pr[m].head
                    BY <4>1
                <5> QED BY <4>2, <5>1, <5>2
            <4>4. CASE Relabel(m)
                <5>1. [pr[m] EXCEPT !.skip = ~@].head = pr[m].head
                    BY <4>1
                <5> QED BY <4>2, <4>4, <5>1 DEF Relabel
            <4>5. CASE Close(m)
                <5>1. [pr[m] EXCEPT !.state = "closed"].head = pr[m].head
                    BY <4>1
                <5> QED BY <4>2, <4>5, <5>1 DEF Close
            <4> QED BY <3>1, <4>3, <4>4, <4>5
        <3>2. ASSUME NEW numbers \in (SUBSET Numbers) \ {{}}, Merge(numbers)
              PROVE  pr'[n].head = pr[n].head
            <4>1. PICK onto : pr' = [m \in Numbers |->
                    IF m \in numbers
                    THEN [pr[m] EXCEPT !.state = "merged", !.tree = MergeTree(onto[m], pr[m].head)]
                    ELSE pr[m]]
                BY <3>2 DEF Merge
            <4>2. pr[n] \in [state : {"open", "closed", "merged"}, head : Heads(n), base : Bases(n),
                              skip : BOOLEAN, tree : Trees(n) \cup {None}]
                BY <1>1 DEF PullRequests
            <4> QED BY <1>1, <4>1, <4>2
        <3> QED BY <1>4, <3>1, <3>2 DEF GitHubStep
    <2> QED BY <1>2, <2>1
<1> QED BY <1>2, <1>3, <1>4

LEMMA NewerRunTotal ==
    ASSUME NEW b \in Bundles, NEW c \in Bundles, ~NewerRun(b, c)
    PROVE  NewerRun(c, b)
<1>1. /\ b.run.id \in Nat /\ b.run.attempt \in Nat
      /\ c.run.id \in Nat /\ c.run.attempt \in Nat
    BY PublishAssumption
<1> QED BY <1>1 DEF NewerRun

LEMMA ArchivalStep ==
    ASSUME IInv, NewestInv, NEW e \in ArchiveEvents, Start(e) \/ JobStep(e) \/ Fail(e)
    PROVE  ArchivalInv(e)'
<1> DEFINE n == e.bundle.pullRequest.number
<1>1. /\ e \in Events /\ Archiving(e) /\ e.bundle \in Bundles /\ n \in Numbers
      /\ ArchivalInv(e) /\ JobInv(e) /\ TypeOK
    BY ArchiveEventTypes DEF IInv, NewestInv
<1>2. pr' = pr /\ (OldHead(e.bundle) <=> OldHead(e.bundle)')
    BY <1>1, JobStepGood DEF StepGood, Frame, OldHead
<1>3. CASE Start(e)
    <2>1. jobs'[e] = [Idle EXCEPT !.phase = "reading", !.todo = {n}]
        BY <1>1, <1>3 DEF Start, Step, TypeOK
    <2>2. jobs'[e].phase = "reading" /\ jobs'[e].todo = {n}
        BY <2>1 DEF Idle
    <2> QED BY <2>2 DEF ArchivalInv
<1>4. CASE jobs'[e] = Idle
    BY <1>4 DEF ArchivalInv, Idle
<1>5. CASE Selects(e)
    <2>1. /\ jobs'[e].phase = "reporting" /\ jobs'[e].number = n
          /\ jobs'[e].todo \subseteq {n} /\ pr[n].head = e.bundle.pullRequest.head
        BY <1>1, <1>5 DEF Selects, ArchivalInv
    <2> QED BY <1>2, <2>1 DEF ArchivalInv, OldHead
<1>6. ASSUME jobs'[e].todo = jobs[e].todo, jobs'[e].number = jobs[e].number, Moves(e)
      PROVE  ArchivalInv(e)'
    <2>1. /\ jobs[e].phase \notin {"idle", "reading"}
          /\ jobs'[e].phase # "idle"
        BY <1>6 DEF Moves, At
    <2>2. /\ jobs'[e].todo \subseteq {n}
          /\ jobs'[e].number = n /\ OldHead(e.bundle)'
        BY <1>1, <1>2, <1>6, <2>1 DEF ArchivalInv
    <2>3. CASE At(e, "archiving") /\ jobs'[e].phase = "rereading"
        <3>1. Archivable(e.bundle, jobs[e].seen) /\ jobs'[e].clone = Archived(jobs[e].clone, e.bundle)
            BY <1>1, <1>6, <2>3 DEF Moves, At, JobInv
        <3>2. jobs[e].clone \in Stores /\ jobs[e].clone.pending[n] \in Bundles \cup {None}
            BY <1>1 DEF TypeOK, JobStates, Stores
        <3>3. jobs'[e].clone.pending[n] = IF NewerRun(jobs[e].clone.pending[n], e.bundle)
                                          THEN e.bundle ELSE jobs[e].clone.pending[n]
            BY <1>1, <3>1, <3>2 DEF Archived, Stores
        <3>4. /\ jobs'[e].clone.pending[n] # None
              /\ NewerRun(e.bundle, jobs'[e].clone.pending[n])
            <4>1. CASE NewerRun(jobs[e].clone.pending[n], e.bundle)
                BY <1>1, <3>3, <4>1, NewerRunReflexive, PublishAssumption
            <4>2. CASE ~NewerRun(jobs[e].clone.pending[n], e.bundle)
                <5>1. jobs[e].clone.pending[n] # None /\ jobs[e].clone.pending[n] \in Bundles
                    BY <3>2, <4>2 DEF NewerRun
                <5>2. NewerRun(e.bundle, jobs[e].clone.pending[n])
                    BY <1>1, <4>2, <5>1, NewerRunTotal
                <5> QED BY <3>3, <4>2, <5>1, <5>2
            <4> QED BY <4>1, <4>2
        <3> QED BY <2>2, <2>3, <3>1, <3>4 DEF ArchivalInv, Archivable, CandidateOf
    <2>4. CASE At(e, "rereading")
        <3>1. jobs'[e].clone = jobs[e].clone
            BY <1>6, <2>4 DEF Moves, At
        <3> QED BY <1>1, <2>2, <2>4, <3>1 DEF ArchivalInv, At
    <2>5. CASE ~(At(e, "archiving") /\ jobs'[e].phase = "rereading") /\ ~At(e, "rereading")
        <3>1. jobs'[e].phase \notin {"rereading", "publishing"}
            BY <1>1, <1>6, <2>5 DEF Moves, At
        <3> QED BY <2>2, <3>1 DEF ArchivalInv
    <2> QED BY <2>3, <2>4, <2>5
<1> QED BY <1>1, <1>3, <1>4, <1>5, <1>6, JobOutcome

LEMMA NewestStep == IInv /\ NewestInv /\ [Next]_vars => NewestInv'
<1> SUFFICES ASSUME IInv, NewestInv, [Next]_vars PROVE NewestInv'
    OBVIOUS
<1>1. TypeOK /\ remote \in Stores /\ remote.runs \subseteq Bundles
    BY DEF IInv, TypeOK, Stores
<1>2. ASSUME NEW e \in Events, Start(e) \/ JobStep(e) \/ Fail(e) PROVE NewestInv'
    <2>1. pr' = pr /\ \A f \in Events \ {e} : jobs'[f] = jobs[f]
        BY <1>2, JobStepGood DEF StepGood, Frame
    <2>2. \A b : OldHead(b)' <=> OldHead(b)
        BY <2>1 DEF OldHead
    <2>3. ASSUME NEW b \in remote'.runs PROVE OldHead(b)'
        <3>1. CASE b \in remote.runs
            BY <2>2, <3>1 DEF NewestInv
        <3>2. CASE b \notin remote.runs
            <4>1. PICK f \in Events :
                    \/ At(f, "archiving") /\ Archiving(f) /\ remote' = Archived(remote, f.bundle)
                    \/ /\ jobs[f].number \in Numbers
                       /\ Promotable(remote, jobs[f].number, jobs[f].seen)
                       /\ remote' = Promoted(remote, jobs[f].number)
                BY <2>3, <3>2, BranchSteps
            <4>2. At(f, "archiving") /\ Archiving(f) /\ remote' = Archived(remote, f.bundle)
                BY <1>1, <2>3, <3>2, <4>1, PromotedGood DEF IInv, BranchInv
            <4>3. b = f.bundle
                BY <1>1, <2>3, <3>2, <4>2 DEF Archived, Stores
            <4>4. f \in ArchiveEvents
                BY <4>2 DEF Events, ArchiveEvents, PushEvents, Archiving
            <4> QED BY <2>2, <4>2, <4>3, <4>4 DEF NewestInv, ArchivalInv, At
        <3> QED BY <3>1, <3>2
    <2>4. ASSUME NEW f \in ArchiveEvents PROVE ArchivalInv(f)'
        <3>1. CASE f = e
            BY <1>2, <3>1, ArchivalStep
        <3>2. CASE f # e
            <4>1. jobs'[f] = jobs[f]
                BY <2>1, <3>2, ArchiveEventTypes
            <4> QED BY <2>2, <4>1 DEF NewestInv, ArchivalInv
        <3> QED BY <3>1, <3>2
    <2>5. ASSUME NEW f \in Events, At(f, "reading")' \/ (At(f, "opening")' /\ ~Archiving(f))
          PROVE  jobs'[f].todo # {}
        <3>1. CASE f # e
            BY <2>1, <2>5, <3>1 DEF NewestInv, TodoInv, At
        <3>2. CASE f = e /\ Start(e)
            <4>1. jobs'[e] = IF Archiving(e)
                  THEN [Idle EXCEPT !.phase = "reading", !.todo = {e.bundle.pullRequest.number}]
                  ELSE [Idle EXCEPT !.phase = "opening", !.todo = e.numbers]
                BY <1>1, <3>2 DEF Start, Step, TypeOK
            <4>2. jobs'[e].todo = IF Archiving(e) THEN {e.bundle.pullRequest.number} ELSE e.numbers
                BY <4>1 DEF Idle
            <4>3. ~Archiving(e) => e.numbers # {}
                BY DEF Events, ArchiveEvents, PushEvents, Archiving
            <4> QED BY <3>2, <4>2, <4>3
        <3>3. CASE f = e /\ (JobStep(e) \/ Fail(e))
            <4>1. CASE jobs'[e] = Idle \/ Selects(e)
                BY <2>5, <3>3, <4>1 DEF Idle, Selects, At
            <4>2. CASE jobs'[e].todo = jobs[e].todo /\ Moves(e)
                <5>1. TodoInv(e)
                    BY DEF NewestInv
                <5> QED BY <2>5, <3>3, <4>2, <5>1 DEF Moves, TodoInv, At
            <4> QED BY <3>3, <4>1, <4>2, JobOutcome
        <3> QED BY <1>2, <3>1, <3>2, <3>3
    <2>6. \A f \in Events : TodoInv(f)'
        BY <2>5 DEF TodoInv
    <2> QED BY <2>3, <2>4, <2>6 DEF NewestInv
<1>3. CASE GitHubStep
    <2>1. UNCHANGED <<remote, jobs>>
        BY <1>1, <1>3, GitHubStepType
    <2>2. \A b \in Bundles : OldHead(b) => OldHead(b)'
        BY <1>1, <1>3, HeadsMoveOn
    <2>3. \A e \in ArchiveEvents : ArchivalInv(e)'
        BY <2>1, <2>2, ArchiveEventTypes DEF NewestInv, ArchivalInv
    <2> QED BY <1>1, <2>1, <2>2, <2>3 DEF NewestInv, TodoInv, At
<1>4. CASE UNCHANGED vars
    BY <1>4 DEF vars, github, NewestInv, ArchivalInv, TodoInv, OldHead, At
<1> QED BY <1>2, <1>3, <1>4, Steps

LEMMA NewestInit == Init => NewestInv
<1> SUFFICES ASSUME Init PROVE NewestInv
    OBVIOUS
<1>1. remote.runs = {}
    BY DEF Init, EmptyStore
<1>2. ASSUME NEW e \in Events PROVE jobs[e].phase = "idle" /\ jobs[e].todo = {}
    BY <1>2 DEF Init, Idle
<1> QED BY <1>1, <1>2, ArchiveEventTypes DEF NewestInv, ArchivalInv, TodoInv, At

(* Of what was merged, the newest run is the one an archival promotes, in  *)
(* whatever order archivals of several runs and heads fall.  This is of PRs*)
(* that never go back to an earlier head (PushHead): a force-push to one,  *)
(* after which the runs of two heads alternate, is not modelled.           *)
THEOREM NewestGetsPromoted == Spec => [](\A e \in ArchiveEvents : NewestIsPromotable(e))
<1>1. ASSUME IInv, NewestInv, NEW e \in ArchiveEvents PROVE NewestIsPromotable(e)
    <2> DEFINE n == e.bundle.pullRequest.number
               store == jobs[e].clone
               p == store.pending[n]
    <2> SUFFICES ASSUME At(e, "publishing"), IsNewest(e.bundle), pr[n].tree = e.bundle.tree,
                        store.published[n] \in {None, e.bundle},
                        Consistent(store.index \cup {e.bundle})
                 PROVE  Promotable(store, n, jobs[e].seen) /\ p = e.bundle
        BY DEF NewestIsPromotable
    <2>1. /\ e.bundle \in Bundles /\ e.bundle \in Of(n) /\ n \in Numbers /\ e.bundle # None
          /\ ArchivalInv(e) /\ JobInv(e) /\ store \in Stores
        BY <1>1, ArchiveEventTypes DEF IInv, NewestInv, TypeOK, JobStates
    <2>2. /\ p # None /\ NewerRun(e.bundle, p) /\ jobs[e].number = n
          /\ PublishableRun(e.bundle, ArchivePolicy(e.bundle))
          /\ e.bundle.tree = MergeTree(e.bundle.pullRequest.base, e.bundle.pullRequest.head)
        BY <2>1 DEF ArchivalInv, At
    <2>3. /\ p \in Bundles /\ p \in remote.runs /\ p.pullRequest.number = n /\ p \in Of(n)
        BY <2>1, <2>2 DEF JobInv, StoreInv, Stores, Of
    <2>4. OldHead(p)
        BY <1>1, <2>3 DEF NewestInv
    <2>5. /\ p.run.id \in Nat /\ p.run.attempt \in Nat
          /\ e.bundle.run.id \in Nat /\ e.bundle.run.attempt \in Nat
        BY <2>1, <2>3, PublishAssumption
    <2>6. \/ e.bundle.run.id < p.run.id
          \/ e.bundle.run.id = p.run.id /\ e.bundle.run.attempt <= p.run.attempt
        BY <2>1, <2>2 DEF NewerRun
    <2>7. p.pullRequest.head = pr[n].head
        <3> SUFFICES ASSUME p.pullRequest.head # pr[n].head PROVE FALSE
            OBVIOUS
        <3>1. p.run.id < e.bundle.run.id
            BY <2>1, <2>3, <2>4 DEF OldHead, IsNewest
        <3> HIDE DEF p, store
        <3> QED BY <2>5, <2>6, <3>1
    <2>8. \/ p.run.id < e.bundle.run.id
          \/ p.run.id = e.bundle.run.id /\ p.run.attempt <= e.bundle.run.attempt
        BY <2>2, <2>3, <2>7 DEF IsNewest, NewerRun
    <2>9. p = e.bundle
        <3>1. p.run.id = e.bundle.run.id /\ p.run.attempt = e.bundle.run.attempt
            <4> HIDE DEF p, store
            <4> QED BY <2>5, <2>6, <2>8
        <3> QED BY <2>3, <3>1 DEF IsNewest
    <2>10. /\ jobs[e].seen.state = "merged"
           /\ pr[n].head = jobs[e].seen.head /\ pr[n].tree = jobs[e].seen.tree
        BY <2>1, <2>2 DEF JobInv, SeenInv, At
    <2>11. CandidateOf(e.bundle, jobs[e].seen)
        BY <2>2, <2>10 DEF CandidateOf, IsNewest
    <2>12. PublicationMatches(e.bundle, [run |-> e.bundle.run, pullRequest |-> e.bundle.pullRequest,
                                         tree |-> jobs[e].seen.tree])
        BY <2>2, <2>10 DEF PublicationMatches, PublishableRun
    <2>13. e.bundle \in store.index => store.published[n] # None
        <3> SUFFICES ASSUME e.bundle \in store.index PROVE store.published[n] # None
            OBVIOUS
        <3>1. PICK m \in Numbers : e.bundle = store.published[m]
            BY <2>1 DEF JobInv, StoreInv
        <3>2. m = n
            BY <2>1, <3>1 DEF JobInv, StoreInv
        <3> QED BY <2>1, <3>1, <3>2
    <2> QED BY <2>2, <2>9, <2>11, <2>12, <2>13 DEF Promotable
<1>2. IInv /\ NewestInv => \A e \in ArchiveEvents : NewestIsPromotable(e)
    BY <1>1
<1> QED BY <1>2, NewestInit, NewestStep, Invariance, PTL DEF Spec

(* A job that was told which PRs to look at always has one left when it    *)
(* looks for the next: no job stops halfway.                               *)
THEOREM JobsNeverStuck == Spec => [](\A e \in Events : At(e, "reading") => jobs[e].todo # {})
<1>1. NewestInv => \A e \in Events : At(e, "reading") => jobs[e].todo # {}
    BY DEF NewestInv, TodoInv
<1> QED BY <1>1, NewestInit, NewestStep, Invariance, PTL DEF Spec

=============================================================================
