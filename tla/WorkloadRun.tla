----------------------------- MODULE WorkloadRun -----------------------------
(***************************************************************************)
(* One run of .github/workflows/benchmark.yml for a pull request, through  *)
(* its attempts: the jobs, the artifacts the measurement jobs replace, and *)
(* scripts/merge-results.ts, which collects them into the bundle the       *)
(* publisher archives.  An attempt repeats all jobs, those that failed, or *)
(* one, always with the jobs that depend on them; the others keep their    *)
(* results.  Revisions and definitions are those of the run's commit, the  *)
(* same in every attempt.                                                  *)
(***************************************************************************)
EXTENDS Naturals, FiniteSets

CONSTANTS Jobs,         \* measurement jobs, one per platform and runtime
          Strategies,   \* what each measures, one after the other
          MaxAttempts   \* bound on the attempts of the run

ASSUME WorkloadAssumption ==
    /\ Jobs # {}
    /\ IsFiniteSet(Strategies)
    /\ MaxAttempts \in Nat \ {0}
    /\ Jobs \cap {"eligibility", "configure", "producer", "smoke", "prepare",
                  "collect", "status"} = {}

First == {"eligibility", "configure", "producer"}
AllJobs == First \cup {"smoke", "prepare", "collect", "status"} \cup Jobs

(* The jobs that must have ended before a job, through needs.              *)
Before(s) ==
    CASE s = "eligibility" -> {}
      [] s = "configure" -> {"eligibility"}
      [] s = "producer" -> {"eligibility", "configure"}
      [] s \in {"smoke", "prepare"} -> First
      [] s \in Jobs -> First \cup {"prepare"}
      [] s = "collect" -> First \cup {"prepare"} \cup Jobs
      [] s = "status" -> AllJobs \ {"status"}

VARIABLES
    attempt,    \* GITHUB_RUN_ATTEMPT
    mode,       \* output of eligibility: "measure", "skip" or none
    result,     \* of each job in this attempt or the last that ran it
    artifact,   \* bundles in each measurement job's artifact
    runs,       \* run artifacts: the merged bundles by attempt
    executed    \* ghost: the attempt that last ran each measurement job

vars == <<attempt, mode, result, artifact, runs, executed>>

Statuses == {"success", "failed"}
Shards == [job: Jobs, strategy: Strategies, attempt: 1 .. MaxAttempts, status: Statuses]

TypeOK ==
    /\ attempt \in 1 .. MaxAttempts
    /\ mode \in {"none", "measure", "skip"}
    /\ result \in [AllJobs -> {"pending", "success", "failure", "skipped", "cancelled"}]
    /\ artifact \in [Jobs -> SUBSET Shards]
    /\ runs \subseteq [attempt: 1 .. MaxAttempts, shards: SUBSET Shards]
    /\ executed \in [Jobs -> 0 .. MaxAttempts]

Init ==
    /\ attempt = 1
    /\ mode = "none"
    /\ result = [s \in AllJobs |-> "pending"]
    /\ artifact = [j \in Jobs |-> {}]
    /\ runs = {}
    /\ executed = [j \in Jobs |-> 0]

Succeeded(jobs) == \A s \in jobs : result[s] = "success"

Due(s) == result[s] = "pending" /\ \A t \in Before(s) : result[t] # "pending"

(* The if of each job; without one, all jobs it needs must have succeeded. *)
Wanted(s) ==
    CASE s = "smoke" -> Succeeded(First) /\ mode = "skip"
      [] s = "prepare" -> Succeeded(First) /\ mode # "skip"
      [] s = "status" -> TRUE
      [] OTHER -> Succeeded(Before(s))

End(s, r) == result' = [result EXCEPT ![s] = r]

Skip(s) ==
    /\ Due(s) /\ ~Wanted(s)
    /\ End(s, "skipped")
    /\ UNCHANGED <<attempt, mode, artifact, runs, executed>>

\* pr-policy.ts reads the label, and fails when the PR has moved on.
Eligibility ==
    /\ Due("eligibility")
    /\ \/ /\ mode' \in {"measure", "skip"}
          /\ End("eligibility", "success")
       \/ /\ End("eligibility", "failure")
          /\ UNCHANGED mode
    /\ UNCHANGED <<attempt, artifact, runs, executed>>

\* Jobs whose work is not modelled.
Work(s) ==
    /\ s \in {"configure", "producer", "smoke", "prepare"}
    /\ Due(s) /\ Wanted(s)
    /\ \E r \in {"success", "failure"} : End(s, r)
    /\ UNCHANGED <<attempt, mode, artifact, runs, executed>>

Shard(j, s, status) == [job |-> j, strategy |-> s, attempt |-> attempt, status |-> status]

(* The strategies succeed up to one that fails, and what was measured is   *)
(* uploaded even then, in place of the artifact of an earlier attempt.  An *)
(* upload can fail before or after it has removed that artifact, and the   *)
(* job can fail after its upload.                                          *)
Measured(j) ==
    { {Shard(j, s, "success") : s \in d[1]} \cup {Shard(j, s, "failed") : s \in d[2]} :
        d \in { e \in (SUBSET Strategies) \X (SUBSET Strategies) :
                   e[1] \cap e[2] = {} /\ Cardinality(e[2]) <= 1 } }

Whole(j) == {Shard(j, s, "success") : s \in Strategies}

\* Mutant: an artifact that exists is kept.
MeasureKeeping(j) ==
    /\ Due(j) /\ Wanted(j)
    /\ executed' = [executed EXCEPT ![j] = attempt]
    /\ \E shards \in Measured(j) \cup {artifact[j], {}} :
        /\ artifact' = [artifact EXCEPT ![j] = IF artifact[j] = {} THEN shards ELSE @]
        /\ \/ shards = Whole(j) /\ End(j, "success")
           \/ End(j, "failure")
    /\ UNCHANGED <<attempt, mode, runs>>

Measure(j) ==
    /\ Due(j) /\ Wanted(j)
    /\ executed' = [executed EXCEPT ![j] = attempt]
    /\ \E shards \in Measured(j) \cup {artifact[j], {}} :
        /\ artifact' = [artifact EXCEPT ![j] = shards]
        /\ \/ shards = Whole(j) /\ End(j, "success")
           \/ End(j, "failure")
    /\ UNCHANGED <<attempt, mode, runs>>

(* runBundleSchema: no configuration occurs twice in a bundle.             *)
OnePerConfiguration(shards) ==
    \A a, b \in shards : a.job = b.job /\ a.strategy = b.strategy => a = b

(* mergeBundles: no shard is of a later attempt, and every expected        *)
(* configuration has a success.                                            *)
Mergeable(shards) ==
    /\ shards # {}
    /\ \A a \in shards : a.attempt <= attempt
    /\ OnePerConfiguration(shards)
    /\ \A j \in Jobs, s \in Strategies :
        \E a \in shards : a.job = j /\ a.strategy = s /\ a.status = "success"

Collect ==
    /\ Due("collect") /\ Wanted("collect")
    /\ LET shards == UNION {artifact[j] : j \in Jobs}
       IN  \/ /\ Mergeable(shards)
              /\ runs' = runs \cup {[attempt |-> attempt, shards |-> shards]}
              /\ \E r \in {"success", "failure"} : End("collect", r)
           \/ End("collect", "failure") /\ UNCHANGED runs
    /\ UNCHANGED <<attempt, mode, artifact, executed>>

Required ==
    IF mode = "skip" THEN First \cup {"smoke"}
    ELSE First \cup {"prepare", "collect"} \cup Jobs

\* check-ci-status.ts in either status job, which fails on its own too.
Status ==
    /\ Due("status")
    /\ \/ Succeeded(Required) /\ End("status", "success")
       \/ End("status", "failure")
    /\ UNCHANGED <<attempt, mode, artifact, runs, executed>>

\* A newer event of the PR, or a person, cancels what has not ended.
Cancel ==
    /\ \E s \in AllJobs \ {"status"} : result[s] = "pending"
    /\ result' = [s \in AllJobs |->
                    IF result[s] = "pending" /\ s # "status" THEN "cancelled" ELSE result[s]]
    /\ UNCHANGED <<attempt, mode, artifact, runs, executed>>

Failed == {s \in AllJobs : result[s] \in {"failure", "cancelled"}}

Rerun ==
    /\ \A s \in AllJobs : result[s] # "pending"
    /\ attempt < MaxAttempts
    /\ \E chosen \in {AllJobs, Failed} \cup {{s} : s \in AllJobs} :
        LET again == chosen \cup {t \in AllJobs : Before(t) \cap chosen # {}} IN
        /\ chosen # {}
        /\ result' = [s \in AllJobs |-> IF s \in again THEN "pending" ELSE result[s]]
        /\ mode' = IF "eligibility" \in again THEN "none" ELSE mode
    /\ attempt' = attempt + 1
    /\ UNCHANGED <<artifact, runs, executed>>

Next ==
    \/ Eligibility \/ Collect \/ Status \/ Cancel \/ Rerun
    \/ \E s \in AllJobs : Skip(s) \/ Work(s)
    \/ \E j \in Jobs : Measure(j)

Spec == Init /\ [][Next]_vars

-----------------------------------------------------------------------------
LastOutputs ==
    { [job |-> j, strategy |-> s, attempt |-> executed[j], status |-> "success"] :
        j \in Jobs, s \in Strategies }

(* A green attempt that measured stands on a merged bundle made of exactly *)
(* the last outputs of every measurement job, all of them successes, in    *)
(* whatever attempts they were measured; and no attempt has two bundles.   *)
GreenIsCollected ==
    /\ \A r, q \in runs : r.attempt = q.attempt => r = q
    /\ result["status"] = "success" /\ mode # "skip" => result["collect"] = "success"
    /\ result["collect"] = "success" =>
        \E r \in runs :
            /\ r.attempt <= attempt
            /\ r.shards = LastOutputs
            /\ \A j \in Jobs : executed[j] \in 1 .. r.attempt

(* docs/results.md:10: "A retry has its own bundle.": an attempt that      *)
(* measured and is reported green, which makes publish-ci.ts:151 download  *)
(* run-<id>-<attempt>, has left that artifact.                             *)
GreenAttemptHasBundle ==
    result["status"] = "success" /\ mode = "measure" => \E r \in runs : r.attempt = attempt

=============================================================================
