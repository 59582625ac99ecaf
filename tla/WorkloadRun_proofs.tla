------------------------- MODULE WorkloadRun_proofs -------------------------
(***************************************************************************)
(* That a green attempt stands on the collected outputs of every           *)
(* measurement job, for every set of jobs and strategies and any number of *)
(* attempts.  The invariant says what the last run of a job has left, and  *)
(* that collect and status never keep a success across a job before them.  *)
(***************************************************************************)
EXTENDS WorkloadRun, TLAPS

RunsInv ==
    /\ \A r, q \in runs : r.attempt = q.attempt => r = q
    /\ \A r \in runs :
        /\ r.attempt <= attempt
        /\ result["collect"] = "pending" => r.attempt < attempt

ShardsOf(j, n) ==
    {[job |-> j, strategy |-> s, attempt |-> n, status |-> "success"] : s \in Strategies}

ArtifactInv ==
    \A j \in Jobs : result[j] = "success" =>
        /\ executed[j] \in 1 .. attempt
        /\ artifact[j] = ShardsOf(j, executed[j])

CollectInv ==
    result["collect"] = "success" =>
        /\ \A j \in Jobs : result[j] = "success"
        /\ \E r \in runs :
            /\ r.attempt <= attempt
            /\ r.shards = LastOutputs
            /\ \A j \in Jobs : executed[j] \in 1 .. r.attempt

StatusInv ==
    /\ result["status"] # "pending" => \A s \in AllJobs : result[s] # "pending"
    /\ result["status"] = "success" /\ mode # "skip" => result["collect"] = "success"

Inv == TypeOK /\ RunsInv /\ ArtifactInv /\ CollectInv /\ StatusInv

-----------------------------------------------------------------------------
(* The named jobs and the measurement jobs are apart.                      *)
LEMMA JobsApart ==
    /\ {"eligibility", "configure", "producer", "smoke", "prepare", "collect",
        "status"} \subseteq AllJobs
    /\ Jobs \subseteq AllJobs
    /\ "collect" \notin Jobs /\ "status" \notin Jobs /\ "eligibility" \notin Jobs
BY WorkloadAssumption DEF AllJobs, First

(* What the invariant needs of the order of jobs.                          *)
LEMMA OrderOfJobs ==
    /\ Jobs \subseteq Before("collect")
    /\ Before("status") = AllJobs \ {"status"}
    /\ \A j \in Jobs : Before(j) = First \cup {"prepare"}
<1>1. Jobs \subseteq Before("collect")
    BY WorkloadAssumption DEF Before
<1>2. Before("status") = AllJobs \ {"status"}
    BY WorkloadAssumption DEF Before
<1>3. ASSUME NEW j \in Jobs PROVE Before(j) = First \cup {"prepare"}
    BY WorkloadAssumption DEF Before
<1> QED BY <1>1, <1>2, <1>3

(* A bundle of a job's current attempt is a bundle.                        *)
LEMMA MeasuredShards ==
    ASSUME TypeOK, NEW j \in Jobs
    PROVE  Measured(j) \subseteq SUBSET Shards /\ Whole(j) = ShardsOf(j, attempt)
BY DEF TypeOK, Measured, Whole, Shard, Shards, ShardsOf, Statuses

-----------------------------------------------------------------------------
LEMMA TypeStep == TypeOK /\ [Next]_vars => TypeOK'
<1> SUFFICES ASSUME TypeOK, [Next]_vars PROVE TypeOK'
    OBVIOUS
<1> USE JobsApart
<1>1. CASE Eligibility BY <1>1 DEF Eligibility, End, TypeOK
<1>2. CASE Collect
    <2> DEFINE shards == UNION {artifact[j] : j \in Jobs}
    <2>1. shards \in SUBSET Shards BY DEF TypeOK
    <2>2. [attempt |-> attempt, shards |-> shards] \in
            [attempt: 1 .. MaxAttempts, shards: SUBSET Shards]
        BY <2>1 DEF TypeOK
    <2>3. runs' \subseteq [attempt: 1 .. MaxAttempts, shards: SUBSET Shards]
        BY <1>2, <2>2 DEF Collect, TypeOK
    <2> QED BY <1>2, <2>3 DEF Collect, End, TypeOK
<1>3. CASE Status BY <1>3 DEF Status, End, TypeOK
<1>4. CASE Cancel BY <1>4 DEF Cancel, TypeOK
<1>5. CASE Rerun BY <1>5, WorkloadAssumption DEF Rerun, TypeOK
<1>6. ASSUME NEW s \in AllJobs, Skip(s) PROVE TypeOK'
    BY <1>6 DEF Skip, End, TypeOK
<1>7. ASSUME NEW s \in AllJobs, Work(s) PROVE TypeOK'
    BY <1>7 DEF Work, End, TypeOK
<1>8. ASSUME NEW j \in Jobs, Measure(j) PROVE TypeOK'
    <2>1. PICK shards \in Measured(j) \cup {artifact[j], {}} :
            artifact' = [artifact EXCEPT ![j] = shards]
        BY <1>8 DEF Measure
    <2>2. shards \subseteq Shards BY <2>1, MeasuredShards DEF TypeOK
    <2>3. artifact' \in [Jobs -> SUBSET Shards] BY <2>1, <2>2 DEF TypeOK
    <2>4. result' \in [AllJobs -> {"pending", "success", "failure", "skipped", "cancelled"}]
        BY <1>8 DEF Measure, End, TypeOK
    <2>5. executed' \in [Jobs -> 0 .. MaxAttempts]
        BY <1>8 DEF Measure, TypeOK
    <2> QED BY <1>8, <2>3, <2>4, <2>5 DEF Measure, TypeOK
<1>9. CASE UNCHANGED vars BY <1>9 DEF vars, TypeOK
<1> QED BY <1>1, <1>2, <1>3, <1>4, <1>5, <1>6, <1>7, <1>8, <1>9 DEF Next

(* A step that ends a job other than collect, status and the measurements. *)
LEMMA QuietEnd ==
    ASSUME Inv, NEW s \in AllJobs, s \notin Jobs, result[s] = "pending",
           NEW r \in {"success", "failure", "skipped"}, End(s, r),
           s = "collect" => r # "success",
           s = "status" => /\ r = "success" /\ mode # "skip" => result["collect"] = "success"
                           /\ \A t \in AllJobs \ {"status"} : result[t] # "pending",
           UNCHANGED <<attempt, mode, artifact, runs, executed>>
    PROVE  RunsInv' /\ ArtifactInv' /\ CollectInv' /\ StatusInv'
<1> USE JobsApart
<1>1. RunsInv' BY DEF Inv, RunsInv, End, TypeOK
<1>2. ArtifactInv' BY DEF Inv, ArtifactInv, End, TypeOK
<1>3. CollectInv' BY DEF Inv, CollectInv, LastOutputs, End, TypeOK
<1>4. StatusInv' BY DEF Inv, StatusInv, End, TypeOK
<1> QED BY <1>1, <1>2, <1>3, <1>4

(* The same of the end of a measurement job.                               *)
LEMMA MeasureStep ==
    ASSUME Inv, NEW j \in Jobs, Measure(j)
    PROVE  RunsInv' /\ ArtifactInv' /\ CollectInv' /\ StatusInv'
<1> USE JobsApart
<1>1. /\ result[j] = "pending" /\ result["status"] = "pending"
      /\ result["collect"] # "success"
    BY DEF Measure, Due, Inv, CollectInv, StatusInv
<1>2. PICK r \in {"success", "failure"} :
        /\ result' = [result EXCEPT ![j] = r]
        /\ r = "success" => artifact'[j] = Whole(j)
    BY DEF Measure, End, Inv, TypeOK
<1>3. RunsInv' BY <1>2 DEF Measure, Inv, RunsInv, TypeOK
<1>4. ArtifactInv'
    <2> SUFFICES ASSUME NEW i \in Jobs, result'[i] = "success"
                 PROVE  /\ executed'[i] \in 1 .. attempt'
                        /\ artifact'[i] = ShardsOf(i, executed'[i])
        BY DEF ArtifactInv, ShardsOf
    <2>1. CASE i = j
        <3>1. executed'[j] = attempt /\ attempt' = attempt
            BY DEF Measure, Inv, TypeOK
        <3>2. artifact'[j] = ShardsOf(j, attempt)
            BY <1>2, <2>1, MeasuredShards DEF Inv, TypeOK
        <3> QED BY <2>1, <3>1, <3>2 DEF Inv, TypeOK
    <2>2. CASE i # j
        BY <1>2, <2>2 DEF Measure, Inv, TypeOK, ArtifactInv
    <2> QED BY <2>1, <2>2
<1>5. CollectInv' BY <1>1, <1>2 DEF CollectInv, Inv, TypeOK
<1>6. StatusInv' BY <1>1, <1>2 DEF StatusInv, Inv, TypeOK
<1> QED BY <1>3, <1>4, <1>5, <1>6

(* The same of collect.                                                    *)
LEMMA CollectStep ==
    ASSUME Inv, Collect
    PROVE  RunsInv' /\ ArtifactInv' /\ CollectInv' /\ StatusInv'
<1> USE JobsApart
<1> DEFINE shards == UNION {artifact[j] : j \in Jobs}
           new == [attempt |-> attempt, shards |-> shards]
<1>1. /\ result["collect"] = "pending" /\ result["status"] = "pending"
      /\ \A j \in Jobs : result[j] = "success"
    <2>1. Due("collect") /\ Wanted("collect") BY DEF Collect
    <2>2. Succeeded(Before("collect")) BY <2>1 DEF Wanted
    <2> QED BY <2>1, <2>2, OrderOfJobs DEF Due, Succeeded, Inv, StatusInv
<1>2. PICK r \in {"success", "failure"} :
        /\ result' = [result EXCEPT !["collect"] = r]
        /\ r = "success" => runs' = runs \cup {new}
        /\ runs' = runs \/ runs' = runs \cup {new}
    BY DEF Collect, End
<1>3. RunsInv'
    <2>1. \A q \in runs : q.attempt < attempt BY <1>1 DEF Inv, RunsInv
    <2>2. \A q \in runs' : q \in runs \/ q = new BY <1>2
    <2>3. /\ attempt' = attempt /\ attempt \in Nat /\ \A q \in runs : q.attempt \in Nat
          /\ result'["collect"] # "pending" /\ new.attempt = attempt
        BY <1>2 DEF Collect, Inv, TypeOK
    <2> HIDE DEF new
    <2>4. \A p, q \in runs' : p.attempt = q.attempt => p = q
        BY <2>1, <2>2, <2>3 DEF Inv, RunsInv
    <2> QED BY <2>1, <2>2, <2>3, <2>4 DEF RunsInv
<1>4. ArtifactInv' BY <1>2 DEF Collect, Inv, ArtifactInv, TypeOK
<1>5. CollectInv'
    <2> SUFFICES ASSUME r = "success" PROVE CollectInv'
        BY <1>2 DEF CollectInv, Inv, TypeOK
    <2>1. \A j \in Jobs : artifact[j] = ShardsOf(j, executed[j]) /\ executed[j] \in 1 .. attempt
        BY <1>1 DEF Inv, ArtifactInv
    <2>2. shards = LastOutputs BY <2>1 DEF LastOutputs, ShardsOf
    <2>3. LastOutputs' = LastOutputs BY DEF Collect, LastOutputs
    <2>4. new \in runs' BY <1>2
    <2>5. \A j \in Jobs : result'[j] = "success" BY <1>1, <1>2 DEF Inv, TypeOK
    <2>6. attempt' = attempt /\ executed' = executed /\ attempt \in Nat
        BY DEF Collect, Inv, TypeOK
    <2>7. /\ new.attempt <= attempt' /\ new.shards = LastOutputs'
          /\ \A j \in Jobs : executed'[j] \in 1 .. new.attempt
        BY <2>1, <2>2, <2>3, <2>6
    <2> QED BY <2>4, <2>5, <2>7 DEF CollectInv
<1>6. StatusInv' BY <1>1, <1>2 DEF StatusInv, Inv, TypeOK
<1> QED BY <1>3, <1>4, <1>5, <1>6

(* The same of a new attempt.                                              *)
LEMMA RerunStep ==
    ASSUME Inv, Rerun
    PROVE  RunsInv' /\ ArtifactInv' /\ CollectInv' /\ StatusInv'
<1> USE JobsApart
<1>1. PICK chosen \in {AllJobs, Failed} \cup {{s} : s \in AllJobs} :
        LET again == chosen \cup {t \in AllJobs : Before(t) \cap chosen # {}} IN
        /\ chosen # {}
        /\ result' = [s \in AllJobs |-> IF s \in again THEN "pending" ELSE result[s]]
        /\ mode' = IF "eligibility" \in again THEN "none" ELSE mode
    BY DEF Rerun
<1> DEFINE again == chosen \cup {t \in AllJobs : Before(t) \cap chosen # {}}
<1>2. chosen \subseteq AllJobs /\ chosen # {} BY <1>1 DEF Failed
<1>3. "status" \in again BY <1>2, OrderOfJobs
<1>4. (\E j \in Jobs : j \in again) => "collect" \in again
    <2> SUFFICES ASSUME NEW j \in Jobs, j \in again, "collect" \notin chosen PROVE "collect" \in again
        OBVIOUS
    <2>1. CASE j \in chosen BY <2>1, OrderOfJobs
    <2>2. CASE Before(j) \cap chosen # {}
        BY <2>2, OrderOfJobs, WorkloadAssumption DEF Before
    <2> QED BY <2>1, <2>2
<1>5. result' = [s \in AllJobs |-> IF s \in again THEN "pending" ELSE result[s]]
    BY <1>1
<1>6. attempt' = attempt + 1 /\ attempt \in Nat
      /\ UNCHANGED <<artifact, runs, executed>>
    BY DEF Rerun, Inv, TypeOK
<1> HIDE DEF again
<1>7. RunsInv'
    <2>1. \A r \in runs : r.attempt \in Nat BY DEF Inv, TypeOK
    <2> QED BY <1>6, <2>1 DEF Inv, RunsInv
<1>8. ArtifactInv'
    <2> SUFFICES ASSUME NEW i \in Jobs, result'[i] = "success"
                 PROVE  /\ executed'[i] \in 1 .. attempt'
                        /\ artifact'[i] = ShardsOf(i, executed'[i])
        BY DEF ArtifactInv, ShardsOf
    <2>1. result[i] = "success" BY <1>5
    <2> QED BY <1>6, <2>1 DEF Inv, ArtifactInv
<1>9. CollectInv'
    <2> SUFFICES ASSUME result'["collect"] = "success" PROVE CollectInv'
        BY DEF CollectInv
    <2>1. "collect" \notin again /\ result["collect"] = "success" BY <1>5
    <2>2. \A j \in Jobs : result'[j] = "success"
        BY <1>4, <1>5, <2>1 DEF Inv, CollectInv
    <2>3. PICK r \in runs :
            /\ r.attempt <= attempt /\ r.shards = LastOutputs
            /\ \A j \in Jobs : executed[j] \in 1 .. r.attempt
        BY <2>1 DEF Inv, CollectInv
    <2>4. r.attempt \in Nat /\ LastOutputs' = LastOutputs
        BY <1>6 DEF Inv, TypeOK, LastOutputs
    <2>5. /\ r \in runs' /\ r.attempt <= attempt' /\ r.shards = LastOutputs'
          /\ \A j \in Jobs : executed'[j] \in 1 .. r.attempt
        BY <1>6, <2>3, <2>4
    <2> QED BY <2>2, <2>5 DEF CollectInv
<1>10. StatusInv' BY <1>3, <1>5 DEF StatusInv
<1> QED BY <1>7, <1>8, <1>9, <1>10

-----------------------------------------------------------------------------
LEMMA InvInit == Init => Inv
BY JobsApart, WorkloadAssumption
   DEF Init, Inv, TypeOK, RunsInv, ArtifactInv, CollectInv, StatusInv

LEMMA InvStep == Inv /\ [Next]_vars => Inv'
<1> DEFINE Rest == RunsInv' /\ ArtifactInv' /\ CollectInv' /\ StatusInv'
<1> SUFFICES ASSUME Inv, [Next]_vars PROVE Rest
    BY TypeStep DEF Inv
<1> USE JobsApart
<1>1. CASE Eligibility
    <2>1. result["eligibility"] = "pending" /\ result["status"] = "pending"
        BY <1>1 DEF Eligibility, Due, Inv, StatusInv
    <2>2. PICK r \in {"success", "failure"} : End("eligibility", r)
        BY <1>1 DEF Eligibility
    <2>3. RunsInv' BY <1>1, <2>2 DEF Eligibility, Inv, RunsInv, End, TypeOK
    <2>4. ArtifactInv' BY <1>1, <2>2 DEF Eligibility, Inv, ArtifactInv, End, TypeOK
    <2>5. CollectInv'
        BY <1>1, <2>2 DEF Eligibility, Inv, CollectInv, LastOutputs, End, TypeOK
    <2>6. StatusInv' BY <2>1, <2>2 DEF Inv, StatusInv, End, TypeOK
    <2> QED BY <2>3, <2>4, <2>5, <2>6
<1>2. CASE Collect BY <1>2, CollectStep
<1>3. CASE Status
    <2>1. /\ result["status"] = "pending"
          /\ \A t \in AllJobs \ {"status"} : result[t] # "pending"
        BY <1>3, OrderOfJobs DEF Status, Due
    <2>2. PICK r \in {"success", "failure"} :
            /\ End("status", r)
            /\ r = "success" => Succeeded(Required)
        BY <1>3 DEF Status
    <2>3. r = "success" /\ mode # "skip" => result["collect"] = "success"
        BY <2>2 DEF Succeeded, Required
    <2>4. UNCHANGED <<attempt, mode, artifact, runs, executed>> BY <1>3 DEF Status
    <2> QED BY <2>1, <2>2, <2>3, <2>4, QuietEnd
<1>4. CASE Cancel
    <2>1. /\ result' = [s \in AllJobs |->
                IF result[s] = "pending" /\ s # "status" THEN "cancelled" ELSE result[s]]
          /\ UNCHANGED <<attempt, mode, artifact, runs, executed>>
          /\ result["status"] = "pending"
        BY <1>4 DEF Cancel, Inv, StatusInv
    <2>2. RunsInv' BY <2>1 DEF Inv, RunsInv
    <2>3. ArtifactInv' BY <2>1 DEF Inv, ArtifactInv
    <2>4. CollectInv' BY <2>1 DEF Inv, CollectInv, LastOutputs
    <2>5. StatusInv' BY <2>1 DEF StatusInv
    <2> QED BY <2>2, <2>3, <2>4, <2>5
<1>5. CASE Rerun BY <1>5, RerunStep
<1>6. ASSUME NEW s \in AllJobs, Skip(s) PROVE Rest
    <2>1. result[s] = "pending" /\ End(s, "skipped") BY <1>6 DEF Skip, Due
    <2>2. s # "status" BY <1>6 DEF Skip, Wanted
    <2>3. UNCHANGED <<attempt, mode, artifact, runs, executed>> BY <1>6 DEF Skip
    <2>4. CASE s \notin Jobs BY <2>1, <2>2, <2>3, <2>4, QuietEnd
    <2>5. CASE s \in Jobs
        <3>1. result["collect"] # "success" /\ result["status"] = "pending"
            BY <2>1, <2>5 DEF Inv, CollectInv, StatusInv
        <3>2. RunsInv' BY <2>1, <2>3, <2>5 DEF Inv, RunsInv, End, TypeOK
        <3>3. ArtifactInv' BY <2>1, <2>3 DEF Inv, ArtifactInv, End, TypeOK
        <3>4. CollectInv' BY <2>1, <2>5, <3>1 DEF Inv, CollectInv, End, TypeOK
        <3>5. StatusInv' BY <2>1, <2>5, <3>1 DEF Inv, StatusInv, End, TypeOK
        <3> QED BY <3>2, <3>3, <3>4, <3>5
    <2> QED BY <2>4, <2>5
<1>7. ASSUME NEW s \in AllJobs, Work(s) PROVE Rest
    <2>1. PICK r \in {"success", "failure"} : End(s, r) BY <1>7 DEF Work
    <2>2. /\ result[s] = "pending" /\ s \notin Jobs /\ s # "status" /\ s # "collect"
          /\ UNCHANGED <<attempt, mode, artifact, runs, executed>>
        BY <1>7, WorkloadAssumption DEF Work, Due
    <2> QED BY <2>1, <2>2, QuietEnd
<1>8. ASSUME NEW j \in Jobs, Measure(j) PROVE Rest
    BY <1>8, MeasureStep
<1>9. CASE UNCHANGED vars
    BY <1>9 DEF vars, Inv, RunsInv, ArtifactInv, CollectInv, StatusInv, LastOutputs
<1> QED BY <1>1, <1>2, <1>3, <1>4, <1>5, <1>6, <1>7, <1>8, <1>9 DEF Next

LEMMA InvAlways == Spec => []Inv
BY InvInit, InvStep, PTL DEF Spec

(* Every variable keeps its type, in every attempt.                        *)
THEOREM TypeCorrect == Spec => []TypeOK
<1>1. Inv => TypeOK BY DEF Inv
<1> QED BY <1>1, InvAlways, PTL

(* A green attempt that measured has a merged bundle of exactly the last   *)
(* outputs of every job (benchmark.yml, merge-results.ts), whichever jobs  *)
(* were repeated in whichever attempts.                                    *)
THEOREM GreenCollected == Spec => []GreenIsCollected
<1>1. Inv => GreenIsCollected
    BY DEF Inv, RunsInv, CollectInv, StatusInv, GreenIsCollected
<1> QED BY <1>1, InvAlways, PTL

=============================================================================
