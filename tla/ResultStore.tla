----------------------------- MODULE ResultStore -----------------------------
(***************************************************************************)
(* scripts/result-store.ts and the two commands of scripts/publish-results *)
(* .ts over one local data directory.  Each writer is one command process  *)
(* (store or promote).  The directory holds                                *)
(*   .publication-lock              lock                                   *)
(*   runs/<id>/<attempt>.json       runs                                   *)
(*   publications/pr-<number>.json  publications                           *)
(*   index.json                     index                                  *)
(* and the temporary files of writeJson.  A step is one file operation, or *)
(* one group of reads made under the lock.  Commands may throw in a write  *)
(* (an I/O error, after which the finally blocks still run) or be killed   *)
(* (after which nothing of them runs); MaxErrors and MaxKills bound both.   *)
(***************************************************************************)
EXTENDS RunRecords, Naturals, FiniteSets

CONSTANTS Writers,       \* command processes
          Bundles,       \* bundles the commands may be given
          Publications,  \* publication records the commands may be given
          Policies,      \* publication policies (catalog, benchmark, SKU)
          MaxErrors,     \* bound on I/O errors
          MaxKills,      \* bound on killed processes
          None,          \* an absent file
          Torn           \* a file with part of its content

RunKeys == {bundle.run : bundle \in Bundles} \cup {p.run : p \in Publications}
Numbers == {p.pullRequest.number : p \in Publications}

StoreRequests == [kind : {"store"}, bundle : Bundles, policy : Policies]
PromoteRequests == [kind : {"promote"}, publication : Publications, policy : Policies]
Requests == StoreRequests \cup PromoteRequests

ASSUME ValueAssumption ==
    /\ None \notin Bundles \cup Publications \cup Requests
    /\ Torn \notin Bundles \cup Publications
    /\ None # Torn
    /\ MaxErrors \in Nat
    /\ MaxKills \in Nat

VARIABLES
    lock,          \* the lock directory exists
    runs,          \* run identity -> archived bundle
    publications,  \* PR number -> publication record
    index,         \* run identity -> number of entries in index.json
    indexTorn,     \* index.json has part of its content
    litter,        \* temporary files whose process was killed
    pc,            \* what each writer does next
    request,       \* the command line of each writer
    previous,      \* promote: the PR's publication as read under the lock
    planned,       \* promote: the index it will write
    target,        \* the file writeJson is writing
    temp,          \* state of the writer's temporary file
    failed,        \* the operation has thrown
    result,        \* how the writer's last command ended
    errors,        \* I/O errors so far
    kills          \* processes killed so far

storeVars == <<lock, runs, publications, index, indexTorn, litter>>
writerVars == <<pc, request, previous, planned, target, temp, failed, result>>
faultVars == <<errors, kills>>
vars == <<storeVars, writerVars, faultVars>>

\* index.json holds a sorted array; as a count of each entry it keeps the
\* duplicates the reader's schema rejects.
EmptyIndex == [run \in RunKeys |-> 0]
Indexed == {run \in RunKeys : index[run] > 0}
History == {runs[run] : run \in Indexed}

Locked == {"checking", "planning", "preparing", "installing", "cleaning", "unlocking"}
Targets == {"run", "publication", "index"}

TypeOK ==
    /\ lock \in BOOLEAN
    /\ runs \in [RunKeys -> Bundles \cup {None, Torn}]
    /\ publications \in [Numbers -> Publications \cup {None, Torn}]
    /\ index \in [RunKeys -> Nat]
    /\ indexTorn \in BOOLEAN
    /\ litter \subseteq Targets
    /\ pc \in [Writers -> Locked \cup {"idle", "locking"}]
    /\ request \in [Writers -> Requests \cup {None}]
    /\ \A w \in Writers : pc[w] # "idle" \/ result[w] = "ok" => request[w] # None
    /\ previous \in [Writers -> Publications \cup {None, Torn}]
    /\ planned \in [Writers -> [RunKeys -> Nat]]
    /\ target \in [Writers -> Targets]
    /\ temp \in [Writers -> {"absent", "partial", "complete"}]
    /\ failed \in [Writers -> BOOLEAN]
    /\ result \in [Writers -> {"none", "ok", "error"}]
    /\ errors \in 0 .. MaxErrors
    /\ kills \in 0 .. MaxKills

Init ==
    /\ lock = FALSE
    /\ runs = [run \in RunKeys |-> None]
    /\ publications = [number \in Numbers |-> None]
    /\ index = EmptyIndex
    /\ indexTorn = FALSE
    /\ litter = {}
    /\ pc = [w \in Writers |-> "idle"]
    /\ request = [w \in Writers |-> None]
    /\ previous = [w \in Writers |-> None]
    /\ planned = [w \in Writers |-> EmptyIndex]
    /\ target = [w \in Writers |-> "run"]
    /\ temp = [w \in Writers |-> "absent"]
    /\ failed = [w \in Writers |-> FALSE]
    /\ result = [w \in Writers |-> "none"]
    /\ errors = 0
    /\ kills = 0

-----------------------------------------------------------------------------

Goto(w, label) == pc' = [pc EXCEPT ![w] = label]

Publication(w) == request[w].publication
Number(w) == request[w].publication.pullRequest.number
RunOf(w) == IF request[w].kind = "store" THEN request[w].bundle.run
                                         ELSE request[w].publication.run

(* The process ends.  What it was asked stays known if it succeeded.       *)
Finish(w, outcome) ==
    /\ Goto(w, "idle")
    /\ result' = [result EXCEPT ![w] = outcome]
    /\ request' = [request EXCEPT ![w] = IF outcome = "ok" THEN @ ELSE None]
    /\ previous' = [previous EXCEPT ![w] = None]
    /\ planned' = [planned EXCEPT ![w] = EmptyIndex]
    /\ target' = [target EXCEPT ![w] = "run"]
    /\ temp' = [temp EXCEPT ![w] = "absent"]
    /\ failed' = [failed EXCEPT ![w] = FALSE]

(* A command starts.  store validates its bundle before it asks for the    *)
(* lock; promote only parses its record.                                   *)
Begin(w, r) ==
    /\ pc[w] = "idle"
    /\ r.kind = "store" => PublishableRun(r.bundle, r.policy)
    /\ Goto(w, "locking")
    /\ request' = [request EXCEPT ![w] = r]
    /\ result' = [result EXCEPT ![w] = "none"]
    /\ target' = [target EXCEPT ![w] = IF r.kind = "store" THEN "run" ELSE "publication"]
    /\ UNCHANGED <<storeVars, previous, planned, temp, failed, faultVars>>

RejectBundle(w, r) ==
    /\ pc[w] = "idle"
    /\ r.kind = "store"
    /\ ~PublishableRun(r.bundle, r.policy)
    /\ Finish(w, "error")
    /\ UNCHANGED <<storeVars, faultVars>>

\* Mutant: mkdir accepts a lock directory that is already there.
AcquireAnyway(w) ==
    /\ pc[w] = "locking"
    /\ lock' = TRUE
    /\ Goto(w, IF request[w].kind = "store" THEN "preparing" ELSE "checking")
    /\ UNCHANGED <<runs, publications, index, indexTorn, litter, request,
                   previous, planned, target, temp, failed, result, faultVars>>

(* withStoreLock: mkdir takes the lock or fails at once.                   *)
Acquire(w) ==
    /\ pc[w] = "locking"
    /\ ~lock
    /\ lock' = TRUE
    /\ Goto(w, IF request[w].kind = "store" THEN "preparing" ELSE "checking")
    /\ UNCHANGED <<runs, publications, index, indexTorn, litter, request,
                   previous, planned, target, temp, failed, result, faultVars>>

FindLocked(w) ==
    /\ pc[w] = "locking"
    /\ lock
    /\ Finish(w, "error")
    /\ UNCHANGED <<storeVars, faultVars>>

(* promoteRun up to the comparison with the PR's previous publication.     *)
RequestValid(w) ==
    LET bundle == runs[RunOf(w)] IN
    /\ bundle \in Bundles
    /\ PublishableRun(bundle, request[w].policy)
    /\ PublicationMatches(bundle, Publication(w))
    /\ publications[Number(w)] \in {None, Publication(w)}

CheckRequest(w) ==
    /\ pc[w] = "checking"
    /\ previous' = [previous EXCEPT ![w] = publications[Number(w)]]
    /\ failed' = [failed EXCEPT ![w] = ~RequestValid(w)]
    /\ Goto(w, IF RequestValid(w) THEN "planning" ELSE "unlocking")
    /\ UNCHANGED <<storeVars, request, planned, target, temp, result, faultVars>>

\* Mutant: the new history is not grouped before it is written.
PlanUngrouped(w) == RunOf(w) \in Indexed => previous[w] # None

(* promoteRun from reading the index to sorting its new entries: the index *)
(* has no duplicate, each entry's bundle loads, and the history with the   *)
(* promoted run still groups.                                              *)
PlanValid(w) ==
    /\ ~indexTorn
    /\ \A run \in Indexed : /\ index[run] = 1
                            /\ runs[run] \in Bundles
                            /\ HistoryRun(runs[run], run)
    /\ RunOf(w) \in Indexed => previous[w] # None
    /\ Consistent(History \cup {runs[RunOf(w)]})

\* Mutant: the index is written as it was read.
PlannedAsRead(w) == index

PlannedIndex(w) ==
    IF RunOf(w) \in Indexed THEN index ELSE [index EXCEPT ![RunOf(w)] = @ + 1]

PlanIndex(w) ==
    /\ pc[w] = "planning"
    /\ planned' = [planned EXCEPT ![w] = PlannedIndex(w)]
    /\ failed' = [failed EXCEPT ![w] = ~PlanValid(w)]
    /\ Goto(w, IF PlanValid(w) THEN "preparing" ELSE "unlocking")
    /\ UNCHANGED <<storeVars, request, previous, target, temp, result, faultVars>>

-----------------------------------------------------------------------------
(* writeJson: write a temporary file of its own, make it the destination,  *)
(* remove it.                                                              *)

CreateTemp(w) ==
    /\ pc[w] = "preparing"
    /\ temp[w] = "absent"
    /\ temp' = [temp EXCEPT ![w] = "partial"]
    /\ UNCHANGED <<storeVars, pc, request, previous, planned, target, failed, result, faultVars>>

FillTemp(w) ==
    /\ pc[w] = "preparing"
    /\ temp[w] = "partial"
    /\ temp' = [temp EXCEPT ![w] = "complete"]
    /\ Goto(w, "installing")
    /\ UNCHANGED <<storeVars, request, previous, planned, target, failed, result, faultVars>>

\* What a reader of the destination finds once the temporary file is it.
Content(w, value) == IF temp[w] = "complete" THEN value ELSE Torn

\* Mutants: the link's conflict is ignored, or a rename replaces the record.
LinkRunQuietly(w) ==
    /\ pc[w] = "installing"
    /\ target[w] = "run"
    /\ runs' = IF runs[RunOf(w)] = None
               THEN [runs EXCEPT ![RunOf(w)] = Content(w, request[w].bundle)] ELSE runs
    /\ Goto(w, "cleaning")
    /\ UNCHANGED <<lock, publications, index, indexTorn, litter, request, previous,
                   planned, target, temp, failed, result, faultVars>>

RenameRun(w) ==
    /\ pc[w] = "installing"
    /\ target[w] = "run"
    /\ runs' = [runs EXCEPT ![RunOf(w)] = Content(w, request[w].bundle)]
    /\ Goto(w, "cleaning")
    /\ UNCHANGED <<lock, publications, index, indexTorn, litter, request, previous,
                   planned, target, temp, failed, result, faultVars>>

(* linkSync: an existing record stays; the write throws if it differs.     *)
LinkRun(w) ==
    /\ pc[w] = "installing"
    /\ target[w] = "run"
    /\ IF runs[RunOf(w)] = None
       THEN /\ runs' = [runs EXCEPT ![RunOf(w)] = Content(w, request[w].bundle)]
            /\ UNCHANGED failed
       ELSE /\ failed' = [failed EXCEPT ![w] = runs[RunOf(w)] # request[w].bundle]
            /\ UNCHANGED runs
    /\ Goto(w, "cleaning")
    /\ UNCHANGED <<lock, publications, index, indexTorn, litter, request,
                   previous, planned, target, temp, result, faultVars>>

LinkPublication(w) ==
    /\ pc[w] = "installing"
    /\ target[w] = "publication"
    /\ IF publications[Number(w)] = None
       THEN /\ publications' = [publications EXCEPT ![Number(w)] = Content(w, Publication(w))]
            /\ UNCHANGED failed
       ELSE /\ failed' = [failed EXCEPT ![w] = publications[Number(w)] # Publication(w)]
            /\ UNCHANGED publications
    /\ Goto(w, "cleaning")
    /\ UNCHANGED <<lock, runs, index, indexTorn, litter, request,
                   previous, planned, target, temp, result, faultVars>>

(* renameSync replaces index.json and consumes the temporary file.         *)
RenameIndex(w) ==
    /\ pc[w] = "installing"
    /\ target[w] = "index"
    /\ index' = planned[w]
    /\ indexTorn' = (temp[w] # "complete")
    /\ temp' = [temp EXCEPT ![w] = "absent"]
    /\ Goto(w, "cleaning")
    /\ UNCHANGED <<lock, runs, publications, litter, request, previous,
                   planned, target, failed, result, faultVars>>

\* Mutants: the index is written although the publication record was not, or
\* a write error ends the process, where it should be thrown.
RemoveTempAndGoOn(w) ==
    /\ pc[w] = "cleaning"
    /\ temp' = [temp EXCEPT ![w] = "absent"]
    /\ IF target[w] = "publication"
       THEN Goto(w, "preparing") /\ target' = [target EXCEPT ![w] = "index"]
       ELSE Goto(w, "unlocking") /\ UNCHANGED target
    /\ UNCHANGED <<storeVars, request, previous, planned, failed, result, faultVars>>

RemoveTempAndExit(w) ==
    /\ pc[w] = "cleaning"
    /\ IF failed[w]
       THEN Finish(w, "error")
       ELSE /\ temp' = [temp EXCEPT ![w] = "absent"]
            /\ IF target[w] = "publication"
               THEN Goto(w, "preparing") /\ target' = [target EXCEPT ![w] = "index"]
               ELSE Goto(w, "unlocking") /\ UNCHANGED target
            /\ UNCHANGED <<request, previous, planned, failed, result>>
    /\ UNCHANGED <<storeVars, faultVars>>

(* writeJson's finally block; after the publication record comes the index.*)
RemoveTemp(w) ==
    /\ pc[w] = "cleaning"
    /\ temp' = [temp EXCEPT ![w] = "absent"]
    /\ IF target[w] = "publication" /\ ~failed[w]
       THEN Goto(w, "preparing") /\ target' = [target EXCEPT ![w] = "index"]
       ELSE Goto(w, "unlocking") /\ UNCHANGED target
    /\ UNCHANGED <<storeVars, request, previous, planned, failed, result, faultVars>>

\* Mutant: the lock is removed after the operation, not in a finally block.
ReleaseOnSuccess(w) ==
    /\ pc[w] = "unlocking"
    /\ lock' = failed[w]
    /\ Finish(w, IF failed[w] THEN "error" ELSE "ok")
    /\ UNCHANGED <<runs, publications, index, indexTorn, litter, faultVars>>

(* withStoreLock's finally block.                                          *)
Release(w) ==
    /\ pc[w] = "unlocking"
    /\ lock' = FALSE
    /\ Finish(w, IF failed[w] THEN "error" ELSE "ok")
    /\ UNCHANGED <<runs, publications, index, indexTorn, litter, faultVars>>

-----------------------------------------------------------------------------

\* Mutant: writeJson goes on with the temporary file it could not write.
WriteErrorIgnored(w) ==
    /\ errors < MaxErrors
    /\ pc[w] = "preparing"
    /\ Goto(w, "installing")
    /\ errors' = errors + 1
    /\ UNCHANGED <<storeVars, request, previous, planned, target, temp, failed, result, kills>>

(* A file operation of writeJson throws: its finally blocks run.           *)
WriteError(w) ==
    /\ errors < MaxErrors
    /\ pc[w] \in {"preparing", "installing"}
    /\ failed' = [failed EXCEPT ![w] = TRUE]
    /\ Goto(w, "cleaning")
    /\ errors' = errors + 1
    /\ UNCHANGED <<storeVars, request, previous, planned, target, temp, result, kills>>

(* The process is killed: its lock directory and temporary file remain.    *)
Kill(w) ==
    /\ kills < MaxKills
    /\ pc[w] # "idle"
    /\ litter' = IF temp[w] = "absent" THEN litter ELSE litter \cup {target[w]}
    /\ Finish(w, "error")
    /\ kills' = kills + 1
    /\ UNCHANGED <<lock, runs, publications, index, indexTorn, errors>>

(* Write Recovery in docs/results.md: someone who confirmed that the       *)
(* writer has stopped removes what it left behind.                         *)
StaleLock == lock /\ \A w \in Writers : pc[w] \notin Locked

Recover ==
    /\ StaleLock
    /\ lock' = FALSE
    /\ litter' = {}
    /\ UNCHANGED <<runs, publications, index, indexTorn, writerVars, faultVars>>

Step(w) ==
    \/ Acquire(w) \/ FindLocked(w)
    \/ CheckRequest(w) \/ PlanIndex(w)
    \/ CreateTemp(w) \/ FillTemp(w)
    \/ LinkRun(w) \/ LinkPublication(w) \/ RenameIndex(w)
    \/ RemoveTemp(w) \/ Release(w)

Next ==
    \/ \E w \in Writers : \/ \E r \in Requests : Begin(w, r) \/ RejectBundle(w, r)
                          \/ Step(w)
                          \/ WriteError(w)
                          \/ Kill(w)
    \/ Recover

Spec == Init /\ [][Next]_vars

(* A command that runs keeps running unless it is killed; nobody has to    *)
(* start commands or to recover the directory.                             *)
FairSpec == Spec /\ \A w \in Writers : WF_vars(Step(w))

-----------------------------------------------------------------------------
(* Properties.                                                             *)

(* withStoreLock: no two commands are inside the lock at once, and whoever *)
(* is inside still has the lock directory, although a killed command's     *)
(* lock is removed by hand and commands start at any time.                 *)
LockExcludes ==
    \A w \in Writers : pc[w] \in Locked =>
        lock /\ \A other \in Writers \ {w} : pc[other] \notin Locked

(* A lock nobody will release is always the lock of a killed process:      *)
(* every error path of the commands reaches the finally block.             *)
LockLeftOnlyByKill == kills = 0 => ~StaleLock

(* Whatever was interrupted, index.json is a history the dashboard accepts:*)
(* whole, without duplicates, every entry's bundle in place, and all of    *)
(* them grouping.                                                          *)
IndexServable ==
    /\ ~indexTorn
    /\ \A run \in Indexed : /\ index[run] = 1
                            /\ runs[run] \in Bundles
                            /\ HistoryRun(runs[run], run)
    /\ Consistent(History)

(* Every indexed run was promoted: a publication record on disk names it,  *)
(* with the revisions and the tree it measured.                            *)
IndexedRunsPublished ==
    \A run \in Indexed : \E number \in Numbers :
        /\ publications[number] \in Publications
        /\ PublicationMatches(runs[run], publications[number])

(* Two attempts for one PR never both enter the history.                   *)
OneRunPerPullRequest ==
    \A first, second \in Indexed :
        runs[first].pullRequest.number = runs[second].pullRequest.number => first = second

(* A publication record that the index lacks is being indexed right now,   *)
(* unless some command was interrupted.                                    *)
NoStrandedPublication ==
    errors = 0 /\ kills = 0 =>
        \A number \in Numbers :
            publications[number] # None =>
                \/ publications[number].run \in Indexed
                \/ \E w \in Writers : /\ pc[w] \in Locked
                                      /\ request[w].kind = "promote"
                                      /\ Number(w) = number

(* A command that ended well has had its effect, and keeps it whatever     *)
(* other commands and interruptions follow.                                *)
SuccessLasts ==
    \A w \in Writers : pc[w] = "idle" /\ result[w] = "ok" =>
        IF request[w].kind = "store"
        THEN runs[RunOf(w)] = request[w].bundle
        ELSE publications[Number(w)] = Publication(w) /\ RunOf(w) \in Indexed

(* Archived bundles and publication records are never replaced or lost.    *)
RecordsImmutable ==
    [][/\ \A run \in RunKeys : runs[run] # None => runs'[run] = runs[run]
       /\ \A number \in Numbers :
            publications[number] # None => publications'[number] = publications[number]]_vars

(* Replacing index.json never drops an entry another promotion added.      *)
IndexKeepsEntries == [][Indexed \subseteq Indexed']_vars

(* Every command ends, and the lock that a command holds is removed again  *)
(* unless a command is killed from then on, whichever step throws.         *)
CommandsEnd ==
    /\ \A w \in Writers : pc[w] # "idle" ~> pc[w] = "idle"
    /\ \A k \in 0 .. MaxKills :
         (lock /\ ~StaleLock /\ kills = k) ~> (~lock \/ kills > k)

(* docs/results.md, Write Recovery: "A failure after the publication       *)
(* record is written may leave the index unchanged. Retry the identical    *)
(* promotion to finish updating it."  The retry can only succeed while the *)
(* run it names still groups with the history.                             *)
RetryFinishesPromotion ==
    \A number \in Numbers :
        publications[number] \in Publications =>
            Consistent(History \cup {runs[publications[number].run]})

(* The store implements the abstract history: each promotion's rename of   *)
(* index.json is one Publish, everything else leaves the history alone.    *)
Abstract == INSTANCE PublishedHistory WITH history <- History
ImplementsPublishedHistory == Abstract!Spec

=============================================================================
