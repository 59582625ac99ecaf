-------------------------- MODULE ResultStore_proofs --------------------------
(***************************************************************************)
(* Proofs about ResultStore for every set of writers, bundles,              *)
(* publications and policies and every number of interruptions.             *)
(***************************************************************************)
EXTENDS ResultStore, TLAPS

(* The files.  An archived bundle is the one its path names and passed     *)
(* validation; a publication matches its archived bundle; an indexed run   *)
(* is the one its PR's publication selects.                                *)
RunsInv ==
    \A run \in RunKeys : runs[run] # None =>
        runs[run] \in Bundles /\ HistoryRun(runs[run], run)

PublicationsInv ==
    \A number \in Numbers : publications[number] # None =>
        /\ publications[number] \in Publications
        /\ publications[number].pullRequest.number = number
        /\ runs[publications[number].run] # None
        /\ PublicationMatches(runs[publications[number].run], publications[number])

IndexInv ==
    /\ ~indexTorn
    /\ \A run \in Indexed :
        /\ index[run] = 1
        /\ runs[run] # None
        /\ runs[run].pullRequest.number \in Numbers
        /\ publications[runs[run].pullRequest.number] # None
        /\ publications[runs[run].pullRequest.number].run = run
    /\ Consistent(History)

(* The writers.  What a command was asked, and where it stands in it.      *)
CommandInv(w) ==
    /\ request[w].kind = "store" =>
        /\ target[w] = "run"
        /\ PublishableRun(request[w].bundle, request[w].policy)
        /\ pc[w] \notin {"checking", "planning"}
    /\ request[w].kind = "promote" =>
        /\ target[w] # "run"
        /\ pc[w] \in {"locking", "checking", "planning"} => target[w] = "publication"

(* From the checks to the rename, what promote read under the lock is      *)
(* still so: its run is archived and matches, and the index it writes is   *)
(* the index on disk with its run added.                                   *)
Checked(w) ==
    /\ runs[RunOf(w)] # None
    /\ PublicationMatches(runs[RunOf(w)], Publication(w))
    /\ publications[Number(w)] \in {None, Publication(w)}

Planned(w) ==
    /\ planned[w] = PlannedIndex(w)
    /\ Consistent(History \cup {runs[RunOf(w)]})

Writing(w) ==
    \/ pc[w] \in {"preparing", "installing"}
    \/ pc[w] = "cleaning" /\ target[w] = "publication" /\ ~failed[w]

PromoteInv(w) ==
    /\ pc[w] = "planning" \/ Writing(w) => Checked(w)
    /\ Writing(w) => Planned(w)
    /\ Writing(w) /\ (target[w] = "index" \/ pc[w] = "cleaning") =>
            publications[Number(w)] = Publication(w)

WriterInv(w) ==
    /\ pc[w] # "idle" => CommandInv(w)
    /\ pc[w] = "installing" => temp[w] = "complete"
    /\ pc[w] \in Locked /\ request[w].kind = "promote" => PromoteInv(w)

IInv ==
    /\ TypeOK
    /\ LockExcludes
    /\ RunsInv
    /\ PublicationsInv
    /\ IndexInv
    /\ \A w \in Writers : WriterInv(w)

-----------------------------------------------------------------------------
(* What a command line gives the steps: keys of the store's functions.     *)
LEMMA RequestFields ==
    ASSUME NEW r \in Requests
    PROVE  /\ r.kind \in {"store", "promote"}
           /\ r.kind = "store" => /\ r.bundle \in Bundles
                                  /\ r.bundle.run \in RunKeys
           /\ r.kind = "promote" => /\ r.publication \in Publications
                                    /\ r.publication.run \in RunKeys
                                    /\ r.publication.pullRequest.number \in Numbers
BY DEF Requests, StoreRequests, PromoteRequests, RunKeys, Numbers

LEMMA WriterKeys ==
    ASSUME TypeOK, NEW w \in Writers, pc[w] # "idle"
    PROVE  /\ request[w] \in Requests
           /\ RunOf(w) \in RunKeys
           /\ request[w].kind = "promote" => Number(w) \in Numbers
BY RequestFields DEF TypeOK, RunOf, Number

(* Type correctness: every step of every command, interrupted or not,      *)
(* leaves each file and each local variable in its type.                   *)
LEMMA TypeInit == Init => TypeOK
<1> SUFFICES ASSUME Init PROVE TypeOK
    OBVIOUS
<1>1. /\ errors \in 0 .. MaxErrors
      /\ kills \in 0 .. MaxKills
    BY ValueAssumption DEF ValueAssumption, Init
<1>2. /\ runs \in [RunKeys -> Bundles \cup {None, Torn}]
      /\ publications \in [Numbers -> Publications \cup {None, Torn}]
      /\ index \in [RunKeys -> Nat]
      /\ planned \in [Writers -> [RunKeys -> Nat]]
    BY DEF Init, EmptyIndex
<1>3. QED BY <1>1, <1>2 DEF Init, TypeOK, Locked, Targets

LEMMA TypeStep == TypeOK /\ (\A w \in Writers : WriterInv(w)) /\ [Next]_vars => TypeOK'
<1> SUFFICES ASSUME TypeOK, \A w \in Writers : WriterInv(w), [Next]_vars PROVE TypeOK'
    OBVIOUS
<1> USE DEF Locked, Targets, Goto
<1>1. ASSUME NEW w \in Writers, NEW r \in Requests, Begin(w, r) PROVE TypeOK'
    BY <1>1, ValueAssumption DEF ValueAssumption, Begin, TypeOK, storeVars, faultVars
<1>2. ASSUME NEW w \in Writers, NEW r \in Requests, RejectBundle(w, r) PROVE TypeOK'
    BY <1>2 DEF RejectBundle, Finish, EmptyIndex, TypeOK, storeVars, faultVars
<1>3. ASSUME NEW w \in Writers, Acquire(w) PROVE TypeOK'
    BY <1>3 DEF Acquire, TypeOK, faultVars
<1>4. ASSUME NEW w \in Writers, FindLocked(w) PROVE TypeOK'
    BY <1>4 DEF FindLocked, Finish, EmptyIndex, TypeOK, storeVars, faultVars
<1>5. ASSUME NEW w \in Writers, CheckRequest(w) PROVE TypeOK'
    <2>1. Number(w) \in Numbers
        BY <1>5, WriterKeys, RequestFields DEF CheckRequest, WriterInv, CommandInv
    <2> QED BY <1>5, <2>1 DEF CheckRequest, TypeOK, storeVars, faultVars
<1>6. ASSUME NEW w \in Writers, PlanIndex(w) PROVE TypeOK'
    <2>1. planned' \in [Writers -> [RunKeys -> Nat]]
        BY <1>6, WriterKeys DEF PlanIndex, PlannedIndex, TypeOK
    <2> QED BY <1>6, <2>1 DEF PlanIndex, TypeOK, storeVars, faultVars
<1>7. ASSUME NEW w \in Writers, CreateTemp(w) PROVE TypeOK'
    BY <1>7 DEF CreateTemp, TypeOK, storeVars, faultVars
<1>8. ASSUME NEW w \in Writers, FillTemp(w) PROVE TypeOK'
    BY <1>8 DEF FillTemp, TypeOK, storeVars, faultVars
<1>9. ASSUME NEW w \in Writers, LinkRun(w) PROVE TypeOK'
    <2>1. request[w].kind = "store" /\ request[w].bundle \in Bundles
        BY <1>9, WriterKeys, RequestFields DEF LinkRun, WriterInv, CommandInv
    <2> QED BY <1>9, <2>1 DEF LinkRun, Content, TypeOK, faultVars
<1>10. ASSUME NEW w \in Writers, LinkPublication(w) PROVE TypeOK'
    <2>1. Publication(w) \in Publications
        BY <1>10, WriterKeys, RequestFields DEF LinkPublication, WriterInv, CommandInv, Publication
    <2> QED BY <1>10, <2>1, ZenonT(30) DEF LinkPublication, Content, TypeOK, faultVars
<1>11. ASSUME NEW w \in Writers, RenameIndex(w) PROVE TypeOK'
    BY <1>11 DEF RenameIndex, TypeOK, faultVars
<1>12. ASSUME NEW w \in Writers, RemoveTemp(w) PROVE TypeOK'
    BY <1>12, ZenonT(30) DEF RemoveTemp, TypeOK, storeVars, faultVars
<1>13. ASSUME NEW w \in Writers, Release(w) PROVE TypeOK'
    BY <1>13 DEF Release, Finish, EmptyIndex, TypeOK, faultVars
<1>14. ASSUME NEW w \in Writers, WriteError(w) PROVE TypeOK'
    <2>1. errors' \in 0 .. MaxErrors
        BY <1>14, ValueAssumption DEF WriteError, TypeOK, ValueAssumption
    <2> QED BY <1>14, <2>1 DEF WriteError, TypeOK, storeVars
<1>15. ASSUME NEW w \in Writers, Kill(w) PROVE TypeOK'
    <2>1. kills' \in 0 .. MaxKills
        BY <1>15, ValueAssumption DEF Kill, TypeOK, ValueAssumption
    <2> QED BY <1>15, <2>1 DEF Kill, Finish, EmptyIndex, TypeOK
<1>16. CASE Recover
    BY <1>16 DEF Recover, TypeOK, writerVars, faultVars
<1>17. CASE UNCHANGED vars
    BY <1>17 DEF vars, storeVars, writerVars, faultVars, TypeOK
<1> QED BY <1>1, <1>2, <1>3, <1>4, <1>5, <1>6, <1>7, <1>8, <1>9, <1>10, <1>11,
        <1>12, <1>13, <1>14, <1>15, <1>16, <1>17 DEF Next, Step

-----------------------------------------------------------------------------
(* Mutual exclusion: only mkdir enters the lock, and only its holder or    *)
(* someone who saw no holder removes the directory.                        *)
LEMMA LockStep == TypeOK /\ LockExcludes /\ [Next]_vars => LockExcludes'
<1> SUFFICES ASSUME TypeOK, LockExcludes, [Next]_vars PROVE LockExcludes'
    OBVIOUS
<1> USE DEF Locked, Goto, Finish, LockExcludes, TypeOK
<1>1. ASSUME NEW w \in Writers, NEW r \in Requests, Begin(w, r) \/ RejectBundle(w, r)
      PROVE  LockExcludes'
    BY <1>1 DEF Begin, RejectBundle, storeVars
<1>2. ASSUME NEW w \in Writers, Acquire(w) \/ FindLocked(w) PROVE LockExcludes'
    BY <1>2 DEF Acquire, FindLocked, storeVars
<1>3. ASSUME NEW w \in Writers,
             CheckRequest(w) \/ PlanIndex(w) \/ CreateTemp(w) \/ FillTemp(w)
      PROVE  LockExcludes'
    BY <1>3 DEF CheckRequest, PlanIndex, CreateTemp, FillTemp, storeVars
<1>4. ASSUME NEW w \in Writers,
             LinkRun(w) \/ LinkPublication(w) \/ RenameIndex(w) \/ RemoveTemp(w)
      PROVE  LockExcludes'
    BY <1>4 DEF LinkRun, LinkPublication, RenameIndex, RemoveTemp, storeVars
<1>5. ASSUME NEW w \in Writers, Release(w) PROVE LockExcludes'
    BY <1>5 DEF Release
<1>6. ASSUME NEW w \in Writers, WriteError(w) \/ Kill(w) PROVE LockExcludes'
    BY <1>6 DEF WriteError, Kill, storeVars
<1>7. CASE Recover
    BY <1>7 DEF Recover, StaleLock, writerVars
<1>8. CASE UNCHANGED vars
    BY <1>8 DEF vars, storeVars, writerVars
<1> QED BY <1>1, <1>2, <1>3, <1>4, <1>5, <1>6, <1>7, <1>8 DEF Next, Step

-----------------------------------------------------------------------------
(* A writer's part of the invariant reads only its own variables and, when *)
(* it is inside the lock, the files.                                       *)
Files == <<runs, publications, index, indexTorn>>
Locals(w) == <<pc[w], request[w], planned[w], target[w], temp[w], failed[w]>>

LEMMA WriterKept ==
    ASSUME NEW w \in Writers, WriterInv(w), Locals(w)' = Locals(w),
           pc[w] \notin Locked \/ UNCHANGED Files
    PROVE  WriterInv(w)'
<1>1. CASE pc[w] \notin Locked
    BY <1>1 DEF Locals, WriterInv, CommandInv, Locked
<1>2. CASE UNCHANGED Files
    BY <1>2 DEF Files, Locals, WriterInv, CommandInv, PromoteInv, Checked, Planned, Writing,
        PlannedIndex, Indexed, History, RunOf, Number, Publication, Locked
<1> QED BY <1>1, <1>2

(* So a step of one writer keeps the others' parts.                        *)
LEMMA OthersKept ==
    ASSUME NEW w \in Writers, LockExcludes, \A o \in Writers : WriterInv(o),
           \A o \in Writers \ {w} : Locals(o)' = Locals(o),
           pc[w] \in Locked \/ UNCHANGED Files,
           WriterInv(w)'
    PROVE  \A o \in Writers : WriterInv(o)'
<1> SUFFICES ASSUME NEW o \in Writers \ {w} PROVE WriterInv(o)'
    OBVIOUS
<1>1. pc[o] \notin Locked \/ UNCHANGED Files
    BY DEF LockExcludes
<1> QED BY <1>1, WriterKept

FilesInv == RunsInv /\ PublicationsInv /\ IndexInv

LEMMA FilesKept == FilesInv /\ UNCHANGED Files => FilesInv'
BY DEF FilesInv, Files, RunsInv, PublicationsInv, IndexInv, Indexed, History

(* The steps that leave the files alone.                                   *)
LEMMA QuietStep ==
    ASSUME IInv, NEW w \in Writers,
           \/ \E r \in Requests : Begin(w, r) \/ RejectBundle(w, r)
           \/ Acquire(w) \/ FindLocked(w) \/ CheckRequest(w) \/ PlanIndex(w)
           \/ CreateTemp(w) \/ FillTemp(w) \/ RemoveTemp(w) \/ Release(w)
           \/ WriteError(w) \/ Kill(w)
    PROVE  FilesInv' /\ \A o \in Writers : WriterInv(o)'
<1>1. UNCHANGED Files
    BY DEF Files, Begin, RejectBundle, Acquire, FindLocked, CheckRequest, PlanIndex, CreateTemp,
        FillTemp, RemoveTemp, Release, WriteError, Kill, storeVars
<1>2. FilesInv'
    BY <1>1, FilesKept DEF IInv, FilesInv
<1>3. \A o \in Writers \ {w} : Locals(o)' = Locals(o)
    BY DEF IInv, TypeOK, Locals, Begin, RejectBundle, Acquire, FindLocked, CheckRequest, PlanIndex,
        CreateTemp, FillTemp, RemoveTemp, Release, WriteError, Kill, Goto, Finish
<1>4. request'[w] = request[w] =>
        /\ Checked(w)' <=> Checked(w)
        /\ planned'[w] = planned[w] => (Planned(w)' <=> Planned(w))
        /\ (publications[Number(w)] = Publication(w))' <=> publications[Number(w)] = Publication(w)
    BY <1>1 DEF Files, Checked, Planned, PlannedIndex, Indexed, History, RunOf, Number, Publication
<1>5. WriterInv(w)'
    <2> USE DEF IInv, TypeOK, WriterInv, CommandInv, Goto, Locked
    <2>1. ASSUME NEW r \in Requests, Begin(w, r) PROVE WriterInv(w)'
        BY <2>1, RequestFields DEF Begin
    <2>2. CASE \E r \in Requests : RejectBundle(w, r)
        BY <2>2 DEF RejectBundle, Finish
    <2>3. CASE Acquire(w)
        BY <2>3, WriterKeys, RequestFields DEF Acquire, PromoteInv, Writing
    <2>4. CASE FindLocked(w) \/ Release(w) \/ Kill(w)
        BY <2>4 DEF FindLocked, Release, Kill, Finish
    <2>5. CASE CheckRequest(w)
        <3>1. RequestValid(w) => Checked(w)
            BY ValueAssumption DEF ValueAssumption, RequestValid, Checked
        <3> QED BY <2>5, <1>4, <3>1 DEF CheckRequest, PromoteInv, Writing
    <2>6. CASE PlanIndex(w)
        <3>1. PlanValid(w) => Planned(w)'
            BY <2>6, <1>1 DEF PlanIndex, PlanValid, Files, Planned, PlannedIndex, Indexed, History, RunOf
        <3> QED BY <2>6, <1>4, <3>1 DEF PlanIndex, PromoteInv, Writing
    <2>7. CASE CreateTemp(w)
        BY <2>7, <1>4 DEF CreateTemp, PromoteInv, Writing
    <2>8. CASE FillTemp(w)
        BY <2>8, <1>4 DEF FillTemp, PromoteInv, Writing
    <2>9. CASE RemoveTemp(w)
        BY <2>9, <1>4 DEF RemoveTemp, PromoteInv, Writing
    <2>10. CASE WriteError(w)
        BY <2>10, <1>4 DEF WriteError, PromoteInv, Writing
    <2> QED BY <2>1, <2>2, <2>3, <2>4, <2>5, <2>6, <2>7, <2>8, <2>9, <2>10
<1> QED BY <1>1, <1>2, <1>3, <1>5, OthersKept DEF IInv

-----------------------------------------------------------------------------
(* The three steps that change a file.                                     *)
LEMMA LinkRunStep ==
    ASSUME IInv, NEW w \in Writers, LinkRun(w)
    PROVE  FilesInv' /\ \A o \in Writers : WriterInv(o)'
<1> DEFINE b == request[w].bundle
<1>1. /\ request[w].kind = "store" /\ b \in Bundles /\ RunOf(w) = b.run
      /\ b.run \in RunKeys
      /\ PublishableRun(b, request[w].policy)
      /\ temp[w] = "complete"
    BY WriterKeys, RequestFields DEF IInv, LinkRun, WriterInv, CommandInv, RunOf
<1>2. /\ \A run \in RunKeys : runs[run] # None => runs'[run] = runs[run]
      /\ \A run \in RunKeys : runs'[run] # runs[run] => run = b.run /\ runs'[run] = b
      /\ UNCHANGED <<publications, index, indexTorn>>
    BY <1>1 DEF IInv, TypeOK, LinkRun, Content
<1>3. RunsInv'
    BY <1>1, <1>2 DEF IInv, RunsInv, PublishableRun, HistoryRun
<1>4. PublicationsInv'
    BY <1>2 DEF IInv, PublicationsInv, RunKeys
<1>5. IndexInv'
    <2>1. Indexed' = Indexed /\ History' = History
        BY <1>2 DEF Indexed, History, IInv, IndexInv
    <2> QED BY <1>2, <2>1 DEF IInv, IndexInv, Indexed
<1>6. WriterInv(w)'
    BY <1>1 DEF LinkRun, WriterInv, CommandInv, Goto, IInv, TypeOK
<1>7. \A o \in Writers \ {w} : Locals(o)' = Locals(o)
    BY DEF IInv, TypeOK, Locals, LinkRun, Goto
<1> QED BY <1>3, <1>4, <1>5, <1>6, <1>7, OthersKept DEF IInv, FilesInv, LinkRun, Locked

LEMMA LinkPublicationStep ==
    ASSUME IInv, NEW w \in Writers, LinkPublication(w)
    PROVE  FilesInv' /\ \A o \in Writers : WriterInv(o)'
<1> DEFINE p == Publication(w)
<1>1. /\ request[w].kind = "promote" /\ p \in Publications /\ RunOf(w) = p.run
      /\ Number(w) = p.pullRequest.number
      /\ p.run \in RunKeys /\ p.pullRequest.number \in Numbers
      /\ temp[w] = "complete"
    BY WriterKeys, RequestFields
    DEF IInv, LinkPublication, WriterInv, CommandInv, RunOf, Number, Publication
<1>2. Checked(w) /\ Planned(w)
    BY <1>1 DEF IInv, LinkPublication, WriterInv, PromoteInv, Writing, Locked
<1>3. /\ publications'[Number(w)] = p
      /\ \A number \in Numbers : number # Number(w) => publications'[number] = publications[number]
      /\ \A number \in Numbers : publications[number] # None => publications'[number] = publications[number]
      /\ UNCHANGED <<runs, index, indexTorn>>
    BY <1>1, <1>2 DEF IInv, TypeOK, LinkPublication, Content, Checked
<1>4. RunsInv'
    BY <1>3 DEF IInv, RunsInv
<1>5. PublicationsInv'
    BY <1>1, <1>2, <1>3 DEF IInv, PublicationsInv, Checked
<1>6. IndexInv'
    <2>1. Indexed' = Indexed /\ History' = History
        BY <1>3 DEF Indexed, History
    <2> QED BY <1>3, <2>1 DEF IInv, IndexInv
<1>7. WriterInv(w)'
    <2>1. Checked(w)' /\ Planned(w)'
        BY <1>1, <1>2, <1>3, SMTT(30) DEF LinkPublication, Checked, Planned, PlannedIndex, Indexed, History,
            RunOf, Number, Publication
    <2>2. publications'[Number(w)'] = Publication(w)'
        BY <1>3 DEF LinkPublication, Number, Publication
    <2> QED BY <1>1, <2>1, <2>2
        DEF LinkPublication, WriterInv, CommandInv, PromoteInv, Writing, Goto, IInv, TypeOK
<1>8. \A o \in Writers \ {w} : Locals(o)' = Locals(o)
    BY DEF IInv, TypeOK, Locals, LinkPublication, Goto
<1> QED BY <1>4, <1>5, <1>6, <1>7, <1>8, OthersKept DEF IInv, FilesInv, LinkPublication, Locked

(* The rename adds exactly the promoted run.                               *)
LEMMA RenameAddsRun ==
    ASSUME IInv, NEW w \in Writers, RenameIndex(w)
    PROVE  /\ RunOf(w) \in RunKeys
           /\ Checked(w)
           /\ publications[Number(w)] = Publication(w)
           /\ Number(w) \in Numbers
           /\ Indexed' = Indexed \cup {RunOf(w)}
           /\ \A run \in Indexed' : index'[run] = 1
           /\ History' = History \cup {runs[RunOf(w)]}
           /\ Consistent(History')
           /\ indexTorn' = FALSE
           /\ UNCHANGED <<runs, publications>>
<1>1. /\ request[w].kind = "promote"
      /\ RunOf(w) \in RunKeys /\ Number(w) \in Numbers
      /\ temp[w] = "complete"
    BY WriterKeys, RequestFields DEF IInv, RenameIndex, WriterInv, CommandInv
<1>2. /\ Checked(w)
      /\ Planned(w)
      /\ publications[Number(w)] = Publication(w)
    BY <1>1 DEF IInv, RenameIndex, WriterInv, PromoteInv, Writing, Locked
<1>3. index' = PlannedIndex(w) /\ UNCHANGED <<runs, publications>> /\ indexTorn' = FALSE
    BY <1>1, <1>2 DEF RenameIndex, Planned
<1>4. Indexed' = Indexed \cup {RunOf(w)} /\ \A run \in Indexed' : index'[run] = 1
    <2>1. \A run \in RunKeys : index[run] \in Nat
        BY DEF IInv, TypeOK
    <2>2. \A run \in Indexed : index[run] = 1
        BY DEF IInv, IndexInv
    <2>3. CASE RunOf(w) \in Indexed
        BY <1>3, <2>2, <2>3 DEF PlannedIndex, Indexed
    <2>4. CASE RunOf(w) \notin Indexed
        <3>1. index[RunOf(w)] = 0
            BY <1>1, <2>1, <2>4 DEF Indexed
        <3>2. index' = [index EXCEPT ![RunOf(w)] = 1]
            BY <1>1, <1>3, <2>4, <3>1 DEF PlannedIndex, IInv, TypeOK
        <3> QED BY <1>1, <2>1, <2>2, <3>2 DEF Indexed, IInv, TypeOK
    <2> QED BY <2>3, <2>4
<1>5. History' = History \cup {runs[RunOf(w)]}
    BY <1>3, <1>4 DEF History
<1> QED BY <1>1, <1>2, <1>3, <1>4, <1>5 DEF Planned

LEMMA RenameIndexStep ==
    ASSUME IInv, NEW w \in Writers, RenameIndex(w)
    PROVE  FilesInv' /\ \A o \in Writers : WriterInv(o)'
<1>1. RunsInv' /\ PublicationsInv'
    BY RenameAddsRun DEF IInv, RunsInv, PublicationsInv
<1>2. IndexInv'
    <2>1. /\ runs[RunOf(w)].pullRequest.number = Number(w)
          /\ publications[Number(w)].run = RunOf(w)
          /\ publications[Number(w)] # None
          /\ runs[RunOf(w)] # None
        <3>1. request[w].kind = "promote" /\ Publication(w) \in Publications
            BY WriterKeys, RequestFields DEF IInv, RenameIndex, WriterInv, CommandInv, Publication
        <3> QED BY <3>1, RenameAddsRun, ValueAssumption
            DEF ValueAssumption, Checked, PublicationMatches, RunOf, Number, Publication
    <2>2. ASSUME NEW run \in Indexed'
          PROVE  /\ index'[run] = 1
                 /\ runs'[run] # None
                 /\ runs'[run].pullRequest.number \in Numbers
                 /\ publications'[runs'[run].pullRequest.number] # None
                 /\ publications'[runs'[run].pullRequest.number].run = run
        <3>1. CASE run = RunOf(w)
            BY <2>1, <3>1, RenameAddsRun
        <3>2. CASE run \in Indexed
            BY <3>2, RenameAddsRun DEF IInv, IndexInv
        <3> QED BY <3>1, <3>2, RenameAddsRun
    <2> QED BY <2>2, RenameAddsRun DEF IndexInv
<1>3. WriterInv(w)'
    BY DEF RenameIndex, WriterInv, CommandInv, PromoteInv, Writing, Goto, IInv, TypeOK
<1>4. \A o \in Writers \ {w} : Locals(o)' = Locals(o)
    BY DEF IInv, TypeOK, Locals, RenameIndex, Goto
<1> QED BY <1>1, <1>2, <1>3, <1>4, OthersKept DEF IInv, FilesInv, RenameIndex, Locked

-----------------------------------------------------------------------------
(* The invariant is inductive.                                             *)
LEMMA InvInit == Init => IInv
<1> SUFFICES ASSUME Init PROVE IInv
    OBVIOUS
<1>1. TypeOK
    BY TypeInit
<1>2. Indexed = {} /\ History = {}
    BY DEF Init, Indexed, History, EmptyIndex
<1>3. LockExcludes /\ RunsInv /\ PublicationsInv
    BY DEF Init, LockExcludes, Locked, RunsInv, PublicationsInv
<1>4. IndexInv
    BY <1>2 DEF Init, IndexInv, Consistent
<1>5. \A w \in Writers : WriterInv(w)
    BY DEF Init, WriterInv, Locked
<1> QED BY <1>1, <1>3, <1>4, <1>5 DEF IInv

LEMMA InvStep == IInv /\ [Next]_vars => IInv'
<1> SUFFICES ASSUME IInv, [Next]_vars PROVE IInv'
    OBVIOUS
<1>1. TypeOK' /\ LockExcludes'
    BY TypeStep, LockStep DEF IInv
<1>2. FilesInv' /\ \A o \in Writers : WriterInv(o)'
    <2>1. ASSUME NEW w \in Writers, LinkRun(w) PROVE FilesInv' /\ \A o \in Writers : WriterInv(o)'
        BY <2>1, LinkRunStep
    <2>2. ASSUME NEW w \in Writers, LinkPublication(w) PROVE FilesInv' /\ \A o \in Writers : WriterInv(o)'
        BY <2>2, LinkPublicationStep
    <2>3. ASSUME NEW w \in Writers, RenameIndex(w) PROVE FilesInv' /\ \A o \in Writers : WriterInv(o)'
        BY <2>3, RenameIndexStep
    <2>4. CASE Recover \/ UNCHANGED vars
        <3>1. UNCHANGED Files /\ \A o \in Writers : Locals(o)' = Locals(o)
            BY <2>4 DEF Recover, vars, storeVars, writerVars, Files, Locals
        <3> QED BY <3>1, FilesKept, WriterKept DEF IInv, FilesInv
    <2> QED BY <2>1, <2>2, <2>3, <2>4, QuietStep DEF Next, Step
<1> QED BY <1>1, <1>2 DEF IInv, FilesInv

(* Every reachable state satisfies the inductive invariant.                *)
THEOREM Invariance == Spec => []IInv
BY InvInit, InvStep, PTL DEF Spec

(* Every file and local variable of every interleaving is of its type.     *)
THEOREM TypeCorrect == Spec => []TypeOK
<1>1. IInv => TypeOK
    BY DEF IInv
<1> QED BY <1>1, Invariance, PTL

(* At most one command is inside the store, for any number of commands and *)
(* of killed lock holders whose locks are removed by hand.                 *)
THEOREM MutualExclusion == Spec => []LockExcludes
<1>1. IInv => LockExcludes
    BY DEF IInv
<1> QED BY <1>1, Invariance, PTL

(* Readers of index.json never meet a torn index, a missing bundle, a      *)
(* duplicate or runs that do not group, wherever a command stopped.        *)
THEOREM IndexAlwaysServable == Spec => []IndexServable
<1>1. IInv => IndexServable
    BY DEF IInv, IndexInv, RunsInv, IndexServable, Indexed
<1> QED BY <1>1, Invariance, PTL

(* Every run in the index was promoted by a publication record that is on  *)
(* disk and names the revisions and tree the run measured.                 *)
THEOREM IndexOnlyPublished == Spec => []IndexedRunsPublished
<1>1. IInv => IndexedRunsPublished
    BY DEF IInv, IndexInv, PublicationsInv, IndexedRunsPublished
<1> QED BY <1>1, Invariance, PTL

(* One attempt per pull request enters the history.                        *)
THEOREM OneRunEach == Spec => []OneRunPerPullRequest
<1>1. IInv => OneRunPerPullRequest
    BY DEF IInv, IndexInv, OneRunPerPullRequest
<1> QED BY <1>1, Invariance, PTL

-----------------------------------------------------------------------------
(* What a step may do to the files.                                        *)
LEMMA FileSteps ==
    ASSUME [Next]_vars
    PROVE  UNCHANGED Files \/ \E w \in Writers : LinkRun(w) \/ LinkPublication(w) \/ RenameIndex(w)
<1>1. CASE Recover \/ UNCHANGED vars
    BY <1>1 DEF Recover, vars, storeVars, Files
<1>2. ASSUME NEW w \in Writers,
             \/ \E r \in Requests : Begin(w, r) \/ RejectBundle(w, r)
             \/ Acquire(w) \/ FindLocked(w) \/ CheckRequest(w) \/ PlanIndex(w)
             \/ CreateTemp(w) \/ FillTemp(w) \/ RemoveTemp(w) \/ Release(w)
             \/ WriteError(w) \/ Kill(w)
      PROVE  UNCHANGED Files
    BY <1>2 DEF Files, Begin, RejectBundle, Acquire, FindLocked, CheckRequest, PlanIndex,
        CreateTemp, FillTemp, RemoveTemp, Release, WriteError, Kill, storeVars
<1> QED BY <1>1, <1>2 DEF Next, Step

(* Records never change and the index only grows.                          *)
LEMMA FilesGrow ==
    ASSUME IInv, [Next]_vars
    PROVE  /\ \A run \in RunKeys : runs[run] # None => runs'[run] = runs[run]
           /\ \A number \in Numbers :
                publications[number] # None => publications'[number] = publications[number]
           /\ Indexed \subseteq Indexed'
<1>1. CASE UNCHANGED Files
    BY <1>1 DEF Files, Indexed
<1>2. ASSUME NEW w \in Writers, LinkRun(w) \/ LinkPublication(w) \/ RenameIndex(w)
      PROVE  /\ \A run \in RunKeys : runs[run] # None => runs'[run] = runs[run]
             /\ \A number \in Numbers :
                  publications[number] # None => publications'[number] = publications[number]
             /\ Indexed \subseteq Indexed'
    BY <1>2, RenameAddsRun DEF LinkRun, LinkPublication, IInv, TypeOK, Indexed
<1> QED BY <1>1, <1>2, FileSteps

(* No step of any command replaces or removes an archived bundle or a      *)
(* publication record.                                                     *)
THEOREM RecordsNeverChange == Spec => RecordsImmutable
<1> DEFINE Kept == /\ \A run \in RunKeys : runs[run] # None => runs'[run] = runs[run]
                   /\ \A number \in Numbers :
                        publications[number] # None => publications'[number] = publications[number]
<1>1. IInv /\ [Next]_vars => [Kept]_vars
    BY FilesGrow
<1> QED BY <1>1, Invariance, PTL DEF RecordsImmutable, Spec

(* Each promotion replaces index.json by an index with all of its entries. *)
THEOREM EntriesNeverLost == Spec => IndexKeepsEntries
<1>1. IInv /\ [Next]_vars => Indexed \subseteq Indexed'
    BY FilesGrow
<1> QED BY <1>1, Invariance, PTL DEF IndexKeepsEntries, Spec

(* Every behaviour of the store, seen through index.json, is a behaviour   *)
(* of the abstract history.                                                *)
LEMMA RenamePublishes ==
    ASSUME IInv, NEW w \in Writers, RenameIndex(w)
    PROVE  [Abstract!Next]_History
<1> DEFINE b == runs[RunOf(w)]
<1>1. CASE RunOf(w) \in Indexed
    BY <1>1, RenameAddsRun DEF History
<1>2. CASE RunOf(w) \notin Indexed
    <2>1. b \in Bundles /\ CompleteRun(b) /\ b.source = "published"
        BY RenameAddsRun DEF Checked, IInv, RunsInv, HistoryRun
    <2>2. b.pullRequest.number = Number(w) /\ publications[Number(w)].run = RunOf(w)
        <3>1. request[w].kind = "promote"
            BY WriterKeys, RequestFields DEF IInv, RenameIndex, WriterInv, CommandInv
        <3> QED BY <3>1, RenameAddsRun DEF Checked, PublicationMatches, RunOf, Number, Publication
    <2>3. ASSUME NEW other \in History PROVE other.pullRequest.number # b.pullRequest.number
        <3>1. PICK run \in Indexed : other = runs[run]
            BY DEF History
        <3>2. publications[other.pullRequest.number].run = run
            BY <3>1 DEF IInv, IndexInv
        <3> QED BY <1>2, <2>2, <3>1, <3>2
    <2>4. History' = History \cup {b} /\ Consistent(History \cup {b})
        BY RenameAddsRun
    <2>5. Abstract!Publish(b)
        BY <2>1, <2>3, <2>4 DEF Abstract!Publish, Abstract!CompleteRun, CompleteRun,
            Abstract!Consistent, Consistent, Abstract!Compatible, Compatible,
            Abstract!CatalogsAgree, CatalogsAgree
    <2> QED BY <2>1, <2>5 DEF Abstract!Next
<1> QED BY <1>1, <1>2

(* The store implements the abstract history: renaming index.json is one   *)
(* Publish, and every other step leaves the history alone.                 *)
THEOREM Refinement == Spec => ImplementsPublishedHistory
<1>1. Init => Abstract!Init
    BY DEF Init, Abstract!Init, History, Indexed, EmptyIndex
<1>2. IInv /\ [Next]_vars => [Abstract!Next]_History
    <2> SUFFICES ASSUME IInv, [Next]_vars PROVE [Abstract!Next]_History
        OBVIOUS
    <2>1. CASE UNCHANGED Files
        BY <2>1 DEF Files, History, Indexed
    <2>2. ASSUME NEW w \in Writers, LinkPublication(w) PROVE History' = History
        BY <2>2 DEF LinkPublication, History, Indexed
    <2>3. ASSUME NEW w \in Writers, LinkRun(w) PROVE History' = History
        <3>1. \A run \in Indexed : runs'[run] = runs[run]
            BY <2>3 DEF LinkRun, IInv, IndexInv, TypeOK, Indexed
        <3> QED BY <2>3, <3>1 DEF LinkRun, History, Indexed
    <2> QED BY <2>1, <2>2, <2>3, RenamePublishes, FileSteps
<1> QED BY <1>1, <1>2, Invariance, PTL DEF Spec, ImplementsPublishedHistory, Abstract!Spec

-----------------------------------------------------------------------------
(* What a command has done stays done.  A command that reports success, or *)
(* is about to, has had its effect.                                        *)
Effect(w) ==
    IF request[w].kind = "store"
    THEN runs[RunOf(w)] = request[w].bundle
    ELSE publications[Number(w)] = Publication(w) /\ RunOf(w) \in Indexed

EffectInv(w) ==
    /\ pc[w] = "idle" /\ result[w] = "ok" => Effect(w)
    /\ pc[w] = "unlocking" /\ ~failed[w] => Effect(w)
    /\ pc[w] = "cleaning" /\ ~failed[w] /\ target[w] # "publication" => Effect(w)

(* A command that has not thrown yet: the flag belongs to this command.    *)
UnfailedInv(w) == pc[w] \notin {"cleaning", "unlocking"} => ~failed[w]

(* The promotion between its publication record and its index entry.       *)
Between(w) ==
    \/ pc[w] = "cleaning" /\ target[w] = "publication" /\ ~failed[w]
    \/ pc[w] \in {"preparing", "installing"} /\ target[w] = "index"

StrandInv ==
    errors = 0 /\ kills = 0 =>
        \A number \in Numbers :
            publications[number] # None =>
                \/ publications[number].run \in Indexed
                \/ \E w \in Writers : /\ Between(w)
                                      /\ request[w].kind = "promote"
                                      /\ publications[number] = Publication(w)

CommandsInv ==
    /\ \A w \in Writers : EffectInv(w) /\ UnfailedInv(w)
    /\ StrandInv
    /\ LockLeftOnlyByKill

LEMMA CommandsInit == Init => CommandsInv
BY DEF Init, CommandsInv, EffectInv, UnfailedInv, StrandInv, LockLeftOnlyByKill, StaleLock

LEMMA EffectKept ==
    ASSUME IInv, [Next]_vars, NEW w \in Writers,
           request[w] \in Requests, request'[w] = request[w], Effect(w)
    PROVE  Effect(w)'
<1>1. RunOf(w)' = RunOf(w) /\ Number(w)' = Number(w) /\ Publication(w)' = Publication(w)
    BY DEF RunOf, Number, Publication
<1>2. CASE request[w].kind = "store"
    <2>1. RunOf(w) \in RunKeys /\ request[w].bundle # None
        BY <1>2, RequestFields, ValueAssumption DEF RunOf, ValueAssumption
    <2> QED BY <1>1, <1>2, <2>1, FilesGrow DEF Effect
<1>3. CASE request[w].kind = "promote"
    <2>1. Number(w) \in Numbers /\ Publication(w) # None
        BY <1>3, RequestFields, ValueAssumption DEF Number, Publication, ValueAssumption
    <2> QED BY <1>1, <1>3, <2>1, FilesGrow DEF Effect
<1> QED BY <1>2, <1>3, RequestFields

(* The step of a command itself.                                           *)
LEMMA EffectReached ==
    ASSUME IInv, [Next]_vars, NEW w \in Writers, EffectInv(w), UnfailedInv(w),
           \/ \E r \in Requests : Begin(w, r) \/ RejectBundle(w, r)
           \/ Step(w) \/ WriteError(w) \/ Kill(w)
    PROVE  EffectInv(w)' /\ UnfailedInv(w)'
<1> USE DEF Goto, Finish, Locked
<1>1. TypeOK
    BY DEF IInv
<1>2. CASE \/ \E r \in Requests : Begin(w, r) \/ RejectBundle(w, r)
           \/ Acquire(w) \/ FindLocked(w) \/ CheckRequest(w) \/ PlanIndex(w)
           \/ CreateTemp(w) \/ FillTemp(w) \/ WriteError(w) \/ Kill(w)
    BY <1>1, <1>2, ZenonT(30) DEF EffectInv, UnfailedInv, Begin, RejectBundle, Acquire, FindLocked, CheckRequest,
        PlanIndex, CreateTemp, FillTemp, WriteError, Kill, TypeOK
<1>3. ASSUME pc[w] \notin {"idle", "locking"}
      PROVE  /\ request[w] \in Requests /\ request[w].kind \in {"store", "promote"}
             /\ request[w].kind = "store" => target[w] = "run"
             /\ request[w].kind = "promote" => target[w] # "run" /\ PromoteInv(w)
             /\ RunOf(w) \in RunKeys /\ (request[w].kind = "promote" => Number(w) \in Numbers)
    BY <1>1, <1>3, WriterKeys, RequestFields DEF IInv, WriterInv, CommandInv, TypeOK
<1>4. CASE LinkRun(w)
    <2>1. request[w].kind = "store" /\ RunOf(w) \in RunKeys /\ temp[w] = "complete"
        BY <1>3, <1>4 DEF LinkRun, IInv, WriterInv
    <2>2. /\ pc'[w] = "cleaning" /\ UNCHANGED <<request, target>>
          /\ ~failed'[w] => runs'[RunOf(w)] = request[w].bundle
        BY <1>1, <1>4, <2>1 DEF LinkRun, Content, TypeOK
    <2>3. ~failed'[w] => Effect(w)'
        BY <2>1, <2>2 DEF Effect, RunOf
    <2> QED BY <2>2, <2>3 DEF EffectInv, UnfailedInv
<1>5. CASE LinkPublication(w)
    BY <1>1, <1>5 DEF LinkPublication, EffectInv, UnfailedInv, TypeOK
<1>6. CASE RenameIndex(w)
    <2>1. /\ request[w].kind = "promote"
          /\ publications[Number(w)] = Publication(w)
          /\ RunOf(w) \in Indexed'
          /\ UNCHANGED <<publications, request>>
        BY <1>3, <1>6, RenameAddsRun DEF RenameIndex
    <2>2. Effect(w)'
        BY <2>1 DEF Effect, RunOf, Number, Publication
    <2> QED BY <1>1, <1>6, <2>2 DEF RenameIndex, EffectInv, UnfailedInv, TypeOK
<1>7. CASE RemoveTemp(w)
    <2>1. UNCHANGED <<request, failed>> /\ pc'[w] \in {"preparing", "unlocking"}
        BY <1>1, <1>7 DEF RemoveTemp, TypeOK
    <2>2. pc'[w] = "preparing" => ~failed[w]
        BY <1>1, <1>7 DEF RemoveTemp, TypeOK
    <2>3. pc'[w] = "unlocking" /\ ~failed[w] => Effect(w)
        BY <1>1, <1>7 DEF RemoveTemp, TypeOK, EffectInv
    <2>4. request[w] \in Requests
        BY <1>3, <1>7 DEF RemoveTemp
    <2>5. Effect(w) => Effect(w)'
        BY <2>1, <2>4, EffectKept
    <2> QED BY <2>1, <2>2, <2>3, <2>5 DEF EffectInv, UnfailedInv
<1>8. CASE Release(w)
    <2>1. pc'[w] = "idle" /\ ~failed'[w] /\ (result'[w] = "ok" => ~failed[w] /\ request'[w] = request[w])
        BY <1>1, <1>8 DEF Release, TypeOK
    <2>2. ~failed[w] => Effect(w)
        BY <1>8 DEF Release, EffectInv
    <2>3. request[w] \in Requests
        BY <1>3, <1>8 DEF Release
    <2>4. result'[w] = "ok" => Effect(w)'
        BY <2>1, <2>2, <2>3, EffectKept
    <2> QED BY <2>1, <2>4 DEF EffectInv, UnfailedInv
<1> QED BY <1>2, <1>4, <1>5, <1>6, <1>7, <1>8 DEF Step

LEMMA EffectStep ==
    ASSUME IInv, CommandsInv, [Next]_vars
    PROVE  \A w \in Writers : EffectInv(w)' /\ UnfailedInv(w)'
<1>1. ASSUME NEW w \in Writers, Locals(w)' = Locals(w), result'[w] = result[w]
      PROVE  EffectInv(w)' /\ UnfailedInv(w)'
    <2>1. Effect(w) /\ request[w] \in Requests => Effect(w)'
        BY <1>1, EffectKept DEF Locals
    <2>2. pc[w] # "idle" \/ result[w] = "ok" => request[w] \in Requests
        BY DEF IInv, TypeOK
    <2> QED BY <1>1, <2>1, <2>2 DEF Locals, EffectInv, UnfailedInv, CommandsInv
<1>2. ASSUME NEW v \in Writers,
             \/ \E r \in Requests : Begin(v, r) \/ RejectBundle(v, r)
             \/ Step(v) \/ WriteError(v) \/ Kill(v),
             NEW w \in Writers \ {v}
      PROVE  Locals(w)' = Locals(w) /\ result'[w] = result[w]
    BY <1>2 DEF IInv, TypeOK, Locals, Goto, Finish, Begin, RejectBundle, Step, Acquire, FindLocked,
        CheckRequest, PlanIndex, CreateTemp, FillTemp, LinkRun, LinkPublication, RenameIndex,
        RemoveTemp, Release, WriteError, Kill
<1>3. CASE Recover \/ UNCHANGED vars
    BY <1>1, <1>3 DEF Recover, vars, writerVars, Locals
<1>4. ASSUME NEW v \in Writers,
             \/ \E r \in Requests : Begin(v, r) \/ RejectBundle(v, r)
             \/ Step(v) \/ WriteError(v) \/ Kill(v)
      PROVE  \A w \in Writers : EffectInv(w)' /\ UnfailedInv(w)'
    <2>1. EffectInv(v)' /\ UnfailedInv(v)'
        BY <1>4, EffectReached DEF CommandsInv
    <2>2. ASSUME NEW w \in Writers \ {v} PROVE EffectInv(w)' /\ UnfailedInv(w)'
        <3>1. Locals(w)' = Locals(w) /\ result'[w] = result[w]
            BY <1>2, <1>4, <2>2
        <3> QED BY <1>1, <2>2, <3>1
    <2> QED BY <2>1, <2>2
<1> QED BY <1>3, <1>4 DEF Next

LEMMA LockLeftStep == TypeOK /\ LockLeftOnlyByKill /\ [Next]_vars => LockLeftOnlyByKill'
<1> SUFFICES ASSUME TypeOK, LockLeftOnlyByKill, [Next]_vars, kills' = 0 PROVE ~StaleLock'
    BY DEF LockLeftOnlyByKill
<1> USE DEF Locked, Goto, Finish, LockLeftOnlyByKill, StaleLock, TypeOK
<1>1. ASSUME NEW w \in Writers, NEW r \in Requests, Begin(w, r) \/ RejectBundle(w, r)
      PROVE  ~StaleLock'
    BY <1>1 DEF Begin, RejectBundle, storeVars, faultVars
<1>2. ASSUME NEW w \in Writers, Acquire(w) \/ FindLocked(w) PROVE ~StaleLock'
    BY <1>2 DEF Acquire, FindLocked, storeVars, faultVars
<1>3. ASSUME NEW w \in Writers,
             CheckRequest(w) \/ PlanIndex(w) \/ CreateTemp(w) \/ FillTemp(w)
      PROVE  ~StaleLock'
    BY <1>3 DEF CheckRequest, PlanIndex, CreateTemp, FillTemp, storeVars, faultVars
<1>4. ASSUME NEW w \in Writers,
             LinkRun(w) \/ LinkPublication(w) \/ RenameIndex(w) \/ RemoveTemp(w)
      PROVE  ~StaleLock'
    BY <1>4 DEF LinkRun, LinkPublication, RenameIndex, RemoveTemp, storeVars, faultVars
<1>5. ASSUME NEW w \in Writers, Release(w) \/ WriteError(w) PROVE ~StaleLock'
    BY <1>5 DEF Release, WriteError, storeVars, faultVars
<1>6. ASSUME NEW w \in Writers, Kill(w) PROVE FALSE
    BY <1>6 DEF Kill
<1>7. CASE Recover \/ UNCHANGED vars
    BY <1>7 DEF Recover, vars, storeVars, writerVars, faultVars
<1> QED BY <1>1, <1>2, <1>3, <1>4, <1>5, <1>6, <1>7 DEF Next, Step

(* A promotion between its two writes goes on: nothing but an error or a   *)
(* kill stops it, and nobody else has the lock.                            *)
LEMMA BetweenStep ==
    ASSUME IInv, [Next]_vars, errors' = 0, kills' = 0,
           NEW w \in Writers, Between(w), request[w].kind = "promote"
    PROVE  \/ /\ Between(w)' /\ request'[w] = request[w]
           \/ Publication(w).run \in Indexed'
<1> USE DEF Goto, Finish, Locked
<1>1. TypeOK
    BY DEF IInv
<1>2. CASE RenameIndex(w)
    BY <1>2, RenameAddsRun DEF RunOf, Publication
<1>3. CASE CreateTemp(w) \/ FillTemp(w) \/ RemoveTemp(w)
    BY <1>1, <1>3 DEF CreateTemp, FillTemp, RemoveTemp, Between, TypeOK
<1>4. CASE WriteError(w) \/ Kill(w)
    BY <1>1, <1>4 DEF WriteError, Kill, TypeOK
<1>5. CASE \/ \E r \in Requests : Begin(w, r) \/ RejectBundle(w, r)
           \/ Acquire(w) \/ FindLocked(w) \/ CheckRequest(w) \/ PlanIndex(w)
           \/ LinkPublication(w) \/ LinkRun(w) \/ Release(w)
    BY <1>1, <1>5 DEF Begin, RejectBundle, Acquire, FindLocked, CheckRequest, PlanIndex,
        LinkPublication, LinkRun, Release, Between
<1>6. ASSUME NEW v \in Writers \ {w},
             \/ \E r \in Requests : Begin(v, r) \/ RejectBundle(v, r)
             \/ Step(v) \/ WriteError(v) \/ Kill(v)
      PROVE  Between(w)' /\ request'[w] = request[w]
    BY <1>1, <1>6 DEF Between, TypeOK, Begin, RejectBundle, Step, Acquire, FindLocked,
        CheckRequest, PlanIndex, CreateTemp, FillTemp, LinkRun, LinkPublication, RenameIndex,
        RemoveTemp, Release, WriteError, Kill
<1>7. CASE Recover \/ UNCHANGED vars
    BY <1>7 DEF Recover, vars, writerVars, Between
<1> QED BY <1>2, <1>3, <1>4, <1>5, <1>6, <1>7 DEF Next, Step

LEMMA StrandStep ==
    ASSUME IInv, CommandsInv, [Next]_vars
    PROVE  StrandInv'
<1> SUFFICES ASSUME errors' = 0, kills' = 0, NEW number \in Numbers, publications'[number] # None
             PROVE  \/ publications'[number].run \in Indexed'
                    \/ \E w \in Writers : /\ Between(w)'
                                          /\ request'[w].kind = "promote"
                                          /\ publications'[number] = Publication(w)'
    BY DEF StrandInv
<1>1. errors = 0 /\ kills = 0
    BY DEF Next, Step, Begin, RejectBundle, Acquire, FindLocked, CheckRequest, PlanIndex, CreateTemp,
        FillTemp, LinkRun, LinkPublication, RenameIndex, RemoveTemp, Release, WriteError, Kill,
        Recover, vars, faultVars, IInv, TypeOK
<1>2. CASE publications[number] # None
    <2>1. publications'[number] = publications[number] /\ Indexed \subseteq Indexed'
        BY <1>2, FilesGrow
    <2>2. CASE publications[number].run \in Indexed
        BY <2>1, <2>2
    <2>3. ASSUME NEW w \in Writers, Between(w), request[w].kind = "promote",
                 publications[number] = Publication(w)
          PROVE  \/ publications'[number].run \in Indexed'
                 \/ Between(w)' /\ request'[w].kind = "promote" /\ publications'[number] = Publication(w)'
        BY <2>1, <2>3, BetweenStep DEF Publication
    <2> QED BY <1>1, <1>2, <2>2, <2>3 DEF CommandsInv, StrandInv
<1>3. CASE publications[number] = None
    <2>1. PICK w \in Writers : LinkPublication(w)
        BY <1>3, FileSteps DEF Files, LinkRun, RenameIndex
    <2>2. /\ request[w].kind = "promote" /\ Number(w) \in Numbers
          /\ temp[w] = "complete" /\ ~failed[w]
        BY <2>1, WriterKeys, RequestFields
            DEF LinkPublication, IInv, WriterInv, CommandInv, CommandsInv, UnfailedInv
    <2>3. number = Number(w) /\ publications'[number] = Publication(w) /\ ~failed'[w]
        BY <1>3, <2>1, <2>2 DEF LinkPublication, Content, IInv, TypeOK
    <2>4. Between(w)' /\ UNCHANGED request
        BY <2>1, <2>3 DEF LinkPublication, Between, Goto, IInv, TypeOK
    <2> QED BY <2>2, <2>3, <2>4 DEF Publication
<1> QED BY <1>2, <1>3

(* What commands have done and will do, in every reachable state.          *)
THEOREM CommandsInvariance == Spec => [](IInv /\ CommandsInv)
<1>1. IInv /\ CommandsInv /\ [Next]_vars => CommandsInv'
    BY EffectStep, StrandStep, LockLeftStep DEF CommandsInv, IInv
<1>2. Spec => []CommandsInv
    BY CommandsInit, <1>1, Invariance, PTL DEF Spec
<1> QED BY <1>2, Invariance, PTL

(* A success that was reported is never undone by another command, an      *)
(* error or a kill.                                                        *)
THEOREM SuccessIsLasting == Spec => []SuccessLasts
<1>1. CommandsInv => SuccessLasts
    BY DEF CommandsInv, EffectInv, Effect, SuccessLasts
<1> QED BY <1>1, CommandsInvariance, PTL

(* Only a killed process leaves a lock: every error path releases it.      *)
THEOREM LockLeft == Spec => []LockLeftOnlyByKill
<1>1. CommandsInv => LockLeftOnlyByKill
    BY DEF CommandsInv
<1> QED BY <1>1, CommandsInvariance, PTL

(* Without interruptions every publication record is indexed, or is being  *)
(* indexed by the command that holds the lock.                             *)
THEOREM NothingStranded == Spec => []NoStrandedPublication
<1>1. ASSUME IInv, CommandsInv PROVE NoStrandedPublication
    <2> SUFFICES ASSUME errors = 0, kills = 0, NEW number \in Numbers, publications[number] # None
                 PROVE  \/ publications[number].run \in Indexed
                        \/ \E w \in Writers : /\ pc[w] \in Locked
                                              /\ request[w].kind = "promote"
                                              /\ Number(w) = number
        BY DEF NoStrandedPublication
    <2>1. publications[number].pullRequest.number = number
        BY <1>1 DEF IInv, PublicationsInv
    <2> QED BY <1>1, <2>1 DEF CommandsInv, StrandInv, Between, Locked, Number, Publication
<1> QED BY <1>1, CommandsInvariance, PTL

-----------------------------------------------------------------------------
(* Every command ends.                                                     *)

(* How many steps a command may still take.  A publication is followed by  *)
(* the index, unless its write has thrown.                                 *)
Left(label, file, part, thrown) ==
    LET more == IF file = "publication" /\ ~thrown THEN 5 ELSE 0 IN
    CASE label = "locking" -> 13
      [] label = "checking" -> 12
      [] label = "planning" -> 11
      [] label = "preparing" -> (IF part = "absent" THEN 5 ELSE 4) + more
      [] label = "installing" -> 3 + more
      [] label = "cleaning" -> 2 + more
      [] label = "unlocking" -> 1
      [] OTHER -> 0

Remaining(w) == Left(pc[w], target[w], temp[w], failed[w])

(* Only its own steps move a command, and they take it nearer to its end.  *)
CommandMovesOn(w) ==
    /\ pc[w] # "idle" => Remaining(w)' < Remaining(w) \/ UNCHANGED Locals(w)
    /\ Step(w) => Remaining(w)' < Remaining(w)

(* What the steps of a command ask for beside its place in the command     *)
(* holds for one of them wherever it is: it knows what it has to write,    *)
(* and has not begun to write it when it starts to.                        *)
NeverStuck(w) ==
    /\ pc[w] = "preparing" => temp[w] # "complete"
    /\ pc[w] = "installing" => IF request[w].kind = "store"
                               THEN target[w] = "run"
                               ELSE target[w] \in {"publication", "index"}
    /\ pc[w] \in {"checking", "planning"} => request[w].kind = "promote"

LEMMA LeftValues ==
    ASSUME NEW file, NEW part, NEW thrown
    PROVE  /\ Left("idle", file, part, thrown) = 0
           /\ Left("unlocking", file, part, thrown) = 1
           /\ Left("locking", file, part, thrown) = 13
           /\ Left("checking", file, part, thrown) = 12
           /\ Left("planning", file, part, thrown) = 11
           /\ Left("preparing", file, part, thrown) \in {4, 5, 9, 10}
           /\ Left("installing", file, part, thrown) \in {3, 8}
           /\ Left("cleaning", file, part, thrown) \in {2, 7}
           /\ ~(file = "publication" /\ ~thrown) =>
                /\ Left("cleaning", file, part, thrown) = 2
                /\ Left("installing", file, part, thrown) = 3
                /\ Left("preparing", file, part, thrown) = IF part = "absent" THEN 5 ELSE 4
           /\ file = "publication" /\ ~thrown =>
                /\ Left("cleaning", file, part, thrown) = 7
                /\ Left("installing", file, part, thrown) = 8
                /\ Left("preparing", file, part, thrown) = IF part = "absent" THEN 10 ELSE 9
<1> DEFINE more == IF file = "publication" /\ ~thrown THEN 5 ELSE 0
<1>1. /\ Left("idle", file, part, thrown) = 0
      /\ Left("unlocking", file, part, thrown) = 1
      /\ Left("locking", file, part, thrown) = 13
      /\ Left("checking", file, part, thrown) = 12
      /\ Left("planning", file, part, thrown) = 11
    BY DEF Left
<1>2. /\ Left("preparing", file, part, thrown) = (IF part = "absent" THEN 5 ELSE 4) + more
      /\ Left("installing", file, part, thrown) = 3 + more
      /\ Left("cleaning", file, part, thrown) = 2 + more
    BY DEF Left
<1>3. CASE file = "publication" /\ ~thrown
    BY <1>1, <1>2, <1>3
<1>4. CASE ~(file = "publication" /\ ~thrown)
    BY <1>1, <1>2, <1>4
<1> QED BY <1>3, <1>4

LEMMA StepMoves ==
    ASSUME IInv, CommandsInv, NEW w \in Writers, Step(w) \/ WriteError(w)
    PROVE  Remaining(w)' < Remaining(w)
<1>1. TypeOK /\ UnfailedInv(w)
    BY DEF IInv, CommandsInv
<1> USE DEF Remaining, Goto, TypeOK
<1>2. CASE Acquire(w)
    <2>1. Remaining(w) = 13
        BY <1>2, LeftValues DEF Acquire
    <2>2. pc'[w] = "preparing" \/ pc'[w] = "checking"
        BY <1>1, <1>2 DEF Acquire
    <2>3. Remaining(w)' \in {4, 5, 9, 10, 12}
        BY <2>2, LeftValues
    <2> QED BY <2>1, <2>3
<1>3. CASE FindLocked(w) \/ Release(w)
    <2>1. Remaining(w) \in {13, 1}
        BY <1>3, LeftValues DEF FindLocked, Release
    <2>2. pc'[w] = "idle"
        BY <1>1, <1>3 DEF FindLocked, Release, Finish
    <2>3. Remaining(w)' = 0
        BY <2>2, LeftValues
    <2> QED BY <2>1, <2>3
<1>4. CASE CheckRequest(w)
    <2>1. Remaining(w) = 12
        BY <1>4, LeftValues DEF CheckRequest
    <2>2. pc'[w] = "planning" \/ pc'[w] = "unlocking"
        BY <1>1, <1>4 DEF CheckRequest
    <2>3. Remaining(w)' \in {11, 1}
        BY <2>2, LeftValues
    <2> QED BY <2>1, <2>3
<1>5. CASE PlanIndex(w)
    <2>1. Remaining(w) = 11
        BY <1>5, LeftValues DEF PlanIndex
    <2>2. pc'[w] = "preparing" \/ pc'[w] = "unlocking"
        BY <1>1, <1>5 DEF PlanIndex
    <2>3. Remaining(w)' \in {4, 5, 9, 10, 1}
        BY <2>2, LeftValues
    <2> QED BY <2>1, <2>3
<1>6. CASE CreateTemp(w)
    <2>1. /\ pc[w] = "preparing" /\ temp[w] = "absent"
          /\ pc'[w] = "preparing" /\ temp'[w] = "partial"
          /\ target'[w] = target[w] /\ failed'[w] = failed[w]
        BY <1>1, <1>6 DEF CreateTemp
    <2> QED BY <2>1, LeftValues
<1>7. CASE FillTemp(w)
    <2>1. /\ pc[w] = "preparing" /\ temp[w] = "partial" /\ pc'[w] = "installing"
          /\ target'[w] = target[w] /\ failed'[w] = failed[w]
        BY <1>1, <1>7 DEF FillTemp
    <2> QED BY <2>1, LeftValues
<1>8. CASE LinkRun(w) \/ LinkPublication(w) \/ RenameIndex(w)
    <2>1. /\ pc[w] = "installing" /\ pc'[w] = "cleaning" /\ target'[w] = target[w]
        BY <1>1, <1>8 DEF LinkRun, LinkPublication, RenameIndex
    <2>2. ~failed[w]
        BY <1>1, <2>1 DEF UnfailedInv
    <2> QED BY <2>1, <2>2, LeftValues
<1>9. CASE RemoveTemp(w)
    <2>1. pc[w] = "cleaning"
        BY <1>9 DEF RemoveTemp
    <2>2. CASE target[w] = "publication" /\ ~failed[w]
        <3>1. pc'[w] = "preparing" /\ target'[w] = "index" /\ temp'[w] = "absent"
            BY <1>1, <1>9, <2>2 DEF RemoveTemp
        <3>2. Remaining(w)' = 5
            BY <3>1, LeftValues
        <3>3. Remaining(w) = 7
            BY <2>1, <2>2, LeftValues
        <3> QED BY <3>2, <3>3
    <2>3. CASE ~(target[w] = "publication" /\ ~failed[w])
        <3>1. pc'[w] = "unlocking"
            BY <1>1, <1>9, <2>3 DEF RemoveTemp
        <3> QED BY <2>1, <3>1, LeftValues
    <2> QED BY <2>2, <2>3
<1>10. CASE WriteError(w)
    <2>1. pc[w] \in {"preparing", "installing"} /\ pc'[w] = "cleaning" /\ failed'[w]
        BY <1>1, <1>10 DEF WriteError
    <2>2. Remaining(w)' = 2
        <3>1. Left("cleaning", target'[w], temp'[w], failed'[w]) = 2
            BY <2>1 DEF Left
        <3> QED BY <2>1, <3>1
    <2>3. Remaining(w) \in {3, 4, 5, 8, 9, 10}
        BY <2>1, LeftValues
    <2> QED BY <2>2, <2>3
<1> QED BY <1>2, <1>3, <1>4, <1>5, <1>6, <1>7, <1>8, <1>9, <1>10 DEF Step

LEMMA OthersMove ==
    ASSUME TypeOK, NEW w \in Writers, NEW v \in Writers \ {w},
           \/ \E r \in Requests : Begin(v, r) \/ RejectBundle(v, r)
           \/ Step(v) \/ WriteError(v) \/ Kill(v)
    PROVE  UNCHANGED Locals(w)
<1> USE DEF Locals, Goto, TypeOK
<1>1. CASE \E r \in Requests : Begin(v, r) \/ RejectBundle(v, r)
    BY <1>1 DEF Begin, RejectBundle, Finish
<1>2. CASE Acquire(v) \/ FindLocked(v) \/ CheckRequest(v) \/ PlanIndex(v)
    BY <1>2 DEF Acquire, FindLocked, CheckRequest, PlanIndex, Finish
<1>3. CASE CreateTemp(v) \/ FillTemp(v) \/ RemoveTemp(v) \/ Release(v)
    BY <1>3 DEF CreateTemp, FillTemp, RemoveTemp, Release, Finish
<1>4. CASE LinkRun(v) \/ LinkPublication(v) \/ RenameIndex(v)
    BY <1>4 DEF LinkRun, LinkPublication, RenameIndex
<1>5. CASE WriteError(v) \/ Kill(v)
    BY <1>5 DEF WriteError, Kill, Finish
<1> QED BY <1>1, <1>2, <1>3, <1>4, <1>5 DEF Step

(* A command ends after at most thirteen steps of its own, whatever the    *)
(* other commands do, and whichever of its file operations throws: it      *)
(* never waits for the lock and tries nothing again.                       *)
THEOREM CommandsMoveOn == Spec => [][\A w \in Writers : CommandMovesOn(w)]_vars
<1>1. ASSUME IInv, CommandsInv, [Next]_vars, NEW w \in Writers PROVE CommandMovesOn(w)
    <2>1. CASE Step(w) \/ WriteError(w)
        BY <1>1, <2>1, StepMoves DEF CommandMovesOn
    <2>2. ASSUME ~Step(w), pc[w] # "idle", ~WriteError(w)
          PROVE  Remaining(w)' < Remaining(w) \/ UNCHANGED Locals(w)
        <3>1. CASE \E r \in Requests : Begin(w, r) \/ RejectBundle(w, r)
            BY <2>2, <3>1 DEF Begin, RejectBundle
        <3>2. CASE Kill(w)
            <4>1. pc'[w] = "idle"
                BY <1>1, <3>2 DEF Kill, Finish, Goto, IInv, TypeOK
            <4>2. Remaining(w)' = 0
                BY <4>1, LeftValues DEF Remaining
            <4>3. pc[w] \in {"locking", "checking", "planning", "preparing", "installing",
                             "cleaning", "unlocking"}
                BY <1>1, <2>2 DEF IInv, TypeOK, Locked
            <4>4. Remaining(w) \in 1 .. 13
                BY <4>3, LeftValues DEF Remaining
            <4> QED BY <4>2, <4>4
        <3>3. ASSUME NEW v \in Writers \ {w},
                     \/ \E r \in Requests : Begin(v, r) \/ RejectBundle(v, r)
                     \/ Step(v) \/ WriteError(v) \/ Kill(v)
              PROVE  UNCHANGED Locals(w)
            BY <1>1, <3>3, OthersMove DEF IInv
        <3>4. CASE Recover \/ UNCHANGED vars
            BY <3>4 DEF Recover, vars, writerVars, Locals
        <3> QED BY <1>1, <2>2, <3>1, <3>2, <3>3, <3>4 DEF Next
    <2> QED BY <2>1, <2>2 DEF CommandMovesOn
<1>2. IInv /\ CommandsInv /\ [Next]_vars => \A w \in Writers : CommandMovesOn(w)
    BY <1>1
<1> QED BY <1>2, CommandsInvariance, PTL DEF Spec

(* A command that has not begun to write a file has no temporary file.     *)
TempInv(w) ==
    /\ pc[w] \in {"idle", "locking", "checking", "planning"} => temp[w] = "absent"
    /\ pc[w] = "preparing" => temp[w] # "complete"

LEMMA TempStep ==
    ASSUME TypeOK, NEW w \in Writers, TempInv(w), [Next]_vars
    PROVE  TempInv(w)'
<1> USE DEF TempInv, Goto, TypeOK
<1>1. CASE \E r \in Requests : Begin(w, r) \/ RejectBundle(w, r)
    BY <1>1 DEF Begin, RejectBundle, Finish
<1>2. CASE Acquire(w) \/ CheckRequest(w) \/ PlanIndex(w)
    BY <1>2 DEF Acquire, CheckRequest, PlanIndex
<1>3. CASE FindLocked(w) \/ Release(w) \/ Kill(w)
    BY <1>3 DEF FindLocked, Release, Kill, Finish
<1>4. CASE CreateTemp(w) \/ FillTemp(w) \/ RemoveTemp(w)
    BY <1>4 DEF CreateTemp, FillTemp, RemoveTemp
<1>5. CASE LinkRun(w) \/ LinkPublication(w) \/ RenameIndex(w) \/ WriteError(w)
    BY <1>5 DEF LinkRun, LinkPublication, RenameIndex, WriteError
<1>6. ASSUME NEW v \in Writers \ {w},
             \/ \E r \in Requests : Begin(v, r) \/ RejectBundle(v, r)
             \/ Step(v) \/ WriteError(v) \/ Kill(v)
      PROVE  TempInv(w)'
    BY <1>6, OthersMove DEF Locals
<1>7. CASE Recover \/ UNCHANGED vars
    BY <1>7 DEF Recover, vars, writerVars
<1> QED BY <1>1, <1>2, <1>3, <1>4, <1>5, <1>6, <1>7 DEF Next, Step

LEMMA StepApplies ==
    ASSUME IInv, NEW w \in Writers, TempInv(w)
    PROVE  NeverStuck(w)
<1>1. CASE pc[w] = "idle"
    BY <1>1 DEF NeverStuck
<1>2. CASE pc[w] # "idle"
    <2>1. /\ CommandInv(w)
          /\ request[w].kind \in {"store", "promote"}
          /\ target[w] \in {"run", "publication", "index"}
        BY <1>2, WriterKeys, RequestFields DEF IInv, WriterInv, TypeOK, Targets
    <2> QED BY <2>1 DEF CommandInv, TempInv, NeverStuck
<1> QED BY <1>1, <1>2

(* No command stops on its way, with or without errors before it: what is  *)
(* left of it always begins with a step that applies.                      *)
THEOREM CommandsNeverStuck == Spec => [](\A w \in Writers : NeverStuck(w))
<1> DEFINE Ready == \A w \in Writers : TempInv(w)
<1>1. Init => Ready
    BY DEF Init, TempInv
<1>2. IInv /\ Ready /\ [Next]_vars => Ready'
    BY TempStep DEF IInv
<1>3. IInv /\ Ready => \A w \in Writers : NeverStuck(w)
    BY StepApplies
<1> QED BY <1>1, <1>2, <1>3, Invariance, PTL DEF Spec

=============================================================================
