-------------------------- MODULE SandboxPool_proofs --------------------------
(***************************************************************************)
(* Proofs about SandboxPool for every set of requests and pool size.       *)
(***************************************************************************)
EXTENDS SandboxPool, FiniteSetTheorems, TLAPS

(* Where each strategy's loop may be ...                                   *)
LoopInv(w) ==
    /\ pc[w] = "creating" => mode = "new"
    /\ pc[w] = "opening" => mode # "new"
    /\ pc[w] = "preloading" => mode = "reuse"
    /\ pc[w] \in {"loading", "closing"} => mode # "reuse"
    /\ pc[w] \in Serving \ {"receiving"} => job[w] \in Requests

(* ... the state of the context there ...                                  *)
ContextInv(w) ==
    /\ pc[w] \in {"loading", "preloading"} => context[w] = "unloaded"
    /\ pc[w] \in {"handling", "responding", "closing"} => context[w] = "loaded"
    /\ pc[w] \in {"announcing", "receiving"} =>
        /\ mode = "reload" => context[w] = "unloaded"
        /\ mode = "reuse" => context[w] = "loaded"

(* ... and when the guest is clean: for the handlers whose load does not   *)
(* rebuild it, from the end of one request to the next.                    *)
CleanInv(w) ==
    /\ mode # "reuse" /\ pc[w] = "handling" => touched[w] = {}
    /\ mode = "new" /\ pc[w] = "loading" => touched[w] = {}
    /\ mode = "reload" /\ pc[w] \in {"announcing", "receiving", "loading"} => touched[w] = {}

ReadyInv ==
    /\ \A w \in ready : pc[w] \in Serving
    /\ stage = "serving" => ready = Workers

IInv ==
    /\ TypeOK
    /\ \A w \in Workers : LoopInv(w) /\ ContextInv(w) /\ CleanInv(w)
    /\ ReadyInv
    /\ Isolation
    /\ LifecycleNeverPanics

LEMMA InvInit == Init => IInv
<1> SUFFICES ASSUME Init PROVE IInv
    OBVIOUS
<1>1. TypeOK
    <2>1. 0 \in 0 .. CounterSize - 1
        BY PoolAssumption DEF PoolAssumption
    <2> QED BY <2>1 DEF Init, TypeOK, Startup, Serving
<1> QED BY <1>1 DEF Init, IInv, LoopInv, ContextInv, CleanInv, ReadyInv, Isolation,
        LifecycleNeverPanics, Serving

LEMMA TypeStep == IInv /\ [Next]_vars => TypeOK'
<1> SUFFICES ASSUME IInv, [Next]_vars PROVE TypeOK'
    OBVIOUS
<1> USE DEF TypeOK, Startup, Serving, Goto, EndProcess, SetContext, mainVars, setup, clientVars,
        ctxVars, ghosts
<1>1. TypeOK
    BY DEF IInv
<1>2. ASSUME NEW w \in Workers, WorkerStep(w) PROVE TypeOK'
    <2>1. CASE Prepare(w)   BY <1>1, <2>1 DEF Prepare
    <2>2. CASE Open(w)      BY <1>1, <2>2 DEF Open, NewContext
    <2>3. CASE Preload(w)
        <3>1. CASE LoadAllowed(w)
            <4>1. touched' \in [Workers -> SUBSET Requests]
                BY <1>1, <2>3, <3>1 DEF Preload, Load
            <4>2. context' \in [Workers -> {"absent", "unloaded", "loaded"}]
                BY <1>1, <2>3, <3>1 DEF Preload, Load
            <4> QED BY <1>1, <2>3, <3>1, <4>1, <4>2 DEF Preload
        <3>2. CASE ~LoadAllowed(w)
            BY <1>1, <2>3, <3>2 DEF Preload
        <3> QED BY <3>1, <3>2
    <2>4. CASE Announce(w)  BY <1>1, <2>4 DEF Announce
    <2>5. CASE Receive(w)
        <3>1. Head(queue[w]) \in Requests /\ Tail(queue[w]) \in Seq(Requests)
            BY <1>1, <2>5 DEF Receive
        <3> QED BY <1>1, <2>5, <3>1 DEF Receive, Strategies
    <2>6. CASE Create(w)    BY <1>1, <2>6 DEF Create, NewContext
    <2>7. CASE LoadForJob(w) BY <1>1, <2>7, ZenonT(30) DEF LoadForJob, Load
    <2>8. CASE Handle(w)
        <3>1. job[w] \in Requests
            BY <2>8 DEF Handle, IInv, LoopInv
        <3>2. CASE context[w] = "loaded"
            <4>1. /\ seen' = [seen EXCEPT ![job[w]] = touched[w]]
                  /\ computed' = [computed EXCEPT ![job[w]] = computed[job[w]] + 1]
                  /\ touched' = [touched EXCEPT ![w] = touched[w] \cup {job[w]}]
                BY <2>8, <3>2 DEF Handle
            <4>2. computed' \in [Requests -> Nat]
                BY <1>1, <3>1, <4>1
            <4>3. seen' \in [Requests -> SUBSET Requests] /\ touched' \in [Workers -> SUBSET Requests]
                BY <1>1, <3>1, <4>1
            <4> QED BY <1>1, <2>8, <3>2, <4>2, <4>3 DEF Handle
        <3>3. CASE context[w] # "loaded"
            BY <1>1, <2>8, <3>3 DEF Handle
        <3> QED BY <3>2, <3>3
    <2>9. CASE Respond(w)
        <3>1. job[w] \in Requests
            BY <2>9 DEF Respond, IInv, LoopInv
        <3> QED BY <1>1, <2>9, <3>1 DEF Respond
    <2>10. CASE Close(w)
        <3>1. context' \in [Workers -> {"absent", "unloaded", "loaded"}]
            BY <1>1, <2>10 DEF Close, Unload
        <3>2. touched' \in [Workers -> SUBSET Requests]
            BY <1>1, <2>10 DEF Close, Unload
        <3> QED BY <1>1, <2>10, <3>1, <3>2 DEF Close
    <2> QED BY <1>2, <2>1, <2>2, <2>3, <2>4, <2>5, <2>6, <2>7, <2>8, <2>9, <2>10 DEF WorkerStep
<1>3. ASSUME NEW w \in Workers, StartupPanics(w) \/ GuestFails(w) PROVE TypeOK'
    BY <1>1, <1>3 DEF StartupPanics, GuestFails
<1>4. ASSUME NEW r \in Requests, Dispatch(r) \/ Submit(r) \/ Answer(r) \/ Cancel(r) PROVE TypeOK'
    <2>1. CASE Dispatch(r)
        <3>1. counter % PoolSize \in Workers /\ (counter + 1) % CounterSize \in 0 .. CounterSize - 1
            BY <1>1, PoolAssumption DEF PoolAssumption, Workers
        <3> QED BY <1>1, <2>1, <3>1 DEF Dispatch
    <2>2. CASE Submit(r)
        <3>1. \A w \in Workers : Append(queue[w], r) \in Seq(Requests)
            BY <1>1, <1>4
        <3>2. queue' \in [Workers -> Seq(Requests)]
            BY <1>1, <2>2, <3>1 DEF Submit
        <3>3. client' \in [Requests -> {"new", "dispatching", "waiting", "answered", "cancelled"}]
            BY <1>1, <2>2 DEF Submit
        <3> QED BY <1>1, <2>2, <3>2, <3>3 DEF Submit
    <2>3. CASE Answer(r)    BY <1>1, <2>3 DEF Answer
    <2>4. CASE Cancel(r)    BY <1>1, <2>4 DEF Cancel
    <2> QED BY <1>4, <2>1, <2>2, <2>3, <2>4
<1>5. CASE StartServing \/ StartupTimeout \/ ListenerFails \/ MainReturns \/ Shutdown
    BY <1>1, <1>5 DEF StartServing, StartupTimeout, ListenerFails, MainReturns, Shutdown
<1>6. CASE UNCHANGED vars
    BY <1>1, <1>6 DEF vars
<1> QED BY <1>2, <1>3, <1>4, <1>5, <1>6 DEF Next

(* A worker's part of the invariant is about its own variables.            *)
LocalInv(w) == LoopInv(w) /\ ContextInv(w) /\ CleanInv(w)
Locals(w) == <<pc[w], job[w], context[w], touched[w], mode>>

LEMMA LocalKept ==
    ASSUME NEW w \in Workers, LocalInv(w), Locals(w)' = Locals(w)
    PROVE  LocalInv(w)'
BY DEF LocalInv, LoopInv, ContextInv, CleanInv, Locals

LEMMA OwnStep ==
    ASSUME IInv, NEW w \in Workers, WorkerStep(w)
    PROVE  LocalInv(w)' /\ exit' # "lifecycle"
<1> USE DEF LocalInv, LoopInv, ContextInv, CleanInv, LifecycleNeverPanics, TypeOK, IInv, Goto,
        EndProcess, SetContext, Serving, Startup, Strategies, Handlers, setup, mainVars, ctxVars, Up
<1>1. CASE Prepare(w)    BY <1>1 DEF Prepare
<1>2. CASE Open(w)       BY <1>2 DEF Open, NewContext
<1>3. CASE Preload(w)
    <2>1. LoadAllowed(w)
        BY <1>3 DEF Preload, LoadAllowed
    <2> QED BY <1>3, <2>1 DEF Preload, Load
<1>4. CASE Announce(w)   BY <1>4 DEF Announce
<1>5. CASE Receive(w)
    <2>1. Head(queue[w]) \in Requests
        BY <1>5 DEF Receive
    <2> QED BY <1>5, <2>1 DEF Receive
<1>6. CASE Create(w)     BY <1>6 DEF Create, NewContext
<1>7. CASE LoadForJob(w)
    <2>1. LoadAllowed(w)
        BY <1>7 DEF LoadForJob, LoadAllowed
    <2> QED BY <1>7, <2>1 DEF LoadForJob, Load
<1>8. CASE Handle(w)     BY <1>8 DEF Handle
<1>9. CASE Respond(w)    BY <1>9 DEF Respond
<1>10. CASE Close(w)     BY <1>10 DEF Close, Unload, UnloadAllowed
<1> QED BY <1>1, <1>2, <1>3, <1>4, <1>5, <1>6, <1>7, <1>8, <1>9, <1>10 DEF WorkerStep

LEMMA LocalStep == IInv /\ [Next]_vars => (\A w \in Workers : LocalInv(w)') /\ LifecycleNeverPanics'
<1> SUFFICES ASSUME IInv, [Next]_vars
             PROVE  (\A w \in Workers : LocalInv(w)') /\ LifecycleNeverPanics'
    OBVIOUS
<1>1. ASSUME NEW w \in Workers, WorkerStep(w)
      PROVE  (\A v \in Workers : LocalInv(v)') /\ LifecycleNeverPanics'
    <2>1. ASSUME NEW v \in Workers \ {w} PROVE Locals(v)' = Locals(v)
        BY <1>1 DEF WorkerStep, Prepare, Open, NewContext, Preload, Load, Announce, Receive, Create,
            LoadForJob, Handle, Respond, Close, Unload, SetContext, Goto, Locals, IInv, TypeOK,
            setup, ctxVars
    <2> QED BY <1>1, <2>1, OwnStep, LocalKept DEF IInv, LocalInv, LifecycleNeverPanics
<1>2. CASE \/ \E w \in Workers : StartupPanics(w) \/ GuestFails(w)
           \/ \E r \in Requests : Dispatch(r) \/ Submit(r) \/ Answer(r) \/ Cancel(r)
           \/ StartServing \/ StartupTimeout \/ ListenerFails \/ MainReturns \/ Shutdown
           \/ UNCHANGED vars
    <2>1. /\ \A v \in Workers : Locals(v)' = Locals(v)
          /\ exit' # "lifecycle"
        BY <1>2 DEF StartupPanics, GuestFails, Dispatch, Submit, Answer, Cancel, StartServing,
            StartupTimeout, ListenerFails, MainReturns, Shutdown, vars, EndProcess, Locals, IInv,
            LifecycleNeverPanics, setup,
            ctxVars, mainVars, Up
    <2> QED BY <2>1, LocalKept DEF IInv, LocalInv, LifecycleNeverPanics
<1> QED BY <1>1, <1>2 DEF Next

(* Workers never go back to starting up, and main waits for all of them.   *)
LEMMA ReadyStep == IInv /\ [Next]_vars => ReadyInv'
<1> SUFFICES ASSUME IInv, [Next]_vars PROVE ReadyInv'
    OBVIOUS
<1> USE DEF IInv, TypeOK, ReadyInv, Startup, Serving, Goto, EndProcess, mainVars
<1>1. ASSUME NEW w \in Workers, WorkerStep(w) PROVE ReadyInv'
    BY <1>1, ZenonT(30) DEF WorkerStep, Prepare, Open, Preload, Announce, Receive, Create,
        LoadForJob, Handle,
        Respond, Close, Strategies
<1>2. ASSUME NEW w \in Workers, StartupPanics(w) \/ GuestFails(w) PROVE ReadyInv'
    BY <1>2 DEF StartupPanics, GuestFails
<1>3. ASSUME NEW r \in Requests, Dispatch(r) \/ Submit(r) \/ Answer(r) \/ Cancel(r) PROVE ReadyInv'
    BY <1>3 DEF Dispatch, Submit, Answer, Cancel
<1>4. CASE StartServing \/ StartupTimeout \/ ListenerFails \/ MainReturns \/ Shutdown
         \/ UNCHANGED vars
    BY <1>4 DEF StartServing, StartupTimeout, ListenerFails, MainReturns, Shutdown, vars
<1> QED BY <1>1, <1>2, <1>3, <1>4 DEF Next

(* Only handle_request records what a guest contained.                     *)
LEMMA IsolationStep == IInv /\ [Next]_vars => Isolation'
<1> SUFFICES ASSUME IInv, [Next]_vars PROVE Isolation'
    OBVIOUS
<1>1. ASSUME NEW w \in Workers, Handle(w) PROVE Isolation'
    BY <1>1 DEF Handle, Isolation, IInv, TypeOK, CleanInv, LoopInv, setup, ghosts
<1>2. (\A w \in Workers : ~Handle(w)) => UNCHANGED <<seen, mode>>
    BY DEF Next, WorkerStep, Prepare, Open, Preload, Announce, Receive, Create, LoadForJob,
        Respond, Close, StartupPanics, GuestFails, Dispatch, Submit, Answer, Cancel, StartServing,
        StartupTimeout, ListenerFails, MainReturns, Shutdown, vars, setup, ghosts
<1> QED BY <1>1, <1>2 DEF Isolation, IInv

(* Every reachable state satisfies the inductive invariant.                *)
THEOREM Invariance == Spec => []IInv
<1>1. IInv /\ [Next]_vars => IInv'
    BY TypeStep, LocalStep, ReadyStep, IsolationStep DEF IInv, LocalInv
<1> QED BY InvInit, <1>1, PTL DEF Spec

(* Restore and Renew isolate requests, for any number of workers and       *)
(* requests and both kinds of handler.                                     *)
THEOREM RequestsIsolated == Spec => []Isolation
<1>1. IInv => Isolation
    BY DEF IInv
<1> QED BY <1>1, Invariance, PTL

(* No strategy drives a handler into a state it refuses.                   *)
THEOREM LifecycleSafe == Spec => []LifecycleNeverPanics
<1>1. IInv => LifecycleNeverPanics
    BY DEF IInv
<1> QED BY <1>1, Invariance, PTL

(* An open listener has a full pool of prepared workers behind it.         *)
THEOREM ReadyBeforeServing == Spec => []ServingMeansReady
<1>1. IInv => ServingMeansReady
    BY DEF IInv, ReadyInv, ContextInv, LoopInv, ServingMeansReady, TypeOK, Serving, Startup,
        Strategies
<1> QED BY <1>1, Invariance, PTL

-----------------------------------------------------------------------------
(* Jobs.  A request is held by one worker, once, until it has been         *)
(* answered; it is computed there, and only there.                         *)
Queued(w) == {queue[w][i] : i \in 1 .. Len(queue[w])}
Holds(w) == {job[w]} \cup Queued(w)

JobInv(w) ==
    /\ pc[w] \in Startup \cup {"receiving"} => job[w] = None
    /\ pc[w] \in {"creating", "loading", "handling"} => computed[job[w]] = 0
    /\ pc[w] \in {"responding", "closing"} => computed[job[w]] = 1

QueueInv(w) ==
    /\ job[w] \notin Queued(w)
    /\ \A i, j \in 1 .. Len(queue[w]) : queue[w][i] = queue[w][j] => i = j
    /\ \A r \in Queued(w) : computed[r] = 0

HeldOnce ==
    \A r \in Requests : \A v, w \in Workers : r \in Holds(v) /\ r \in Holds(w) => v = w

RequestInv(r) ==
    /\ client[r] \in {"new", "dispatching"} =>
            computed[r] = 0 /\ \A w \in Workers : r \notin Holds(w)
    /\ client[r] = "dispatching" => choice[r] \in Workers
    /\ client[r] = "waiting" /\ computed[r] = 0 => \E w \in Workers : r \in Holds(w)
    /\ r \in sent => computed[r] = 1
    /\ computed[r] \in {0, 1}

JobsInv ==
    /\ \A w \in Workers : JobInv(w) /\ QueueInv(w)
    /\ HeldOnce
    /\ \A r \in Requests : RequestInv(r)

LEMMA JobsInit == Init => JobsInv
<1> SUFFICES ASSUME Init PROVE JobsInv
    OBVIOUS
<1>1. \A w \in Workers : 1 .. Len(queue[w]) = {} /\ Queued(w) = {} /\ Holds(w) = {None}
    BY DEF Init, Queued, Holds
<1>2. None \notin Requests
    BY PoolAssumption DEF PoolAssumption
<1> QED BY <1>1, <1>2 DEF Init, JobsInv, JobInv, QueueInv, HeldOnce, RequestInv, Startup

(* Steps that move no job and no client.                                   *)
LEMMA QuietStep ==
    ASSUME JobsInv, UNCHANGED <<client, choice, queue, job, sent, computed>>,
           \A w \in Workers :
               \/ pc'[w] = pc[w]
               \/ pc[w] \in Startup /\ pc'[w] \in Startup \cup {"receiving"}
               \/ {pc[w], pc'[w]} \subseteq {"creating", "loading", "handling"}
    PROVE  JobsInv'
<1>1. \A w \in Workers : Queued(w)' = Queued(w) /\ Holds(w)' = Holds(w)
    BY DEF Queued, Holds
<1>2. ASSUME NEW w \in Workers PROVE JobInv(w)' /\ QueueInv(w)'
    BY <1>1 DEF JobsInv, JobInv, QueueInv, Startup
<1>3. HeldOnce'
    BY <1>1 DEF JobsInv, HeldOnce
<1>4. \A r \in Requests : RequestInv(r)'
    BY <1>1 DEF JobsInv, RequestInv
<1> QED BY <1>2, <1>3, <1>4 DEF JobsInv

(* Steps of a client's task.                                               *)
LEMMA SubmitStep ==
    ASSUME TypeOK, JobsInv, NEW r \in Requests, Submit(r)
    PROVE  JobsInv'
<1>1. /\ choice[r] \in Workers /\ client[r] = "dispatching" /\ computed[r] = 0
      /\ \A w \in Workers : r \notin Holds(w)
    BY DEF JobsInv, RequestInv, Submit
<1> PICK c \in Workers : c = choice[r]
    BY <1>1
<1>2. /\ queue' = [queue EXCEPT ![c] = Append(queue[c], r)]
      /\ client' = [client EXCEPT ![r] = "waiting"]
      /\ UNCHANGED <<choice, pc, job, sent, computed>>
    BY DEF Submit, ghosts
<1>3. queue[c] \in Seq(Requests) /\ Len(queue[c]) \in Nat
    BY <1>1 DEF TypeOK
<1>4. /\ Len(queue'[c]) = Len(queue[c]) + 1
      /\ \A i \in 1 .. Len(queue[c]) : queue'[c][i] = queue[c][i]
      /\ queue'[c][Len(queue[c]) + 1] = r
    BY <1>1, <1>2, <1>3 DEF TypeOK
<1>5. Queued(c)' = Queued(c) \cup {r}
    <2>1. 1 .. Len(queue'[c]) = (1 .. Len(queue[c])) \cup {Len(queue[c]) + 1}
        BY <1>3, <1>4
    <2>2. Queued(c)' = {queue'[c][i] : i \in (1 .. Len(queue[c])) \cup {Len(queue[c]) + 1}}
        BY <2>1 DEF Queued
    <2>3. Queued(c)' = {queue'[c][i] : i \in 1 .. Len(queue[c])} \cup {r}
        BY <1>4, <2>2
    <2>4. {queue'[c][i] : i \in 1 .. Len(queue[c])} = {queue[c][i] : i \in 1 .. Len(queue[c])}
        BY <1>4
    <2> QED BY <2>3, <2>4 DEF Queued
<1>6. \A w \in Workers \ {c} : queue'[w] = queue[w] /\ Queued(w)' = Queued(w) /\ Holds(w)' = Holds(w)
    BY <1>2 DEF TypeOK, Queued, Holds
<1>7. Holds(c)' = Holds(c) \cup {r}
    BY <1>2, <1>5 DEF Holds
<1>8. ASSUME NEW w \in Workers PROVE JobInv(w)' /\ QueueInv(w)'
    <2>1. JobInv(w)'
        BY <1>2 DEF JobsInv, JobInv
    <2>2. CASE w # c
        BY <1>2, <1>6, <2>1, <2>2 DEF JobsInv, QueueInv
    <2>3. CASE w = c
        <3>1. job'[c] \notin Queued(c)'
            BY <1>1, <1>2, <1>5 DEF JobsInv, QueueInv, Holds
        <3>2. \A q \in Queued(c)' : computed'[q] = 0
            BY <1>1, <1>2, <1>5 DEF JobsInv, QueueInv
        <3>3. \A i, j \in 1 .. Len(queue'[c]) : queue'[c][i] = queue'[c][j] => i = j
            <4>1. \A i \in 1 .. Len(queue[c]) : queue[c][i] # r
                BY <1>1 DEF Holds, Queued
            <4>2. \A i, j \in 1 .. Len(queue[c]) : queue[c][i] = queue[c][j] => i = j
                BY <1>1 DEF JobsInv, QueueInv
            <4>3. \A i \in 1 .. Len(queue'[c]) : i \in 1 .. Len(queue[c]) \/ i = Len(queue[c]) + 1
                BY <1>3, <1>4
            <4> SUFFICES ASSUME NEW i \in 1 .. Len(queue'[c]), NEW j \in 1 .. Len(queue'[c]),
                                queue'[c][i] = queue'[c][j]
                         PROVE  i = j
                OBVIOUS
            <4>4. CASE i \in 1 .. Len(queue[c]) /\ j \in 1 .. Len(queue[c])
                BY <1>4, <4>2, <4>4
            <4>5. CASE i \notin 1 .. Len(queue[c]) \/ j \notin 1 .. Len(queue[c])
                <5>1. queue'[c][i] = r /\ queue'[c][j] = r
                    BY <1>4, <4>3, <4>5
                <5>2. i \notin 1 .. Len(queue[c]) /\ j \notin 1 .. Len(queue[c])
                    BY <1>4, <4>1, <5>1
                <5> QED BY <4>3, <5>2
            <4> QED BY <4>4, <4>5
        <3> QED BY <2>1, <2>3, <3>1, <3>2, <3>3 DEF QueueInv
    <2> QED BY <2>2, <2>3
<1>9. HeldOnce'
    BY <1>1, <1>6, <1>7 DEF JobsInv, HeldOnce
<1>10. ASSUME NEW q \in Requests PROVE RequestInv(q)'
    <2>1. CASE q = r
        <3>1. client'[r] = "waiting" /\ r \in Holds(c)'
            BY <1>2, <1>7 DEF TypeOK
        <3> QED BY <1>1, <1>2, <2>1, <3>1 DEF JobsInv, RequestInv
    <2>2. CASE q # r
        <3>1. \A w \in Workers : q \in Holds(w)' <=> q \in Holds(w)
            BY <1>6, <1>7, <2>2
        <3> QED BY <1>2, <2>2, <3>1 DEF JobsInv, RequestInv
    <2> QED BY <2>1, <2>2
<1> QED BY <1>8, <1>9, <1>10 DEF JobsInv

LEMMA ClientStep ==
    ASSUME TypeOK, JobsInv, NEW r \in Requests, Dispatch(r) \/ Answer(r) \/ Cancel(r)
    PROVE  JobsInv'
<1>1. /\ UNCHANGED <<queue, pc, job, sent, computed>>
      /\ \A q \in Requests \ {r} : client'[q] = client[q] /\ choice'[q] = choice[q]
    BY DEF Dispatch, Answer, Cancel, TypeOK, ghosts
<1>2. \/ client[r] = "new" /\ client'[r] = "dispatching" /\ choice'[r] \in Workers
      \/ client[r] = "waiting" /\ client'[r] \in {"answered", "cancelled"}
    <2>1. CASE Dispatch(r)
        <3>1. counter % PoolSize \in Workers
            BY PoolAssumption DEF PoolAssumption, Workers, TypeOK
        <3> QED BY <2>1, <3>1 DEF Dispatch, TypeOK
    <2>2. CASE Answer(r) \/ Cancel(r)
        BY <2>2 DEF Answer, Cancel, TypeOK
    <2> QED BY <2>1, <2>2
<1>3. \A w \in Workers : Queued(w)' = Queued(w) /\ Holds(w)' = Holds(w)
    BY <1>1 DEF Queued, Holds
<1>4. \A w \in Workers : JobInv(w)' /\ QueueInv(w)'
    BY <1>1, <1>3 DEF JobsInv, JobInv, QueueInv
<1>5. HeldOnce'
    BY <1>3 DEF JobsInv, HeldOnce
<1>6. ASSUME NEW q \in Requests PROVE RequestInv(q)'
    BY <1>1, <1>2, <1>3 DEF JobsInv, RequestInv
<1> QED BY <1>4, <1>5, <1>6 DEF JobsInv

(* A worker takes the job at the head of its queue ...                     *)
LEMMA ReceiveStep ==
    ASSUME TypeOK, JobsInv, NEW w \in Workers, Receive(w)
    PROVE  JobsInv'
<1> DEFINE r == Head(queue[w])
<1>1. /\ queue[w] \in Seq(Requests) /\ queue[w] # <<>> /\ Len(queue[w]) \in Nat \ {0}
      /\ r = queue[w][1] /\ r \in Requests /\ r # None
    BY PoolAssumption DEF Receive, TypeOK, PoolAssumption
<1>2. /\ job' = [job EXCEPT ![w] = r]
      /\ queue' = [queue EXCEPT ![w] = Tail(queue[w])]
      /\ UNCHANGED <<client, choice, sent, computed>>
    BY DEF Receive, clientVars, ghosts
<1>3. /\ Len(queue'[w]) = Len(queue[w]) - 1
      /\ \A i \in 1 .. Len(queue'[w]) : queue'[w][i] = queue[w][i + 1]
    BY <1>1, <1>2 DEF TypeOK
<1>4. \A i, j \in 1 .. Len(queue[w]) : queue[w][i] = queue[w][j] => i = j
    BY DEF JobsInv, QueueInv
<1>5. Queued(w) = Queued(w)' \cup {r} /\ r \notin Queued(w)'
    <2>1. \A i \in 1 .. Len(queue'[w]) : i + 1 \in 1 .. Len(queue[w]) /\ i + 1 # 1
        BY <1>1, <1>3
    <2>2. \A i \in 1 .. Len(queue[w]) : i = 1 \/ (i - 1 \in 1 .. Len(queue'[w]) /\ (i - 1) + 1 = i)
        BY <1>1, <1>3
    <2>3. 1 \in 1 .. Len(queue[w])
        BY <1>1
    <2>4. Queued(w) \subseteq Queued(w)' \cup {r}
        <3> SUFFICES ASSUME NEW i \in 1 .. Len(queue[w]), i # 1 PROVE queue[w][i] \in Queued(w)'
            BY <1>1 DEF Queued
        <3>1. i - 1 \in 1 .. Len(queue'[w]) /\ queue'[w][i - 1] = queue[w][i]
            BY <1>3, <2>2
        <3> QED BY <3>1 DEF Queued
    <2>5. Queued(w)' \cup {r} \subseteq Queued(w)
        <3>1. r \in Queued(w)
            BY <1>1, <2>3 DEF Queued
        <3>2. ASSUME NEW i \in 1 .. Len(queue'[w]) PROVE queue'[w][i] \in Queued(w)
            <4>1. i + 1 \in 1 .. Len(queue[w]) /\ queue'[w][i] = queue[w][i + 1]
                BY <1>3, <2>1, <3>2
            <4> QED BY <4>1 DEF Queued
        <3> QED BY <3>1, <3>2 DEF Queued
    <2>6. r \notin Queued(w)'
        BY <1>1, <1>3, <1>4, <2>1, <2>3 DEF Queued
    <2> QED BY <2>4, <2>5, <2>6
<1>6. pc[w] = "receiving" /\ job[w] = None /\ job'[w] = r
    BY <1>2 DEF Receive, JobsInv, JobInv, TypeOK
<1>7. pc'[w] \in {"creating", "loading", "handling"} /\ \A v \in Workers \ {w} : pc'[v] = pc[v]
    BY DEF Receive, Goto, TypeOK, Strategies
<1>8. \A v \in Workers \ {w} :
        /\ job'[v] = job[v] /\ queue'[v] = queue[v]
        /\ Queued(v)' = Queued(v) /\ Holds(v)' = Holds(v)
    BY <1>2 DEF TypeOK, Queued, Holds
<1>9. \A q \in Requests : q \in Holds(w)' <=> q \in Holds(w)
    BY <1>5, <1>6, PoolAssumption DEF Holds, PoolAssumption
<1>10. computed[r] = 0
    BY <1>5 DEF JobsInv, QueueInv
<1>11. ASSUME NEW v \in Workers PROVE JobInv(v)' /\ QueueInv(v)'
    <2>1. CASE v # w
        BY <1>2, <1>7, <1>8, <2>1 DEF JobsInv, JobInv, QueueInv
    <2>2. CASE v = w
        <3>1. JobInv(w)'
            BY <1>2, <1>6, <1>7, <1>10 DEF JobInv, Startup
        <3>2. \A i, j \in 1 .. Len(queue'[w]) : queue'[w][i] = queue'[w][j] => i = j
            BY <1>1, <1>3, <1>4
        <3>3. \A q \in Queued(w)' : computed'[q] = 0
            BY <1>2, <1>5 DEF JobsInv, QueueInv
        <3> QED BY <1>5, <1>6, <2>2, <3>1, <3>2, <3>3 DEF QueueInv
    <2> QED BY <2>1, <2>2
<1>12. HeldOnce'
    BY <1>8, <1>9 DEF JobsInv, HeldOnce
<1>13. ASSUME NEW q \in Requests PROVE RequestInv(q)'
    <2>1. \A v \in Workers : q \in Holds(v)' <=> q \in Holds(v)
        BY <1>8, <1>9
    <2> QED BY <1>2, <2>1 DEF JobsInv, RequestInv
<1> QED BY <1>11, <1>12, <1>13 DEF JobsInv

(* ... runs it once: no other worker holds it ...                          *)
LEMMA HandleStep ==
    ASSUME IInv, JobsInv, NEW w \in Workers, Handle(w)
    PROVE  JobsInv' /\ (exit' = exit => computed' = [computed EXCEPT ![job[w]] = 1])
                    /\ computed[job[w]] = 0 /\ job[w] \in Requests
<1> DEFINE r == job[w]
<1>1. TypeOK /\ r \in Requests /\ r # None /\ context[w] = "loaded" /\ pc[w] = "handling"
    BY PoolAssumption DEF IInv, LoopInv, ContextInv, Handle, Serving, PoolAssumption
<1>2. computed[r] = 0
    BY <1>1 DEF JobsInv, JobInv
<1>3. /\ computed' = [computed EXCEPT ![r] = 1]
      /\ pc' = [pc EXCEPT ![w] = "responding"]
      /\ UNCHANGED <<client, choice, queue, job, sent>>
    BY <1>1, <1>2 DEF Handle, Goto, clientVars, TypeOK
<1>4. \A v \in Workers : Queued(v)' = Queued(v) /\ Holds(v)' = Holds(v)
    BY <1>3 DEF Queued, Holds
<1>5. \A v \in Workers \ {w} : r \notin Holds(v)
    BY <1>1 DEF JobsInv, HeldOnce, Holds
<1>6. ASSUME NEW v \in Workers PROVE JobInv(v)' /\ QueueInv(v)'
    <2>1. r \notin Queued(v)
        BY <1>1, <1>5 DEF JobsInv, QueueInv, Holds
    <2>2. \A q \in Queued(v) : q \in Requests
        BY <1>1 DEF Queued, TypeOK
    <2>3. QueueInv(v)'
        BY <1>1, <1>3, <1>4, <2>1, <2>2 DEF JobsInv, QueueInv, TypeOK
    <2>4. JobInv(v)'
        <3>1. CASE v = w
            BY <1>1, <1>3, <3>1 DEF JobInv, Startup, TypeOK
        <3>2. CASE v # w
            <4>1. pc'[v] = pc[v] /\ job'[v] # r
                BY <1>1, <1>3, <1>5, <3>2 DEF Holds, TypeOK
            <4>2. pc[v] \in Serving \ {"receiving"} => job[v] \in Requests
                BY DEF IInv, LoopInv
            <4> QED BY <1>1, <1>3, <4>1, <4>2 DEF JobsInv, JobInv, Serving, TypeOK
        <3> QED BY <3>1, <3>2
    <2> QED BY <2>3, <2>4
<1>7. HeldOnce'
    BY <1>4 DEF JobsInv, HeldOnce
<1>8. ASSUME NEW q \in Requests PROVE RequestInv(q)'
    <2>1. CASE q = r
        BY <1>1, <1>3, <1>4, <2>1 DEF JobsInv, RequestInv, Holds, TypeOK
    <2>2. CASE q # r
        BY <1>1, <1>3, <1>4, <2>2 DEF JobsInv, RequestInv, TypeOK
    <2> QED BY <2>1, <2>2
<1> QED BY <1>1, <1>2, <1>3, <1>6, <1>7, <1>8 DEF JobsInv

(* ... and lets it go after it was computed.                               *)
LEMMA LetGoStep ==
    ASSUME IInv, JobsInv, NEW w \in Workers, Respond(w) \/ Close(w)
    PROVE  JobsInv'
<1> DEFINE r == job[w]
<1>1. TypeOK /\ r \in Requests /\ pc[w] \in {"responding", "closing"} /\ computed[r] = 1
    BY DEF IInv, LoopInv, Respond, Close, Serving, JobsInv, JobInv
<1>2. /\ UNCHANGED <<client, choice, queue, computed>>
      /\ sent' \subseteq sent \cup {r}
      /\ \A v \in Workers \ {w} : pc'[v] = pc[v] /\ job'[v] = job[v]
      /\ \/ job'[w] = None /\ pc'[w] = "receiving"
         \/ job'[w] = r /\ pc'[w] \in {"responding", "closing"}
    BY <1>1 DEF Respond, Close, Goto, TypeOK, clientVars, ghosts
<1>3. None \notin Requests
    BY PoolAssumption DEF PoolAssumption
<1>4. \A v \in Workers : Queued(v)' = Queued(v)
    BY <1>2 DEF Queued
<1>5. \A v \in Workers \ {w} : Holds(v)' = Holds(v)
    BY <1>2, <1>4 DEF Holds
<1>6. \A q \in Requests : /\ q \in Holds(w)' => q \in Holds(w)
                          /\ q \in Holds(w) /\ q # r => q \in Holds(w)'
    BY <1>2, <1>3, <1>4 DEF Holds
<1>7. ASSUME NEW v \in Workers PROVE JobInv(v)' /\ QueueInv(v)'
    <2>1. CASE v # w
        BY <1>2, <1>4, <2>1 DEF JobsInv, JobInv, QueueInv
    <2>2. CASE v = w
        <3>1. None \notin Queued(w)
            BY <1>1, <1>3 DEF Queued, TypeOK
        <3> QED BY <1>1, <1>2, <1>4, <2>2, <3>1 DEF JobsInv, JobInv, QueueInv, Startup
    <2> QED BY <2>1, <2>2
<1>8. HeldOnce'
    BY <1>5, <1>6 DEF JobsInv, HeldOnce
<1>9. ASSUME NEW q \in Requests PROVE RequestInv(q)'
    <2>1. \A v \in Workers : q \in Holds(v)' => q \in Holds(v)
        BY <1>5, <1>6
    <2>2. q # r => \A v \in Workers : q \in Holds(v) => q \in Holds(v)'
        BY <1>5, <1>6
    <2> QED BY <1>1, <1>2, <2>1, <2>2 DEF JobsInv, RequestInv
<1> QED BY <1>7, <1>8, <1>9 DEF JobsInv

LEMMA JobsStep == IInv /\ JobsInv /\ [Next]_vars => JobsInv'
<1> SUFFICES ASSUME IInv, JobsInv, [Next]_vars PROVE JobsInv'
    OBVIOUS
<1>1. TypeOK
    BY DEF IInv
<1>2. ASSUME NEW w \in Workers,
             Prepare(w) \/ Open(w) \/ Preload(w) \/ Announce(w) \/ Create(w) \/ LoadForJob(w)
      PROVE  JobsInv'
    BY <1>1, <1>2, QuietStep DEF Prepare, Open, Preload, Announce, Create, LoadForJob, Goto,
        Startup,
        TypeOK, clientVars, ghosts
<1>3. CASE \/ \E w \in Workers : StartupPanics(w) \/ GuestFails(w)
           \/ StartServing \/ StartupTimeout \/ ListenerFails \/ MainReturns \/ Shutdown
           \/ UNCHANGED vars
    BY <1>3, QuietStep DEF StartupPanics, GuestFails, StartServing, StartupTimeout,
        ListenerFails, MainReturns, Shutdown, vars,
        clientVars, ghosts
<1>4. ASSUME NEW w \in Workers, Receive(w) \/ Handle(w) \/ Respond(w) \/ Close(w) PROVE JobsInv'
    BY <1>1, <1>4, ReceiveStep, HandleStep, LetGoStep
<1>5. ASSUME NEW r \in Requests, Dispatch(r) \/ Submit(r) \/ Answer(r) \/ Cancel(r) PROVE JobsInv'
    BY <1>1, <1>5, SubmitStep, ClientStep
<1> QED BY <1>2, <1>3, <1>4, <1>5 DEF Next, WorkerStep

(* The invariant of every state, with the places of the jobs.              *)
THEOREM JobsInvariance == Spec => [](IInv /\ JobsInv)
<1>1. Spec => []JobsInv
    BY JobsInit, JobsStep, Invariance, PTL DEF Spec
<1> QED BY <1>1, Invariance, PTL

(* Every accepted request is in exactly one worker's hands, or at exactly  *)
(* one position of exactly one queue, until it is computed.                *)
THEOREM JobsKept == Spec => []JobsNotLost
<1>1. ASSUME IInv, JobsInv PROVE JobsNotLost
    <2> SUFFICES ASSUME NEW r \in Requests, client[r] = "waiting", computed[r] = 0
                 PROVE  Cardinality(Places(r)) = 1
        BY DEF JobsNotLost
    <2>1. \A w \in Workers : queue[w] \in Seq(Requests) /\ Len(queue[w]) \in Nat
        BY <1>1 DEF IInv, TypeOK
    <2>2. \A w \in Workers : \A i \in 0 .. Len(queue[w]) : i = 0 \/ i \in 1 .. Len(queue[w])
        BY <2>1
    <2>3. \A w \in Workers : \A i \in 1 .. Len(queue[w]) : i # 0 /\ i \in 0 .. Len(queue[w])
        BY <2>1
    <2>4. \A w \in Workers : 0 \in 0 .. Len(queue[w])
        BY <2>1
    <2>5. ASSUME NEW v \in Workers, NEW i \in 0 .. Len(queue[v]), JobAt(v, i) = r
          PROVE  r \in Holds(v)
        BY <2>2, <2>5 DEF JobAt, Holds, Queued
    <2>6. ASSUME NEW v \in Workers, NEW i \in 0 .. Len(queue[v]), NEW j \in 0 .. Len(queue[v]),
                 JobAt(v, i) = r, JobAt(v, j) = r
          PROVE  i = j
        <3>1. QueueInv(v)
            BY <1>1 DEF JobsInv
        <3>2. CASE i = 0 /\ j # 0
            BY <2>2, <2>6, <3>1, <3>2 DEF JobAt, QueueInv, Queued
        <3>3. CASE i # 0 /\ j = 0
            BY <2>2, <2>6, <3>1, <3>3 DEF JobAt, QueueInv, Queued
        <3>4. CASE i # 0 /\ j # 0
            BY <2>2, <2>6, <3>1, <3>4 DEF JobAt, QueueInv
        <3> QED BY <3>2, <3>3, <3>4
    <2>7. PICK w \in Workers : r \in Holds(w)
        BY <1>1 DEF JobsInv, RequestInv
    <2>8. PICK k \in 0 .. Len(queue[w]) : JobAt(w, k) = r
        BY <2>3, <2>4, <2>7 DEF JobAt, Holds, Queued
    <2>9. \A v \in Workers : r \in Holds(v) => v = w
        BY <1>1, <2>7 DEF JobsInv, HeldOnce
    <2>10. Places(r) = {<<w, k>>}
        <3>1. ASSUME NEW p \in Places(r) PROVE p = <<w, k>>
            <4>1. PICK v \in Workers :
                        \E i \in 0 .. Len(queue[v]) : JobAt(v, i) = r /\ p = <<v, i>>
                BY <3>1 DEF Places
            <4> PICK i \in 0 .. Len(queue[v]) : JobAt(v, i) = r /\ p = <<v, i>>
                BY <4>1
            <4>2. v = w
                BY <2>5, <2>9, <4>1
            <4>3. i = k
                BY <2>6, <2>8, <4>1, <4>2
            <4> QED BY <4>1, <4>2, <4>3
        <3>2. <<w, k>> \in Places(r)
            BY <2>8 DEF Places
        <3> QED BY <3>1, <3>2
    <2> QED BY <2>10, FS_Singleton
<1> QED BY <1>1, JobsInvariance, PTL

(* The state of the pool is always well formed.                            *)
THEOREM TypeCorrect == Spec => []TypeOK
<1>1. IInv => TypeOK
    BY DEF IInv
<1> QED BY <1>1, Invariance, PTL

(* Clients see the abstract service: handling a job computes its request,  *)
(* which only its worker holds, and every other step is a client's or none.*)
LEMMA ServiceStep == IInv /\ JobsInv /\ [Next]_vars => [Service!Next]_Service!vars
<1> SUFFICES ASSUME IInv, JobsInv, [Next]_vars PROVE [Service!Next]_Service!vars
    OBVIOUS
<1> DEFINE accepted == {r \in Requests : client[r] \notin {"new", "dispatching"}}
           answered == {r \in Requests : client[r] = "answered"}
           left == {r \in Requests : client[r] = "cancelled"}
<1>1. TypeOK
    BY DEF IInv
<1>2. ASSUME NEW w \in Workers, Handle(w) PROVE Service!Next \/ UNCHANGED Service!vars
    <2>1. /\ job[w] \in Requests /\ computed[job[w]] = 0
          /\ exit' = exit => computed' = [computed EXCEPT ![job[w]] = 1]
        BY <1>2, HandleStep
    <2>2. context[w] = "loaded" /\ exit' = exit
        BY <1>2 DEF IInv, ContextInv, Handle, mainVars
    <2>3. job[w] \in accepted
        BY <2>1 DEF JobsInv, RequestInv, Holds
    <2>4. UNCHANGED client
        BY <1>2 DEF Handle, clientVars
    <2> QED BY <2>1, <2>2, <2>3, <2>4 DEF Service!Next, Service!Compute
<1>3. ASSUME NEW r \in Requests, Submit(r) PROVE Service!Next
    BY <1>1, <1>3 DEF Submit, TypeOK, ghosts, Service!Next, Service!Accept
<1>4. ASSUME NEW r \in Requests, Answer(r) PROVE Service!Next
    <2>1. computed[r] = 1
        BY <1>4 DEF Answer, JobsInv, RequestInv
    <2> QED BY <1>1, <1>4, <2>1 DEF Answer, TypeOK, ghosts, Service!Next, Service!Answer
<1>5. ASSUME NEW r \in Requests, Cancel(r) PROVE Service!Next
    <2>1. client[r] = "waiting" /\ client' = [client EXCEPT ![r] = "cancelled"] /\ UNCHANGED computed
        BY <1>5 DEF Cancel, ghosts
    <2>2. client'[r] = "cancelled" /\ \A q \in Requests \ {r} : client'[q] = client[q]
        BY <1>1, <2>1 DEF TypeOK
    <2>3. r \in accepted /\ r \notin answered
        BY <2>1
    <2>4. left' = left \cup {r} /\ UNCHANGED <<accepted, answered>>
        BY <2>1, <2>2
    <2> QED BY <2>1, <2>3, <2>4 DEF Service!Next, Service!Leave
<1>6. ASSUME NEW r \in Requests, Dispatch(r) PROVE UNCHANGED Service!vars
    BY <1>1, <1>6 DEF Dispatch, TypeOK, ghosts, Service!vars
<1>7. (UNCHANGED <<client, computed>>) => UNCHANGED Service!vars
    BY DEF Service!vars
<1>8. \/ \E w \in Workers : Handle(w)
      \/ \E r \in Requests : Dispatch(r) \/ Submit(r) \/ Answer(r) \/ Cancel(r)
      \/ UNCHANGED <<client, computed>>
    BY DEF Next, WorkerStep, Prepare, Open, Preload, Announce, Receive, Create, LoadForJob,
        Respond, Close, StartupPanics, GuestFails, StartServing, StartupTimeout, ListenerFails,
        MainReturns, Shutdown, vars,
        clientVars, ghosts
<1> QED BY <1>2, <1>3, <1>4, <1>5, <1>6, <1>7, <1>8

(* To its clients the pool is the abstract service, for any number of      *)
(* requests and workers: computed at most once, answered with what was     *)
(* computed, and only if the client has not left.                          *)
THEOREM Refinement == Spec => ImplementsRequestService
<1>1. Init => Service!Init
    BY DEF Init, Service!Init
<1> QED BY <1>1, ServiceStep, JobsInvariance, PTL DEF Spec, ImplementsRequestService, Service!Spec

-----------------------------------------------------------------------------
(* Answers.  What is left of an accepted request, until its response is in *)
(* its channel: a place in a queue, or a worker that will send it.         *)
AnswerComes(r) ==
    client[r] = "waiting" =>
        \/ r \in sent
        \/ \E w \in Workers :
            \/ r \in Queued(w)
            \/ job[w] = r /\ pc[w] \in {"creating", "loading", "handling", "responding"}

AnswerInv(r) ==
    client[r] = "waiting" /\ computed[r] = 1 =>
        r \in sent \/ \E w \in Workers : job[w] = r /\ pc[w] = "responding"

LEMMA AnswerStep ==
    ASSUME IInv, JobsInv, [Next]_vars, NEW r \in Requests, AnswerInv(r)
    PROVE  AnswerInv(r)'
<1> USE DEF AnswerInv, TypeOK, Goto
<1>1. TypeOK
    BY DEF IInv
<1>2. ASSUME NEW w \in Workers, Handle(w) PROVE AnswerInv(r)'
    <2>1. context[w] = "loaded" /\ job[w] \in Requests
        BY <1>2 DEF IInv, LoopInv, ContextInv, Handle, Serving
    <2>2. /\ pc[w] = "handling" /\ pc' = [pc EXCEPT ![w] = "responding"]
          /\ \A q \in Requests \ {job[w]} : computed'[q] = computed[q]
          /\ UNCHANGED <<client, job, sent>>
        BY <1>1, <1>2, <2>1 DEF Handle, clientVars
    <2>3. CASE r = job[w]
        BY <1>1, <2>2, <2>3
    <2>4. CASE r # job[w]
        BY <1>1, <2>2, <2>4
    <2> QED BY <2>3, <2>4
<1>3. ASSUME NEW w \in Workers, Respond(w) PROVE AnswerInv(r)'
    <2>1. /\ UNCHANGED <<client, computed>>
          /\ sent \subseteq sent'
          /\ client[job[w]] = "waiting" => job[w] \in sent'
          /\ \A v \in Workers \ {w} : pc'[v] = pc[v] /\ job'[v] = job[v]
        BY <1>1, <1>3 DEF Respond, clientVars, ghosts
    <2> QED BY <2>1
<1>4. ASSUME NEW w \in Workers,
             \/ Prepare(w) \/ Open(w) \/ Preload(w) \/ Announce(w) \/ Receive(w)
             \/ Create(w) \/ LoadForJob(w) \/ Close(w) \/ StartupPanics(w) \/ GuestFails(w)
      PROVE  AnswerInv(r)'
    <2>1. /\ UNCHANGED <<client, computed, sent>>
          /\ \A v \in Workers : pc[v] = "responding" => pc'[v] = pc[v] /\ job'[v] = job[v]
        BY <1>1, <1>4 DEF Prepare, Open, Preload, Announce, Receive, Create, LoadForJob, Close,
            StartupPanics, GuestFails, clientVars, ghosts
    <2> QED BY <2>1
<1>5. ASSUME NEW q \in Requests, Submit(q) PROVE AnswerInv(r)'
    <2>1. computed[q] = 0
        BY <1>5 DEF Submit, JobsInv, RequestInv
    <2> QED BY <1>1, <1>5, <2>1 DEF Submit, ghosts
<1>6. ASSUME NEW q \in Requests, Dispatch(q) \/ Answer(q) \/ Cancel(q) PROVE AnswerInv(r)'
    BY <1>1, <1>6 DEF Dispatch, Answer, Cancel, ghosts
<1>7. CASE StartServing \/ StartupTimeout \/ ListenerFails \/ MainReturns \/ Shutdown
         \/ UNCHANGED vars
    BY <1>7 DEF StartServing, StartupTimeout, ListenerFails, MainReturns, Shutdown, vars,
        clientVars, ghosts
<1> QED BY <1>2, <1>3, <1>4, <1>5, <1>6, <1>7 DEF Next, WorkerStep

(* No accepted request is left without an answer on its way, although      *)
(* clients leave and a worker resets its guest after it has responded.     *)
THEOREM AnswersCome == Spec => [](\A r \in Requests : AnswerComes(r))
<1> DEFINE Inv == \A r \in Requests : AnswerInv(r)
<1>1. Init => Inv
    BY DEF Init, AnswerInv
<1>2. IInv /\ JobsInv /\ Inv /\ [Next]_vars => Inv'
    BY AnswerStep
<1>3. ASSUME IInv, JobsInv, Inv, NEW r \in Requests PROVE AnswerComes(r)
    <2> SUFFICES ASSUME client[r] = "waiting", r \notin sent,
                        NEW w \in Workers, computed[r] = 0, r \in Holds(w), r \notin Queued(w)
                 PROVE  job[w] = r /\ pc[w] \in {"creating", "loading", "handling", "responding"}
        BY <1>3 DEF AnswerComes, AnswerInv, JobsInv, RequestInv
    <2>1. job[w] = r /\ r # None
        BY PoolAssumption DEF Holds, PoolAssumption
    <2>2. pc[w] \notin Startup \cup {"receiving", "closing"} /\ pc[w] \in Startup \cup Serving
        BY <1>3, <2>1 DEF JobsInv, JobInv, IInv, TypeOK
    <2> QED BY <2>1, <2>2 DEF Serving
<1>4. IInv /\ JobsInv /\ Inv => \A r \in Requests : AnswerComes(r)
    BY <1>3
<1> QED BY <1>1, <1>2, <1>4, JobsInvariance, PTL DEF Spec

(* How many steps a worker takes until it receives again.                  *)
ToGo(label) ==
    CASE label = "preparing" -> 9 [] label = "opening" -> 8 [] label = "preloading" -> 7
      [] label = "announcing" -> 6 [] label = "creating" -> 5 [] label = "loading" -> 4
      [] label = "handling" -> 3 [] label = "responding" -> 2 [] label = "closing" -> 1
      [] OTHER -> 0

(* A queued job keeps its place while its worker gets nearer to receiving  *)
(* again, by every step of its own, and then moves up by one.              *)
MovesUp(w, i) ==
    \/ /\ i <= Len(queue'[w]) /\ queue'[w][i] = queue[w][i]
       /\ pc'[w] = pc[w] \/ ToGo(pc'[w]) < ToGo(pc[w])
       /\ WorkerStep(w) => ToGo(pc'[w]) < ToGo(pc[w])
    \/ /\ pc[w] = "receiving" /\ ToGo(pc'[w]) <= 5
       /\ IF i = 1
          THEN job'[w] = queue[w][1]
          ELSE i - 1 <= Len(queue'[w]) /\ queue'[w][i - 1] = queue[w][i]

LEMMA OwnMoves ==
    ASSUME IInv, NEW w \in Workers, WorkerStep(w), ~Receive(w)
    PROVE  queue' = queue /\ ToGo(pc'[w]) < ToGo(pc[w])
<1>1. TypeOK /\ LoopInv(w) /\ exit' # "lifecycle"
    BY OwnStep DEF IInv
<1> USE DEF ToGo, Goto, TypeOK, EndProcess
<1>2. CASE Prepare(w) \/ Open(w) \/ Announce(w) \/ Create(w)
    BY <1>1, <1>2 DEF Prepare, Open, Announce, Create
<1>3. CASE Preload(w) \/ LoadForJob(w)
    BY <1>1, <1>3 DEF Preload, LoadForJob
<1>4. CASE Handle(w)
    BY <1>1, <1>4 DEF Handle
<1>5. CASE Respond(w)
    BY <1>1, <1>5 DEF Respond
<1>6. CASE Close(w)
    BY <1>1, <1>6 DEF Close
<1> QED BY <1>2, <1>3, <1>4, <1>5, <1>6 DEF WorkerStep

(* No request overtakes another one at its worker: each waits for at most  *)
(* the jobs that were queued before it.                                    *)
THEOREM NoOvertaking ==
    Spec => [][\A w \in Workers : \A i \in 1 .. Len(queue[w]) : MovesUp(w, i)]_vars
<1>1. ASSUME IInv, [Next]_vars, NEW w \in Workers, NEW i \in 1 .. Len(queue[w]) PROVE MovesUp(w, i)
    <2>1. /\ TypeOK /\ queue[w] \in Seq(Requests)
          /\ Len(queue[w]) \in Nat /\ i \in Nat /\ 1 <= i /\ i <= Len(queue[w])
        BY <1>1 DEF IInv, TypeOK
    <2>2. CASE WorkerStep(w) /\ ~Receive(w)
        BY <1>1, <2>1, <2>2, OwnMoves DEF MovesUp
    <2>3. CASE Receive(w)
        <3>1. /\ queue'[w] = Tail(queue[w]) /\ job'[w] = Head(queue[w])
              /\ pc[w] = "receiving" /\ pc'[w] \in {"creating", "loading", "handling"}
            BY <2>1, <2>3 DEF Receive, TypeOK, Goto, Strategies
        <3>2. ToGo(pc'[w]) <= 5
            BY <3>1 DEF ToGo
        <3>3. /\ Head(queue[w]) = queue[w][1]
              /\ Len(queue'[w]) = Len(queue[w]) - 1
              /\ \A k \in 1 .. Len(queue[w]) - 1 : queue'[w][k] = queue[w][k + 1]
            BY <2>1, <3>1
        <3>4. i # 1 => i - 1 <= Len(queue'[w]) /\ queue'[w][i - 1] = queue[w][i]
            BY <2>1, <3>3
        <3>5. i = 1 => job'[w] = queue[w][1]
            BY <3>1, <3>3
        <3> QED BY <3>1, <3>2, <3>4, <3>5 DEF MovesUp
    <2>4. CASE ~WorkerStep(w)
        <3>1. ASSUME NEW r \in Requests, Submit(r)
              PROVE  i <= Len(queue'[w]) /\ queue'[w][i] = queue[w][i] /\ pc'[w] = pc[w]
            <4>1. queue'[w] = queue[w] \/ queue'[w] = Append(queue[w], r)
                BY <2>1, <3>1 DEF Submit, TypeOK
            <4>2. /\ Len(Append(queue[w], r)) = Len(queue[w]) + 1
                  /\ Append(queue[w], r)[i] = queue[w][i]
                BY <2>1
            <4>3. i <= Len(queue'[w]) /\ queue'[w][i] = queue[w][i]
                BY <2>1, <4>1, <4>2
            <4> QED BY <3>1, <4>3 DEF Submit
        <3>2. ASSUME NEW v \in Workers \ {w}, WorkerStep(v)
              PROVE  queue'[w] = queue[w] /\ pc'[w] = pc[w]
            BY <2>1, <3>2 DEF WorkerStep, Prepare, Open, Preload, Announce, Receive, Create,
                LoadForJob, Handle, Respond, Close, Goto, TypeOK
        <3>3. ASSUME \/ \E v \in Workers : StartupPanics(v) \/ GuestFails(v)
                     \/ \E r \in Requests : Dispatch(r) \/ Answer(r) \/ Cancel(r)
                     \/ StartServing \/ StartupTimeout \/ ListenerFails \/ MainReturns
                     \/ Shutdown \/ UNCHANGED vars
              PROVE  queue'[w] = queue[w] /\ pc'[w] = pc[w]
            BY <3>3 DEF StartupPanics, GuestFails, Dispatch, Answer, Cancel, StartServing,
                StartupTimeout, ListenerFails, MainReturns, Shutdown, vars
        <3>4. i <= Len(queue'[w]) /\ queue'[w][i] = queue[w][i] /\ pc'[w] = pc[w]
            BY <1>1, <2>1, <2>4, <3>1, <3>2, <3>3 DEF Next
        <3> QED BY <2>4, <3>4 DEF MovesUp
    <2> QED BY <2>2, <2>3, <2>4 DEF WorkerStep
<1>2. IInv /\ [Next]_vars => \A w \in Workers : \A i \in 1 .. Len(queue[w]) : MovesUp(w, i)
    BY <1>1
<1> QED BY <1>2, Invariance, PTL DEF Spec

(* No worker goes to its jobs without having reported.                     *)
ReportsFirst == \A w \in Workers : w \in ready \/ pc[w] \in Startup

(* While a worker has not reported it is on its way to do so, and nothing  *)
(* in the process sets it back: the start waits for at most four steps of  *)
(* each worker.                                                            *)
StartsUp(w) ==
    w \notin ready =>
        /\ pc'[w] = pc[w] \/ ToGo(pc'[w]) < ToGo(pc[w])
        /\ WorkerStep(w) => ToGo(pc'[w]) < ToGo(pc[w])

(* Whoever has not reported is still starting and gets nearer to its       *)
(* report with every step: the start never waits for a worker that is      *)
(* already waiting for jobs.                                               *)
THEOREM StartupGoesOn == Spec => []ReportsFirst /\ [][\A w \in Workers : StartsUp(w)]_vars
<1>1. Init => ReportsFirst
    BY DEF Init, ReportsFirst, Startup
<1>2. ASSUME IInv, ReportsFirst, Next, NEW w \in Workers
      PROVE  /\ w \in ready' \/ pc'[w] \in Startup
             /\ StartsUp(w)
    <2>1. TypeOK /\ LoopInv(w)
        BY <1>2 DEF IInv
    <2>2. CASE WorkerStep(w) /\ w \notin ready
        <3>1. pc[w] \in Startup
            BY <1>2, <2>2 DEF ReportsFirst
        <3>2. ~Receive(w) /\ ~Create(w) /\ ~LoadForJob(w) /\ ~Handle(w) /\ ~Respond(w) /\ ~Close(w)
            BY <3>1 DEF Startup, Receive, Create, LoadForJob, Handle, Respond, Close
        <3>3. ToGo(pc'[w]) < ToGo(pc[w])
            BY <1>2, <2>2, <3>2, OwnMoves
        <3>4. ASSUME Prepare(w) \/ Open(w) \/ Preload(w) PROVE pc'[w] \in Startup
            BY <2>1, <3>4 DEF Prepare, Open, Preload, Goto, TypeOK, Startup
        <3>5. ASSUME Announce(w) PROVE w \in ready'
            BY <3>5 DEF Announce
        <3>6. w \in ready' \/ pc'[w] \in Startup
            BY <2>2, <3>2, <3>4, <3>5 DEF WorkerStep
        <3> QED BY <3>3, <3>6 DEF StartsUp
    <2>3. CASE WorkerStep(w) /\ w \in ready
        <3>1. w \in ready'
            BY <2>3 DEF WorkerStep, Prepare, Open, Preload, Announce, Receive, Create,
                LoadForJob, Handle, Respond, Close, mainVars, EndProcess
        <3> QED BY <2>3, <3>1 DEF StartsUp
    <2>4. CASE ~WorkerStep(w)
        <3>1. ASSUME NEW v \in Workers \ {w}, WorkerStep(v)
              PROVE  pc'[w] = pc[w] /\ ready \subseteq ready'
            BY <2>1, <3>1 DEF WorkerStep, Prepare, Open, Preload, Announce, Receive, Create,
                LoadForJob, Handle, Respond, Close, Goto, TypeOK, mainVars, EndProcess
        <3>2. ASSUME \/ \E v \in Workers : StartupPanics(v) \/ GuestFails(v)
                     \/ \E r \in Requests : Dispatch(r) \/ Submit(r) \/ Answer(r) \/ Cancel(r)
                     \/ StartServing \/ StartupTimeout \/ ListenerFails \/ MainReturns \/ Shutdown
              PROVE  pc'[w] = pc[w] /\ ready \subseteq ready'
            BY <3>2 DEF StartupPanics, GuestFails, Dispatch, Submit, Answer, Cancel, StartServing,
                StartupTimeout, ListenerFails, MainReturns, Shutdown, EndProcess, mainVars
        <3>3. pc'[w] = pc[w] /\ ready \subseteq ready'
            BY <1>2, <2>4, <3>1, <3>2 DEF Next
        <3> QED BY <1>2, <2>4, <3>3 DEF ReportsFirst, StartsUp
    <2> QED BY <2>2, <2>3, <2>4
<1>3. IInv /\ ReportsFirst /\ [Next]_vars => ReportsFirst' /\ [\A w \in Workers : StartsUp(w)]_vars
    <2>1. CASE UNCHANGED vars
        BY <2>1 DEF vars, mainVars, ReportsFirst
    <2>2. ASSUME IInv, ReportsFirst, Next PROVE ReportsFirst' /\ \A w \in Workers : StartsUp(w)
        BY <1>2, <2>2 DEF ReportsFirst
    <2> QED BY <2>1, <2>2
<1> QED BY <1>1, <1>3, Invariance, PTL DEF Spec

-----------------------------------------------------------------------------
(* The spread.  Until the counter wraps it is the number of requests that  *)
(* were dispatched, and the next worker is the first with the fewest.      *)
Dispatched == {r \in Requests : choice[r] # PoolSize}
Given(w) == {r \in Requests : choice[r] = w}

Spread(k, p) == \A w \in Workers : Cardinality(Given(w)) = IF w < p THEN k + 1 ELSE k

EvenInv ==
    /\ \A r \in Requests : client[r] = "new" => choice[r] = PoolSize
    /\ IsFiniteSet(Dispatched)
    /\ Cardinality(Dispatched) < CounterSize => counter = Cardinality(Dispatched)
    /\ Cardinality(Dispatched) <= CounterSize =>
         \E k \in Nat, p \in Workers : Cardinality(Dispatched) = k * PoolSize + p /\ Spread(k, p)

LEMMA PoolFacts ==
    /\ PoolSize \in Nat \ {0} /\ CounterSize \in Nat \ {0}
    /\ 0 \in Workers /\ PoolSize \notin Workers
    /\ \A w \in Workers : w \in Nat /\ w < PoolSize
    /\ \A w \in Workers : w + 1 < PoolSize => w + 1 \in Workers
BY PoolAssumption DEF PoolAssumption, Workers

LEMMA Remainder ==
    ASSUME NEW n \in Nat \ {0}, NEW k \in Nat, NEW p \in 0 .. n - 1
    PROVE  (k * n + p) % n = p
OBVIOUS

LEMMA EvenInit == Init => EvenInv
<1> SUFFICES ASSUME Init PROVE EvenInv
    OBVIOUS
<1>1. Dispatched = {} /\ \A w \in Workers : Given(w) = {}
    BY PoolFacts DEF Init, Dispatched, Given
<1>2. IsFiniteSet({}) /\ Cardinality({}) = 0
    BY FS_EmptySet
<1>3. Spread(0, 0)
    BY <1>1, <1>2, PoolFacts DEF Spread
<1>4. 0 = 0 * PoolSize + 0
    BY PoolFacts
<1>5. \E k \in Nat, p \in Workers : Cardinality(Dispatched) = k * PoolSize + p /\ Spread(k, p)
    BY <1>1, <1>2, <1>3, <1>4, PoolFacts
<1> QED BY <1>1, <1>2, <1>5 DEF Init, EvenInv

LEMMA DispatchStep ==
    ASSUME TypeOK, EvenInv, NEW r \in Requests, Dispatch(r)
    PROVE  EvenInv'
<1>1. /\ choice[r] = PoolSize /\ counter \in Nat /\ counter % PoolSize \in Workers
      /\ choice' = [choice EXCEPT ![r] = counter % PoolSize]
      /\ counter' = (counter + 1) % CounterSize
      /\ client' = [client EXCEPT ![r] = "dispatching"]
    BY PoolFacts DEF Dispatch, EvenInv, TypeOK, Workers
<1>2. PICK v \in Workers : v = counter % PoolSize
    BY <1>1
<1>3. Dispatched' = Dispatched \cup {r} /\ r \notin Dispatched
    BY <1>1, <1>2, PoolFacts DEF Dispatched, TypeOK
<1>4. /\ IsFiniteSet(Dispatched) /\ Cardinality(Dispatched) \in Nat
      /\ IsFiniteSet(Dispatched') /\ Cardinality(Dispatched') = Cardinality(Dispatched) + 1
    BY <1>3, FS_AddElement, FS_CardinalityType DEF EvenInv
<1>5. \A q \in Requests : client'[q] = "new" => choice'[q] = PoolSize
    BY <1>1 DEF EvenInv, TypeOK
<1>6. ASSUME Cardinality(Dispatched') < CounterSize PROVE counter' = Cardinality(Dispatched')
    <2>1. counter + 1 \in 0 .. CounterSize - 1 /\ counter = Cardinality(Dispatched)
        BY <1>1, <1>4, <1>6, PoolFacts DEF EvenInv
    <2>2. (0 * CounterSize + (counter + 1)) % CounterSize = counter + 1
        BY <2>1, Remainder, PoolFacts
    <2> QED BY <1>1, <1>4, <2>1, <2>2, PoolFacts
<1>7. ASSUME Cardinality(Dispatched') <= CounterSize
      PROVE  \E k \in Nat, p \in Workers :
                Cardinality(Dispatched') = k * PoolSize + p /\ Spread(k, p)'
    <2>1. counter = Cardinality(Dispatched)
        BY <1>4, <1>7, PoolFacts DEF EvenInv
    <2>2. PICK k \in Nat, p \in Workers : counter = k * PoolSize + p /\ Spread(k, p)
        <3>1. Cardinality(Dispatched) <= CounterSize
            BY <1>4, <1>7, PoolFacts
        <3>2. \E k \in Nat, p \in Workers : Cardinality(Dispatched) = k * PoolSize + p /\ Spread(k, p)
            BY <3>1 DEF EvenInv
        <3> QED BY <2>1, <3>2
    <2>3. p = v
        BY <1>2, <2>2, Remainder, PoolFacts DEF Workers
    <2>4. Given(v)' = Given(v) \cup {r} /\ r \notin Given(v)
        BY <1>1, <1>2, PoolFacts DEF Given, TypeOK
    <2>5. IsFiniteSet(Given(v))
        <3>1. Given(v) \subseteq Dispatched
            BY PoolFacts DEF Given, Dispatched
        <3> QED BY <1>4, <3>1, FS_Subset
    <2>6. Cardinality(Given(v)') = Cardinality(Given(v)) + 1
        BY <2>4, <2>5, FS_AddElement
    <2>7. Cardinality(Given(v)') = k + 1
        BY <2>2, <2>3, <2>6, PoolFacts DEF Spread
    <2>8. \A w \in Workers \ {v} : Given(w)' = Given(w)
        BY <1>1, <1>2, PoolFacts DEF Given, TypeOK
    <2>9. \A w \in Workers : Cardinality(Given(w)') = IF w < p + 1 THEN k + 1 ELSE k
        BY <2>2, <2>3, <2>7, <2>8, PoolFacts DEF Spread
    <2>10. CASE p + 1 < PoolSize
        <3>1. p + 1 \in Workers /\ Cardinality(Dispatched') = k * PoolSize + (p + 1)
            BY <1>4, <2>1, <2>2, <2>10, PoolFacts
        <3>2. Spread(k, p + 1)'
            BY <2>9 DEF Spread
        <3> QED BY <3>1, <3>2
    <2>11. CASE p + 1 = PoolSize
        <3>1. Cardinality(Dispatched') = (k + 1) * PoolSize + 0
            BY <1>4, <2>1, <2>2, <2>11, PoolFacts
        <3>2. Spread(k + 1, 0)'
            BY <2>9, <2>11, PoolFacts DEF Spread
        <3> QED BY <3>1, <3>2, PoolFacts
    <2> QED BY <2>10, <2>11, PoolFacts
<1> QED BY <1>4, <1>5, <1>6, <1>7 DEF EvenInv

LEMMA EvenStep == IInv /\ EvenInv /\ [Next]_vars => EvenInv'
<1> SUFFICES ASSUME IInv, EvenInv, [Next]_vars PROVE EvenInv'
    OBVIOUS
<1>1. ASSUME UNCHANGED <<choice, counter>>, \A q \in Requests : client'[q] = "new" => client[q] = "new"
      PROVE  EvenInv'
    BY <1>1 DEF EvenInv, Dispatched, Spread, Given
<1>2. ASSUME NEW r \in Requests, Submit(r) \/ Answer(r) \/ Cancel(r) PROVE EvenInv'
    BY <1>1, <1>2 DEF Submit, Answer, Cancel, IInv, TypeOK
<1>3. \/ \E r \in Requests : Dispatch(r) \/ Submit(r) \/ Answer(r) \/ Cancel(r)
      \/ UNCHANGED clientVars
    BY DEF Next, WorkerStep, Prepare, Open, Preload, Announce, Receive, Create, LoadForJob, Handle,
        Respond, Close, StartupPanics, GuestFails, StartServing, StartupTimeout, ListenerFails,
        MainReturns, Shutdown, vars
<1> QED BY <1>1, <1>2, <1>3, DispatchStep DEF IInv, clientVars

(* Requests are spread evenly over the workers until the counter wraps,    *)
(* for any number of workers.                                              *)
THEOREM EvenUntilWrap ==
    Spec => [](Cardinality(Dispatched) <= CounterSize => EvenDispatch)
<1>1. EvenInv => (Cardinality(Dispatched) <= CounterSize => EvenDispatch)
    BY PoolFacts DEF EvenInv, EvenDispatch, Assigned, Given, Spread
<1>2. Spec => []EvenInv
    BY EvenInit, EvenStep, Invariance, PTL DEF Spec
<1> QED BY <1>1, <1>2, PTL

=============================================================================
