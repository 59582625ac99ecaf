----------------------------- MODULE SandboxPool -----------------------------
(***************************************************************************)
(* crates/server/src/main.rs: the pool of sandbox worker threads, from its *)
(* start to the answers of HTTP requests, in the three reuse strategies.   *)
(* A worker step is one statement of worker_new, worker_reload or          *)
(* worker_reuse; the handlers (crates/server/src/handlers) differ in which *)
(* lifecycle calls rebuild the guest's state and which they refuse.  Guest *)
(* state is the set of requests that ran in it.                            *)
(***************************************************************************)
EXTENDS Naturals, Sequences, FiniteSets

CONSTANTS Requests,     \* HTTP requests, each sent once
          PoolSize,     \* number of workers, numbered from 0
          CounterSize,  \* values of the dispatch counter (2^64)
          None          \* no request

ASSUME PoolAssumption ==
    /\ PoolSize \in Nat \ {0}
    /\ CounterSize \in Nat \ {0}
    /\ None \notin Requests

Workers == 0 .. PoolSize - 1

(* --strategy, and how a handler keeps guest state:                        *)
(*   module    hyperlight-wasm, hyperlight-js, wasmtime: load builds the   *)
(*             guest, unload removes it; the checks are hyperlight-wasm's, *)
(*             the others refuse a part of what it refuses                 *)
(*   snapshot  hyperlight-dummy: the sandbox is built with the context,    *)
(*             load does nothing, unload restores its snapshot             *)
Strategies == {"new", "reload", "reuse"}
Handlers == {"module", "snapshot"}

VARIABLES
    mode,      \* the strategy of this server
    handler,   \* the handler of this server
    exit,      \* why the process has ended
    stage,     \* main: starting the pool, serving, or returned with an error
    ready,     \* workers whose readiness main can receive
    counter,   \* SandboxPool.counter
    client,    \* progress of each request's HTTP task
    choice,    \* the worker each request was dispatched to
    queue,     \* each worker's job channel
    pc,        \* what each worker does next
    job,       \* the job each worker is on
    context,   \* whether the worker's context is absent, unloaded or loaded
    touched,   \* requests that ran in the context's guest state
    sent,      \* requests whose response channel has a result
    seen,      \* what each request found in its guest state
    computed   \* how often each request ran

setup == <<mode, handler>>
mainVars == <<exit, stage, ready>>
clientVars == <<counter, client, choice>>
ctxVars == <<context, touched>>
ghosts == <<seen, computed>>
vars == <<setup, mainVars, clientVars, queue, pc, job, ctxVars, sent, ghosts>>

Up == exit = "no"

Startup == {"preparing", "opening", "preloading", "announcing"}
Serving == {"receiving", "creating", "loading", "handling", "responding", "closing"}

TypeOK ==
    /\ mode \in Strategies
    /\ handler \in Handlers
    /\ exit \in {"no", "startup", "guest", "lifecycle", "listener", "shutdown"}
    /\ stage \in {"starting", "serving", "returned"}
    /\ ready \subseteq Workers
    /\ counter \in 0 .. CounterSize - 1
    /\ client \in [Requests -> {"new", "dispatching", "waiting", "answered", "cancelled"}]
    /\ choice \in [Requests -> Workers \cup {PoolSize}]
    /\ queue \in [Workers -> Seq(Requests)]
    /\ pc \in [Workers -> Startup \cup Serving]
    /\ job \in [Workers -> Requests \cup {None}]
    /\ context \in [Workers -> {"absent", "unloaded", "loaded"}]
    /\ touched \in [Workers -> SUBSET Requests]
    /\ sent \subseteq Requests
    /\ seen \in [Requests -> SUBSET Requests]
    /\ computed \in [Requests -> Nat]

Init ==
    /\ mode \in Strategies
    /\ handler \in Handlers
    /\ exit = "no"
    /\ stage = "starting"
    /\ ready = {}
    /\ counter = 0
    /\ client = [r \in Requests |-> "new"]
    /\ choice = [r \in Requests |-> PoolSize]
    /\ queue = [w \in Workers |-> <<>>]
    /\ pc = [w \in Workers |-> "preparing"]
    /\ job = [w \in Workers |-> None]
    /\ context = [w \in Workers |-> "absent"]
    /\ touched = [w \in Workers |-> {}]
    /\ sent = {}
    /\ seen = [r \in Requests |-> {}]
    /\ computed = [r \in Requests |-> 0]

Goto(w, label) == pc' = [pc EXCEPT ![w] = label]

-----------------------------------------------------------------------------
(* Handler calls, as operations on the worker's context.                   *)

SetContext(w, state, guest) ==
    /\ context' = [context EXCEPT ![w] = state]
    /\ touched' = [touched EXCEPT ![w] = guest]

NewContext(w) == SetContext(w, "unloaded", {})

LoadAllowed(w) == handler = "module" => context[w] = "unloaded"
Load(w) == SetContext(w, "loaded", IF handler = "module" THEN {} ELSE touched[w])

\* Mutant: the snapshot is not restored.
UnloadKeeps(w) == SetContext(w, "unloaded", touched[w])

UnloadAllowed(w) == mode = "reload" /\ context[w] = "loaded"
Unload(w) == SetContext(w, "unloaded", {})

\* The process ends: a worker's catch_unwind exits with code 1, main panics or
\* has returned its error, or the shutdown handler exits with code 0.
EndProcess(reason) == exit' = reason /\ UNCHANGED <<stage, ready>>

-----------------------------------------------------------------------------
(* Startup.                                                                *)

(* prepare_worker reads the guest's files.                                 *)
Prepare(w) ==
    /\ Up
    /\ pc[w] = "preparing"
    /\ Goto(w, IF mode = "new" THEN "announcing" ELSE "opening")
    /\ UNCHANGED <<setup, mainVars, clientVars, queue, job, ctxVars, sent, ghosts>>

\* Mutant: readiness is announced before the guest is loaded.
OpenOnly(w) ==
    /\ Up
    /\ pc[w] = "opening"
    /\ NewContext(w)
    /\ Goto(w, "announcing")
    /\ UNCHANGED <<setup, mainVars, clientVars, queue, job, sent, ghosts>>

Open(w) ==
    /\ Up
    /\ pc[w] = "opening"
    /\ NewContext(w)
    /\ Goto(w, IF mode = "reuse" THEN "preloading" ELSE "announcing")
    /\ UNCHANGED <<setup, mainVars, clientVars, queue, job, sent, ghosts>>

Preload(w) ==
    /\ Up
    /\ pc[w] = "preloading"
    /\ IF LoadAllowed(w)
       THEN Load(w) /\ Goto(w, "announcing") /\ UNCHANGED mainVars
       ELSE EndProcess("lifecycle") /\ UNCHANGED <<pc, ctxVars>>
    /\ UNCHANGED <<setup, clientVars, queue, job, sent, ghosts>>

Announce(w) ==
    /\ Up
    /\ pc[w] = "announcing"
    /\ ready' = ready \cup {w}
    /\ Goto(w, "receiving")
    /\ UNCHANGED <<setup, exit, stage, clientVars, queue, job, ctxVars, sent, ghosts>>

StartupPanics(w) ==
    /\ Up
    /\ pc[w] \in {"preparing", "opening", "preloading"}
    /\ EndProcess("startup")
    /\ UNCHANGED <<setup, clientVars, queue, pc, job, ctxVars, sent, ghosts>>

(* SandboxPool::start returns when a readiness message of every worker has *)
(* arrived, and the listener opens; main panics after 120 seconds.         *)
StartServing ==
    /\ Up
    /\ stage = "starting"
    /\ ready = Workers
    /\ stage' = "serving"
    /\ UNCHANGED <<setup, exit, ready, clientVars, queue, pc, job, ctxVars, sent, ghosts>>

\* Mutant: recv without a timeout, which fails only when no sender is left.
StartupWaits ==
    /\ Up
    /\ stage = "starting"
    /\ ready # Workers
    /\ \A w \in Workers \ ready : pc[w] \notin Startup
    /\ EndProcess("startup")
    /\ UNCHANGED <<setup, clientVars, queue, pc, job, ctxVars, sent, ghosts>>

StartupTimeout ==
    /\ Up
    /\ stage = "starting"
    /\ ready # Workers
    /\ EndProcess("startup")
    /\ UNCHANGED <<setup, clientVars, queue, pc, job, ctxVars, sent, ghosts>>

(* bind, local_addr or accept fails: main returns, and the Tokio runtime is*)
(* dropped.  That drops the requests' tasks at their awaits (Cancel) and   *)
(* waits for the thread that reads stdin, without a bound.  The handler of *)
(* the shutdown command is gone, so the process then ends with an error.   *)
ListenerFails ==
    /\ Up
    /\ ready = Workers
    /\ stage # "returned"
    /\ stage' = "returned"
    /\ UNCHANGED <<setup, exit, ready, clientVars, queue, pc, job, ctxVars, sent, ghosts>>

MainReturns ==
    /\ Up
    /\ stage = "returned"
    /\ EndProcess("listener")
    /\ UNCHANGED <<setup, clientVars, queue, pc, job, ctxVars, sent, ghosts>>

-----------------------------------------------------------------------------
(* SandboxPool::execute, one task per request.                             *)

\* Mutant: the counter is read and never advanced.
DispatchStuck(r) ==
    /\ Up
    /\ stage = "serving"
    /\ client[r] = "new"
    /\ choice' = [choice EXCEPT ![r] = counter % PoolSize]
    /\ client' = [client EXCEPT ![r] = "dispatching"]
    /\ UNCHANGED <<setup, mainVars, counter, queue, pc, job, ctxVars, sent, ghosts>>

(* fetch_add hands out the workers in turn.                                *)
Dispatch(r) ==
    /\ Up
    /\ stage = "serving"
    /\ client[r] = "new"
    /\ choice' = [choice EXCEPT ![r] = counter % PoolSize]
    /\ counter' = (counter + 1) % CounterSize
    /\ client' = [client EXCEPT ![r] = "dispatching"]
    /\ UNCHANGED <<setup, mainVars, queue, pc, job, ctxVars, sent, ghosts>>

Submit(r) ==
    /\ Up
    /\ client[r] = "dispatching"
    /\ queue' = [queue EXCEPT ![choice[r]] = Append(@, r)]
    /\ client' = [client EXCEPT ![r] = "waiting"]
    /\ UNCHANGED <<setup, mainVars, counter, choice, pc, job, ctxVars, sent, ghosts>>

Answer(r) ==
    /\ Up
    /\ client[r] = "waiting"
    /\ r \in sent
    /\ client' = [client EXCEPT ![r] = "answered"]
    /\ UNCHANGED <<setup, mainVars, counter, choice, queue, pc, job, ctxVars, sent, ghosts>>

(* The connection closes and hyper drops the task at its await; the job    *)
(* stays queued.                                                           *)
Cancel(r) ==
    /\ Up
    /\ client[r] = "waiting"
    /\ client' = [client EXCEPT ![r] = "cancelled"]
    /\ UNCHANGED <<setup, mainVars, counter, choice, queue, pc, job, ctxVars, sent, ghosts>>

-----------------------------------------------------------------------------
(* The worker loops.                                                       *)

\* Mutant: the job is read and stays in the channel.
ReceiveCopy(w) ==
    /\ Up
    /\ pc[w] = "receiving"
    /\ queue[w] # <<>>
    /\ job' = [job EXCEPT ![w] = Head(queue[w])]
    /\ Goto(w, CASE mode = "new" -> "creating"
                 [] mode = "reload" -> "loading"
                 [] mode = "reuse" -> "handling")
    /\ UNCHANGED <<setup, mainVars, clientVars, queue, ctxVars, sent, ghosts>>

Receive(w) ==
    /\ Up
    /\ pc[w] = "receiving"
    /\ queue[w] # <<>>
    /\ job' = [job EXCEPT ![w] = Head(queue[w])]
    /\ queue' = [queue EXCEPT ![w] = Tail(@)]
    /\ Goto(w, CASE mode = "new" -> "creating"
                 [] mode = "reload" -> "loading"
                 [] mode = "reuse" -> "handling")
    /\ UNCHANGED <<setup, mainVars, clientVars, ctxVars, sent, ghosts>>

Create(w) ==
    /\ Up
    /\ pc[w] = "creating"
    /\ NewContext(w)
    /\ Goto(w, "loading")
    /\ UNCHANGED <<setup, mainVars, clientVars, queue, job, sent, ghosts>>

LoadForJob(w) ==
    /\ Up
    /\ pc[w] = "loading"
    /\ IF LoadAllowed(w)
       THEN Load(w) /\ Goto(w, "handling") /\ UNCHANGED mainVars
       ELSE EndProcess("lifecycle") /\ UNCHANGED <<pc, ctxVars>>
    /\ UNCHANGED <<setup, clientVars, queue, job, sent, ghosts>>

(* handle_request: the guest runs and leaves its traces.                   *)
Handle(w) ==
    /\ Up
    /\ pc[w] = "handling"
    /\ IF context[w] = "loaded"
       THEN /\ seen' = [seen EXCEPT ![job[w]] = touched[w]]
            /\ computed' = [computed EXCEPT ![job[w]] = @ + 1]
            /\ touched' = [touched EXCEPT ![w] = @ \cup {job[w]}]
            /\ Goto(w, "responding")
            /\ UNCHANGED mainVars
       ELSE /\ EndProcess("lifecycle")
            /\ UNCHANGED <<pc, touched, ghosts>>
    /\ UNCHANGED <<setup, clientVars, queue, job, context, sent>>

(* Building or calling the guest fails, or the observer kills the call.    *)
GuestFails(w) ==
    /\ Up
    /\ pc[w] \in {"creating", "loading", "handling"}
    /\ EndProcess("guest")
    /\ UNCHANGED <<setup, clientVars, queue, pc, job, ctxVars, sent, ghosts>>

\* Mutants: the context is never unloaded, or a dropped receiver ends the loop.
RespondOnly(w) ==
    /\ Up
    /\ pc[w] = "responding"
    /\ sent' = IF client[job[w]] = "waiting" THEN sent \cup {job[w]} ELSE sent
    /\ Goto(w, "receiving")
    /\ job' = [job EXCEPT ![w] = None]
    /\ UNCHANGED <<setup, mainVars, clientVars, queue, ctxVars, ghosts>>

RespondOrStop(w) ==
    /\ Up
    /\ pc[w] = "responding"
    /\ sent' = IF client[job[w]] = "waiting" THEN sent \cup {job[w]} ELSE sent
    /\ Goto(w, IF client[job[w]] = "waiting" THEN "receiving" ELSE "stopped")
    /\ job' = [job EXCEPT ![w] = None]
    /\ UNCHANGED <<setup, mainVars, clientVars, queue, ctxVars, ghosts>>

(* The response goes out before the context is dropped or unloaded; a      *)
(* dropped receiver is only logged.                                        *)
Respond(w) ==
    /\ Up
    /\ pc[w] = "responding"
    /\ sent' = IF client[job[w]] = "waiting" THEN sent \cup {job[w]} ELSE sent
    /\ IF mode = "reuse"
       THEN Goto(w, "receiving") /\ job' = [job EXCEPT ![w] = None]
       ELSE Goto(w, "closing") /\ UNCHANGED job
    /\ UNCHANGED <<setup, mainVars, clientVars, queue, ctxVars, ghosts>>

Close(w) ==
    /\ Up
    /\ pc[w] = "closing"
    /\ IF mode = "new" \/ UnloadAllowed(w)
       THEN /\ IF mode = "new" THEN SetContext(w, "absent", {}) ELSE Unload(w)
            /\ Goto(w, "receiving")
            /\ job' = [job EXCEPT ![w] = None]
            /\ UNCHANGED mainVars
       ELSE EndProcess("lifecycle") /\ UNCHANGED <<pc, job, ctxVars>>
    /\ UNCHANGED <<setup, clientVars, queue, sent, ghosts>>

(* The memory monitor's shutdown handler ends the process at any time while*)
(* the runtime is there.                                                   *)
Shutdown ==
    /\ Up
    /\ stage # "returned"
    /\ EndProcess("shutdown")
    /\ UNCHANGED <<setup, clientVars, queue, pc, job, ctxVars, sent, ghosts>>

-----------------------------------------------------------------------------

WorkerStep(w) ==
    \/ Prepare(w) \/ Open(w) \/ Preload(w) \/ Announce(w)
    \/ Receive(w) \/ Create(w) \/ LoadForJob(w) \/ Handle(w)
    \/ Respond(w) \/ Close(w)

Next ==
    \/ \E w \in Workers : WorkerStep(w) \/ StartupPanics(w) \/ GuestFails(w)
    \/ \E r \in Requests : Dispatch(r) \/ Submit(r) \/ Answer(r) \/ Cancel(r)
    \/ StartServing \/ StartupTimeout \/ ListenerFails \/ MainReturns
    \/ Shutdown

Spec == Init /\ [][Next]_vars

(* Threads and tasks that can run do, guests return a request's call, and  *)
(* the timer of the start expires.  A worker may hang while it starts, and *)
(* nobody has to send requests, cancel them or stop the server; only the   *)
(* runtime that is dropped drops its tasks.                                *)
FairSpec ==
    /\ Spec
    /\ \A w \in Workers : WF_vars(pc[w] \in Serving \cup {"announcing"} /\ WorkerStep(w))
    /\ \A r \in Requests :
        /\ WF_vars(Submit(r)) /\ WF_vars(Answer(r))
        /\ WF_vars(stage = "returned" /\ Cancel(r))
    /\ WF_vars(StartServing) /\ WF_vars(StartupTimeout)

-----------------------------------------------------------------------------
(* Properties.                                                             *)

(* Restore and Renew give every request a guest no other request ran in,   *)
(* although the response leaves before the guest is reset or dropped.      *)
Isolation == mode # "reuse" => \A r \in Requests : seen[r] = {}

(* Each strategy calls load, handle_request and unload only where the      *)
(* handlers' states allow them.                                            *)
LifecycleNeverPanics == exit # "lifecycle"

(* The ready event means ready: once the listener is open no worker is     *)
(* still preparing, and the strategies that keep a sandbox have built it.  *)
ServingMeansReady ==
    stage = "serving" => \A w \in Workers :
        /\ pc[w] \notin Startup
        /\ mode # "new" => context[w] # "absent"
        /\ mode = "reuse" => context[w] = "loaded"

(* Concurrent requests are spread evenly: no worker has been given two     *)
(* requests more than another.                                             *)
Assigned(w) == Cardinality({r \in Requests : choice[r] = w})
EvenDispatch == \A v, w \in Workers : Assigned(v) <= Assigned(w) + 1

(* The places of a request: a worker's hands (0), or a position in its     *)
(* channel.                                                                *)
JobAt(w, i) == IF i = 0 THEN job[w] ELSE queue[w][i]
Places(r) == UNION {{<<w, i>> : i \in {k \in 0 .. Len(queue[w]) : JobAt(w, k) = r}} : w \in Workers}

(* A job a worker has taken, or still has queued, is neither forgotten nor *)
(* doubled: each accepted request is in exactly one place until it has been*)
(* computed.                                                               *)
JobsNotLost ==
    \A r \in Requests : client[r] = "waiting" /\ computed[r] = 0 => Cardinality(Places(r)) = 1

(* Every accepted request is answered, unless its client or the process    *)
(* goes away.                                                              *)
RequestsEnd ==
    \A r \in Requests : client[r] = "waiting" ~> (client[r] # "waiting" \/ ~Up)

(* The start ends although workers may hang: with the open listener, an    *)
(* error of main, or the end of the process.                               *)
StartupEnds == Up ~> (stage # "starting" \/ ~Up)

(* To its clients the pool is the abstract service.                        *)
Service == INSTANCE RequestService WITH
    accepted <- {r \in Requests : client[r] \notin {"new", "dispatching"}},
    answered <- {r \in Requests : client[r] = "answered"},
    left     <- {r \in Requests : client[r] = "cancelled"}
ImplementsRequestService == Service!Spec

=============================================================================
