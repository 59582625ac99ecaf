--------------------------- MODULE BenchmarkDriver ---------------------------
(***************************************************************************)
(* scripts/benchmark.ts: a driver process starts a server and a load       *)
(* generator, measures one configuration and writes its bundle.  Around it *)
(* the collection of scripts/benchmark-local.ts, or the consecutive steps  *)
(* of a CI job, run one driver after another; below it the server's        *)
(* shutdown protocol of crates/server/src/memory_monitor.rs.  Driver steps *)
(* are the code between two awaits.  Timers may expire at any time;        *)
(* processes may die, be interrupted or hang at any time.                  *)
(***************************************************************************)
EXTENDS Naturals

CONSTANT N      \* number of expected configurations

ASSUME CountAssumption == N \in Nat \ {0}

Configurations == 1 .. N

VARIABLES
    local,        \* benchmark-local.ts, in a fresh directory, or separate commands
    collector,    \* what runs the drivers
    current,      \* the configuration whose driver runs or ran last
    site,         \* files of public/local-data: the run, the new index, index.json
    pc,           \* what the current driver awaits or does next
    outcome,      \* the measurement it has pushed
    exitCode,     \* its process.exitCode
    interrupted,  \* its signal handler has run
    server,       \* each configuration's server process
    stdin,        \* the pipe to it
    announced,    \* it has printed its ready line
    doomed,       \* it was sent SIGKILL
    load,         \* each configuration's load generator
    loadSignal,   \* what it was sent
    memory,       \* memory.json of each configuration
    report,       \* oha.json of each configuration
    bundle        \* bundle.json of each configuration

collectorVars == <<local, collector, current, site>>
driverVars == <<pc, outcome, exitCode, interrupted>>
serverVars == <<server, stdin, announced, doomed, memory>>
loadVars == <<load, loadSignal, report>>
vars == <<collectorVars, driverVars, serverVars, loadVars, bundle>>

(* booting: no handler yet; starting: monitored, the pool starts; saving:  *)
(* writes memory.json; then exit 0, exit 1, and lost: ended by a signal or *)
(* never started.                                                          *)
ServerRunning == {"booting", "starting", "serving", "saving"}
ServerEnded == {"ok", "failed", "lost"}

Waiting == {"ready", "request", "load"}     \* a signal rejects these awaits
Cleaning == {"cleanLoad", "cleanServer", "reap"}
DriverUp == {"launch", "finished", "shutdown", "save", "saving"} \cup Waiting \cup Cleaning

\* What is in a file: of an earlier run, cut off, refused by the checks, or whole.
Contents == {"none", "stale", "partial", "dirty", "whole"}
Bundle(status, oha, sysinfo) == [status |-> status, oha |-> oha, sysinfo |-> sysinfo]
NoBundle == Bundle("none", "none", "none")
Bundles == [status: {"none", "stale", "partial", "success", "failed"},
            oha: Contents, sysinfo: Contents]

TypeOK ==
    /\ local \in BOOLEAN
    /\ collector \in {"collecting", "writing", "done", "failed", "dead"}
    /\ current \in Configurations
    /\ site \in [run: Contents, next: BOOLEAN, index: BOOLEAN]
    /\ pc \in {"idle", "exited", "killed"} \cup DriverUp
    /\ outcome \in {"none", "success", "failed"}
    /\ exitCode \in {0, 1}
    /\ interrupted \in BOOLEAN
    /\ server \in [Configurations -> {"none"} \cup ServerRunning \cup ServerEnded]
    /\ stdin \in [Configurations -> {"open", "shutdown", "eof"}]
    /\ announced \in [Configurations -> BOOLEAN]
    /\ doomed \in [Configurations -> BOOLEAN]
    /\ load \in [Configurations -> {"none", "running", "ok", "error", "lost"}]
    /\ loadSignal \in [Configurations -> {"none", "TERM", "KILL"}]
    /\ memory \in [Configurations -> Contents]
    /\ report \in [Configurations -> Contents]
    /\ bundle \in [Configurations -> Bundles]

\* Files of an earlier run can only be there outside benchmark-local.ts.
Init ==
    /\ local \in BOOLEAN
    /\ \E old \in {"none", "stale"} :
        /\ local => old = "none"
        /\ memory = [c \in Configurations |-> old]
        /\ report = [c \in Configurations |-> old]
        /\ bundle = [c \in Configurations |-> Bundle(old, old, old)]
    /\ collector = "collecting"
    /\ current = 1
    /\ site = [run |-> "none", next |-> FALSE, index |-> FALSE]
    /\ pc = "idle"
    /\ outcome = "none"
    /\ exitCode = 0
    /\ interrupted = FALSE
    /\ server = [c \in Configurations |-> "none"]
    /\ stdin = [c \in Configurations |-> "open"]
    /\ announced = [c \in Configurations |-> FALSE]
    /\ doomed = [c \in Configurations |-> FALSE]
    /\ load = [c \in Configurations |-> "none"]
    /\ loadSignal = [c \in Configurations |-> "none"]

-----------------------------------------------------------------------------
(* The driver.                                                             *)

Set(f, c, x) == [f EXCEPT ![c] = x]

Goto(label) == pc' = label

\* Errors before the try block: nothing of an earlier run is removed.
LaunchFails ==
    /\ pc = "launch"
    /\ exitCode' = 1
    /\ Goto("exited")
    /\ UNCHANGED <<collectorVars, outcome, interrupted, serverVars, loadVars, bundle>>

Launch ==
    /\ pc = "launch"
    /\ memory' = Set(memory, current, "none")
    /\ report' = Set(report, current, "none")
    /\ bundle' = Set(bundle, current, NoBundle)
    /\ \E s \in {"booting", "lost"} : server' = Set(server, current, s)
    /\ Goto("ready")
    /\ UNCHANGED <<collectorVars, outcome, exitCode, interrupted, stdin, announced, doomed,
                     load, loadSignal>>

OnReady ==
    /\ pc = "ready"
    /\ announced[current]
    /\ Goto("request")
    /\ UNCHANGED <<collectorVars, outcome, exitCode, interrupted, serverVars, loadVars, bundle>>

OnResponse ==
    /\ pc = "request"
    /\ server[current] = "serving"
    /\ \E l \in {"running", "lost"} : load' = Set(load, current, l)
    /\ Goto("load")
    /\ UNCHANGED <<collectorVars, outcome, exitCode, interrupted, serverVars, loadSignal,
                     report, bundle>>

\* What ending stdin leaves in the pipe; a pipe that has ended stays as it is.
EndStdin(c, content) ==
    stdin' = Set(stdin, c, IF stdin[c] = "open" THEN content ELSE stdin[c])

OnLoadEnd ==
    /\ pc = "load"
    /\ load[current] = "ok"
    /\ EndStdin(current, "shutdown")
    /\ Goto("shutdown")
    /\ UNCHANGED <<collectorVars, outcome, exitCode, interrupted, server, announced, doomed,
                     memory, loadVars, bundle>>

\* Mutant: the exit code is not set.
FailQuietly ==
    /\ outcome' = "failed"
    /\ loadSignal' = Set(loadSignal, current,
                         IF load[current] = "running" THEN "TERM" ELSE loadSignal[current])
    /\ Goto("cleanLoad")
    /\ UNCHANGED <<collectorVars, exitCode, serverVars, load, report, bundle>>

\* The catch block, and the kill the finally block starts with.
Fail ==
    /\ outcome' = "failed"
    /\ exitCode' = 1
    /\ loadSignal' = Set(loadSignal, current,
                         IF load[current] = "running" THEN "TERM" ELSE loadSignal[current])
    /\ Goto("cleanLoad")
    /\ UNCHANGED <<collectorVars, serverVars, load, report, bundle>>

\* A child ended too early or badly, or the readiness request failed.
Abandon ==
    /\ \/ pc \in {"ready", "load"} /\ server[current] \in ServerEnded
       \/ pc = "request"
       \/ pc = "load" /\ load[current] \in {"error", "lost"}
       \/ pc = "shutdown" /\ server[current] \in {"failed", "lost"}
    /\ Fail
    /\ UNCHANGED interrupted

\* The timer of bounded() is first.
Expire ==
    /\ pc \in {"ready", "load", "shutdown"}
    /\ Fail
    /\ UNCHANGED interrupted

\* The signal handler; once the load generator has ended, nothing asks for it.
Interrupt ==
    /\ ~interrupted
    /\ pc \in Waiting \cup Cleaning \cup {"shutdown"}
    /\ interrupted' = TRUE
    /\ IF pc \in Waiting
       THEN Fail
       ELSE UNCHANGED <<collectorVars, pc, outcome, exitCode, serverVars, loadVars, bundle>>

\* Mutant: the exit code of the server is enough.
MeasureUnread ==
    /\ pc = "shutdown"
    /\ server[current] = "ok"
    /\ outcome' = "success"
    /\ Goto("cleanLoad")
    /\ UNCHANGED <<collectorVars, exitCode, interrupted, serverVars, loadVars, bundle>>

Measure ==
    /\ pc = "shutdown"
    /\ server[current] = "ok"
    /\ IF report[current] = "whole" /\ memory[current] = "whole"
       THEN /\ outcome' = "success"
            /\ Goto("cleanLoad")
            /\ UNCHANGED <<collectorVars, exitCode, serverVars, loadVars, bundle>>
       ELSE Fail
    /\ UNCHANGED interrupted

\* The finally block asks a server that still runs to shut down.
AskServer ==
    IF server[current] \in ServerRunning
    THEN EndStdin(current, "shutdown") /\ Goto("cleanServer")
    ELSE UNCHANGED stdin /\ Goto("save")

CleanLoad ==
    /\ pc = "cleanLoad"
    /\ load[current] # "running"
    /\ exitCode' = IF load[current] = "lost" THEN 1 ELSE exitCode
    /\ AskServer
    /\ UNCHANGED <<collectorVars, outcome, interrupted, server, announced, doomed, memory,
                     loadVars, bundle>>

CleanLoadExpires ==
    /\ pc = "cleanLoad"
    /\ load[current] = "running"
    /\ exitCode' = 1
    /\ loadSignal' = Set(loadSignal, current, "KILL")
    /\ AskServer
    /\ UNCHANGED <<collectorVars, outcome, interrupted, server, announced, doomed, memory, load,
                     report, bundle>>

CleanServer ==
    /\ pc \in {"cleanServer", "reap"}
    /\ server[current] \in ServerEnded
    /\ exitCode' = IF server[current] = "lost" THEN 1 ELSE exitCode
    /\ Goto("save")
    /\ UNCHANGED <<collectorVars, outcome, interrupted, serverVars, loadVars, bundle>>

\* Mutant: waits for the server without a kill.
CleanServerWaits ==
    /\ pc = "cleanServer"
    /\ server[current] \in ServerRunning
    /\ exitCode' = 1
    /\ Goto("reap")
    /\ UNCHANGED <<collectorVars, outcome, interrupted, serverVars, loadVars, bundle>>

CleanServerExpires ==
    /\ pc = "cleanServer"
    /\ server[current] \in ServerRunning
    /\ exitCode' = 1
    /\ doomed' = Set(doomed, current, TRUE)
    /\ Goto("reap")
    /\ UNCHANGED <<collectorVars, outcome, interrupted, server, stdin, announced, memory,
                     loadVars, bundle>>

\* writeFileSync is not atomic; the listeners for signals are gone by then.
BeginSave ==
    /\ pc = "save"
    /\ bundle' = Set(bundle, current, Bundle("partial", "none", "none"))
    /\ Goto("saving")
    /\ UNCHANGED <<collectorVars, outcome, exitCode, interrupted, serverVars, loadVars>>

\* Raw outputs hold what the files hold, whether or not it was of use.
Save ==
    /\ pc = "saving"
    /\ bundle' = Set(bundle, current, Bundle(outcome, report[current], memory[current]))
    /\ Goto("finished")
    /\ UNCHANGED <<collectorVars, outcome, exitCode, interrupted, serverVars, loadVars>>

\* An error in the finally block is not caught: the process ends at once.
SaveFails ==
    /\ pc \in {"save", "saving"}
    /\ exitCode' = 1
    /\ Goto("exited")
    /\ UNCHANGED <<collectorVars, outcome, interrupted, serverVars, loadVars, bundle>>

\* The event loop of the driver runs until its children have ended.
Exit ==
    /\ pc = "finished"
    /\ server[current] \notin ServerRunning
    /\ load[current] # "running"
    /\ Goto("exited")
    /\ UNCHANGED <<collectorVars, outcome, exitCode, interrupted, serverVars, loadVars, bundle>>

\* A second signal, one outside the handlers, or SIGKILL: the pipe closes.
Killed ==
    /\ pc \in DriverUp
    /\ EndStdin(current, "eof")
    /\ Goto("killed")
    /\ UNCHANGED <<collectorVars, outcome, exitCode, interrupted, server, announced, doomed,
                     memory, loadVars, bundle>>

Await == OnReady \/ OnResponse \/ OnLoadEnd \/ Measure \/ Abandon \/ Expire
Clean == CleanLoad \/ CleanLoadExpires \/ CleanServer \/ CleanServerExpires
Driver ==
    \/ Launch \/ LaunchFails \/ Await \/ Clean
    \/ BeginSave \/ Save \/ SaveFails \/ Exit

-----------------------------------------------------------------------------
(* The server of configuration c.                                          *)

UnchangedByServer == <<collectorVars, driverVars, loadVars, bundle>>

\* start_monitoring, then the pool, then the ready line.
Monitor(c) ==
    /\ server[c] = "booting"
    /\ server' = Set(server, c, "starting")
    /\ UNCHANGED <<UnchangedByServer, stdin, announced, doomed, memory>>

Announce(c) ==
    /\ server[c] = "starting"
    /\ server' = Set(server, c, "serving")
    /\ announced' = Set(announced, c, TRUE)
    /\ UNCHANGED <<UnchangedByServer, stdin, doomed, memory>>

\* Mutant: the panic of the listener does not end the process.
ReadCommandOnly(c) ==
    /\ server[c] \in {"starting", "serving"}
    /\ stdin[c] = "shutdown"
    /\ server' = Set(server, c, "saving")
    /\ memory' = Set(memory, c, "partial")
    /\ UNCHANGED <<UnchangedByServer, stdin, announced, doomed>>

\* The listener wakes up: the command starts the report, the end of the
\* pipe panics, and with --shutdown-stdin a panic ends the process.
ReadStdin(c) ==
    /\ server[c] \in {"starting", "serving"}
    /\ \/ /\ stdin[c] = "shutdown"
          /\ server' = Set(server, c, "saving")
          /\ memory' = Set(memory, c, "partial")
       \/ /\ stdin[c] = "eof"
          /\ server' = Set(server, c, "failed")
          /\ UNCHANGED memory
    /\ UNCHANGED <<UnchangedByServer, stdin, announced, doomed>>

SaveMemory(c) ==
    /\ server[c] = "saving"
    /\ memory' = Set(memory, c, "whole")
    /\ server' = Set(server, c, "ok")
    /\ UNCHANGED <<UnchangedByServer, stdin, announced, doomed>>

\* A panic of any thread, also ctrl-c and an error of the pool or a file.
ServerPanics(c) ==
    /\ server[c] \in ServerRunning
    /\ server' = Set(server, c, "failed")
    /\ UNCHANGED <<UnchangedByServer, stdin, announced, doomed, memory>>

\* SIGKILL from the driver or others, or ctrl-c before its handler is installed.
ServerLost(c) ==
    /\ server[c] \in ServerRunning
    /\ server' = Set(server, c, "lost")
    /\ UNCHANGED <<UnchangedByServer, stdin, announced, doomed, memory>>

Server(c) ==
    \/ Monitor(c) \/ Announce(c) \/ ReadStdin(c) \/ SaveMemory(c)
    \/ ServerPanics(c) \/ ServerLost(c)

-----------------------------------------------------------------------------
(* The load generator of configuration c, an external program.             *)

LoadEnds(c) ==
    /\ load[c] = "running"
    /\ \E l \in {"ok", "error"} : load' = Set(load, c, l)
    /\ \E content \in {"partial", "dirty", "whole", report[c]} :
        report' = Set(report, c, content)
    /\ UNCHANGED <<collectorVars, driverVars, serverVars, loadSignal, bundle>>

LoadLost(c) ==
    /\ load[c] = "running"
    /\ load' = Set(load, c, "lost")
    /\ \E content \in {"partial", report[c]} : report' = Set(report, c, content)
    /\ UNCHANGED <<collectorVars, driverVars, serverVars, loadSignal, bundle>>

-----------------------------------------------------------------------------
(* The collection.                                                         *)

UnchangedByCollector == <<local, serverVars, loadVars, bundle>>

StartDriver ==
    /\ collector = "collecting"
    /\ pc = "idle"
    /\ Goto("launch")
    /\ outcome' = "none"
    /\ exitCode' = 0
    /\ interrupted' = FALSE
    /\ UNCHANGED <<UnchangedByCollector, collector, current, site>>

Succeeded == pc = "exited" /\ exitCode = 0

\* Mutant: a failed configuration does not stop the collection.
NextConfigurationAnyway ==
    /\ collector = "collecting"
    /\ pc \in {"exited", "killed"}
    /\ IF current < N
       THEN current' = current + 1 /\ Goto("idle") /\ UNCHANGED collector
       ELSE UNCHANGED <<current, pc>> /\ collector' = IF local THEN "writing" ELSE "done"
    /\ UNCHANGED <<UnchangedByCollector, site, outcome, exitCode, interrupted>>

NextConfiguration ==
    /\ collector = "collecting"
    /\ Succeeded
    /\ IF current < N
       THEN current' = current + 1 /\ Goto("idle") /\ UNCHANGED collector
       ELSE UNCHANGED <<current, pc>> /\ collector' = IF local THEN "writing" ELSE "done"
    /\ UNCHANGED <<UnchangedByCollector, site, outcome, exitCode, interrupted>>

StopCollecting ==
    /\ \/ collector = "collecting" /\ pc \in {"exited", "killed"} /\ ~Succeeded
       \/ collector = "writing"
    /\ collector' = "failed"
    /\ UNCHANGED <<UnchangedByCollector, current, site, driverVars>>

CollectorDies ==
    /\ collector \in {"collecting", "writing"}
    /\ collector' = "dead"
    /\ UNCHANGED <<UnchangedByCollector, current, site, driverVars>>

\* The validated run, a new index, and the rename that makes it current.
WriteRun ==
    /\ site.run # "whole"
    /\ \A c \in Configurations : bundle[c].status = "success"
    /\ site' = [site EXCEPT !.run = IF site.run = "none" THEN "partial" ELSE "whole"]
    /\ UNCHANGED collector

WriteIndex ==
    /\ site.run = "whole"
    /\ IF site.next
       THEN site' = [site EXCEPT !.index = TRUE, !.next = FALSE] /\ collector' = "done"
       ELSE site' = [site EXCEPT !.next = TRUE] /\ UNCHANGED collector

WriteSite ==
    /\ collector = "writing"
    /\ WriteRun \/ WriteIndex
    /\ UNCHANGED <<UnchangedByCollector, current, driverVars>>

Collector == StartDriver \/ NextConfiguration \/ StopCollecting \/ WriteSite

Next ==
    \/ Driver \/ Interrupt \/ Killed
    \/ Collector \/ CollectorDies
    \/ \E c \in Configurations : Server(c) \/ LoadEnds(c) \/ LoadLost(c)

Spec == Init /\ [][Next]_vars

(* Node runs callbacks and timers, and the kernel delivers SIGKILL.  No     *)
(* fairness for the server and the load generator: they may hang.          *)
FairSpec ==
    /\ Spec
    /\ WF_vars(Driver)
    /\ WF_vars(Collector)
    /\ \A c \in Configurations :
        /\ WF_vars(doomed[c] /\ ServerLost(c))
        /\ WF_vars(loadSignal[c] = "KILL" /\ LoadLost(c))

(* The server starts its monitor, whose listener has a thread of its own   *)
(* and reads what is in the pipe, and its file is written.                 *)
ServersRespond ==
    \A c \in Configurations :
        WF_vars(Monitor(c)) /\ WF_vars(ReadStdin(c)) /\ WF_vars(SaveMemory(c))

-----------------------------------------------------------------------------
(* Properties.                                                             *)

(* A success was measured by this run: the load generator and the server   *)
(* ended well and both outputs are theirs and whole, in whatever order the *)
(* children ended.  A failure retains this run's outputs only.  The local  *)
(* index names a run only when every configuration succeeded.              *)
ResultsAreWhole ==
    /\ \A c \in Configurations :
        /\ bundle[c].status = "success" =>
            /\ bundle[c].oha = "whole" /\ bundle[c].sysinfo = "whole"
            /\ load[c] = "ok" /\ server[c] = "ok"
        /\ bundle[c].status = "failed" => "stale" \notin {bundle[c].oha, bundle[c].sysinfo}
    /\ site.index =>
        /\ site.run = "whole"
        /\ \A c \in Configurations : bundle[c].status = "success"

(* The exit code and the bundle agree, whatever the clean-up met.          *)
ExitTellsOutcome ==
    pc = "exited" => (exitCode = 0 <=> bundle[current].status = "success")

(* A configuration is never measured while a process of another runs.      *)
OneMeasurementAtATime ==
    \A c, d \in Configurations :
        c # d /\ server[c] \in ServerRunning =>
            server[d] \notin ServerRunning /\ load[d] # "running"

(* A collection that is interrupted anywhere, over outputs of an earlier   *)
(* one, is still a collection: results are recorded once, in order, none   *)
(* after a failure, and the index names them only when all succeeded.      *)
Result(c) == IF bundle[c].status \in {"success", "failed"} THEN bundle[c].status ELSE "none"
Collected == INSTANCE Collection WITH
    results <- [c \in Configurations |-> Result(c)],
    named <- site.index
ImplementsCollection == Collected!Spec

(* A driver that is not killed ends, also when a server hangs.             *)
DriverEnds == pc = "launch" ~> pc \in {"exited", "killed"}

(* Every server that runs its listener ends, also when its driver is       *)
(* killed: the end of the pipe makes it panic, and a panic ends it.        *)
ServersEnd ==
    ServersRespond =>
    \A c \in Configurations : server[c] = "booting" ~> server[c] \in ServerEnded

=============================================================================
