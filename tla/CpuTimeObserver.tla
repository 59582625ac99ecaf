--------------------------- MODULE CpuTimeObserver ---------------------------
(***************************************************************************)
(* crates/observer/src/observer.rs: a thread that samples the CPU time of  *)
(* the worker threads inside a guest call and kills the calls that used    *)
(* more than the timeout, with the calls handlers make to it around        *)
(* handle_request.  CPU time is counted in ticks since the start of the    *)
(* call and saturates at Timeout, which is all the code compares it with.  *)
(* The mutex is held across steps by the observer thread only (its pc says *)
(* when); a worker's insert and remove are one step that needs it free.    *)
(***************************************************************************)
EXTENDS Naturals, FiniteSets

CONSTANTS Workers,  \* worker threads, each with one interrupt handle per call
          Timeout,  \* CPU ticks a call may use
          None      \* no entry for a handle

ASSUME ObserverAssumption == Timeout \in Nat \ {0} /\ None \notin Nat

VARIABLES
    up,          \* the server process has not exited
    shouldStop,  \* ObserverState.should_stop
    monitors,    \* active_monitors: ticks since the entry's start_cpu_time
    opc,         \* what the observer thread does next
    toScan,      \* entries retain has yet to visit
    pc,          \* what each worker does next
    captured,    \* ticks since the start_cpu_time the worker last read
    used,        \* ticks the worker's current call has really used
    dpc          \* progress of CpuTimeObserver::drop

workerVars == <<pc, captured, used>>
vars == <<up, shouldStop, monitors, opc, toScan, workerVars, dpc>>

Registered == {w \in Workers : monitors[w] # None}
HoldsMutex == opc \in {"parking", "scanning"}
InCall == {"starting", "notifying", "entering", "running", "stopping", "interrupted"}

TypeOK ==
    /\ up \in BOOLEAN
    /\ shouldStop \in BOOLEAN
    /\ monitors \in [Workers -> 0 .. Timeout \cup {None}]
    /\ opc \in {"check", "testing", "parking", "waiting", "locking",
                "scanning", "sleeping", "stopped"}
    /\ toScan \subseteq Workers
    /\ pc \in [Workers -> InCall \cup {"idle", "gone"}]
    /\ captured \in [Workers -> 0 .. Timeout]
    /\ used \in [Workers -> 0 .. Timeout]
    /\ dpc \in {"held", "signalled", "dropped"}

Init ==
    /\ up = TRUE
    /\ shouldStop = FALSE
    /\ monitors = [w \in Workers |-> None]
    /\ opc = "check"
    /\ toScan = {}
    /\ pc = [w \in Workers |-> "idle"]
    /\ captured = [w \in Workers |-> 0]
    /\ used = [w \in Workers |-> 0]
    /\ dpc = "held"

-----------------------------------------------------------------------------
(* Workers: start_timeout, the guest call, stop_timeout.                   *)

Goto(w, label) == pc' = [pc EXCEPT ![w] = label]

\* Mutant: nobody is notified.
NotifyNobody == UNCHANGED opc

\* condvar.notify_one: the observer thread is the only waiter.
NotifyOne == opc' = IF opc = "waiting" THEN "testing" ELSE opc

\* Mutant: the thread's start time is read once, not at every call.
CaptureOnce(w) ==
    /\ up
    /\ pc[w] = "idle"
    /\ used' = [used EXCEPT ![w] = 0]
    /\ Goto(w, "starting")
    /\ UNCHANGED <<up, shouldStop, monitors, opc, toScan, captured, dpc>>

(* start_timeout reads the thread's CPU clock ...                          *)
Capture(w) ==
    /\ up
    /\ pc[w] = "idle"
    /\ captured' = [captured EXCEPT ![w] = 0]
    /\ used' = [used EXCEPT ![w] = 0]
    /\ Goto(w, "starting")
    /\ UNCHANGED <<up, shouldStop, monitors, opc, toScan, dpc>>

\* Mutant: the registration is not followed by a notification.
RegisterSilently(w) ==
    /\ up
    /\ pc[w] = "starting"
    /\ ~HoldsMutex
    /\ monitors' = [monitors EXCEPT ![w] = captured[w]]
    /\ Goto(w, "entering")
    /\ UNCHANGED <<up, shouldStop, opc, toScan, captured, used, dpc>>

(* ... registers under the mutex ...                                       *)
Register(w) ==
    /\ up
    /\ pc[w] = "starting"
    /\ ~HoldsMutex
    /\ monitors' = [monitors EXCEPT ![w] = captured[w]]
    /\ Goto(w, "notifying")
    /\ UNCHANGED <<up, shouldStop, opc, toScan, captured, used, dpc>>

(* ... and notifies after releasing it.                                    *)
Notify(w) ==
    /\ up
    /\ pc[w] = "notifying"
    /\ NotifyOne
    /\ Goto(w, "entering")
    /\ UNCHANGED <<up, shouldStop, monitors, toScan, captured, used, dpc>>

EnterGuest(w) ==
    /\ up
    /\ pc[w] = "entering"
    /\ Goto(w, "running")
    /\ UNCHANGED <<up, shouldStop, monitors, opc, toScan, captured, used, dpc>>

GuestReturns(w) ==
    /\ up
    /\ pc[w] = "running"
    /\ Goto(w, "stopping")
    /\ UNCHANGED <<up, shouldStop, monitors, opc, toScan, captured, used, dpc>>

\* Mutant: the entry stays.
StopNothing(w) ==
    /\ up
    /\ pc[w] = "stopping"
    /\ ~HoldsMutex
    /\ Goto(w, "idle")
    /\ UNCHANGED <<up, shouldStop, monitors, opc, toScan, captured, used, dpc>>

StopTimeout(w) ==
    /\ up
    /\ pc[w] = "stopping"
    /\ ~HoldsMutex
    /\ monitors' = [monitors EXCEPT ![w] = None]
    /\ Goto(w, "idle")
    /\ UNCHANGED <<up, shouldStop, opc, toScan, captured, used, dpc>>

(* The handler unwraps the error of a killed call; the worker's            *)
(* catch_unwind ends the process.                                          *)
CallFails(w) ==
    /\ up
    /\ pc[w] = "interrupted"
    /\ up' = FALSE
    /\ UNCHANGED <<shouldStop, monitors, opc, toScan, pc, captured, used, dpc>>

(* A worker drops its reference: its handler ignores the observer, or its  *)
(* queue was closed.                                                       *)
LetGo(w) ==
    /\ up
    /\ pc[w] = "idle"
    /\ Goto(w, "gone")
    /\ UNCHANGED <<up, shouldStop, monitors, opc, toScan, captured, used, dpc>>

Plus1(ticks) == IF ticks < Timeout THEN ticks + 1 ELSE ticks

(* A worker thread inside a call uses CPU time.                            *)
Tick(w) ==
    /\ up
    /\ pc[w] \in InCall
    /\ used[w] < Timeout
    /\ used' = [used EXCEPT ![w] = Plus1(@)]
    /\ captured' = [captured EXCEPT ![w] = Plus1(@)]
    /\ monitors' = [monitors EXCEPT ![w] = IF @ = None THEN None ELSE Plus1(@)]
    /\ UNCHANGED <<up, shouldStop, opc, toScan, pc, dpc>>

-----------------------------------------------------------------------------
(* observer_thread_main.                                                   *)

CheckStop ==
    /\ up
    /\ opc = "check"
    /\ opc' = IF shouldStop THEN "stopped" ELSE "testing"
    /\ UNCHANGED <<up, shouldStop, monitors, toScan, workerVars, dpc>>

(* The wait loop's condition, evaluated with the mutex held.               *)
TestEmpty ==
    /\ up
    /\ opc = "testing"
    /\ opc' = IF Registered = {} /\ ~shouldStop THEN "parking" ELSE "locking"
    /\ UNCHANGED <<up, shouldStop, monitors, toScan, workerVars, dpc>>

(* condvar.wait releases the mutex and sleeps in one step.                 *)
Park ==
    /\ up
    /\ opc = "parking"
    /\ opc' = "waiting"
    /\ UNCHANGED <<up, shouldStop, monitors, toScan, workerVars, dpc>>

(* Condition variables may wake up for no reason.                          *)
SpuriousWake ==
    /\ up
    /\ opc = "waiting"
    /\ opc' = "testing"
    /\ UNCHANGED <<up, shouldStop, monitors, toScan, workerVars, dpc>>

LockForScan ==
    /\ up
    /\ opc = "locking"
    /\ opc' = "scanning"
    /\ toScan' = Registered
    /\ UNCHANGED <<up, shouldStop, monitors, workerVars, dpc>>

(* InterruptHandle::kill interrupts a guest that is running.               *)
Kill(w) == pc' = IF pc[w] = "running" THEN [pc EXCEPT ![w] = "interrupted"] ELSE pc

ScanOverdue(w) ==
    /\ up
    /\ opc = "scanning"
    /\ w \in toScan
    /\ monitors[w] = Timeout
    /\ Kill(w)
    /\ monitors' = [monitors EXCEPT ![w] = None]
    /\ toScan' = toScan \ {w}
    /\ UNCHANGED <<up, shouldStop, opc, captured, used, dpc>>

ScanInTime(w) ==
    /\ up
    /\ opc = "scanning"
    /\ w \in toScan
    /\ monitors[w] # Timeout
    /\ toScan' = toScan \ {w}
    /\ UNCHANGED <<up, shouldStop, monitors, opc, workerVars, dpc>>

UnlockAfterScan ==
    /\ up
    /\ opc = "scanning"
    /\ toScan = {}
    /\ opc' = "sleeping"
    /\ UNCHANGED <<up, shouldStop, monitors, toScan, workerVars, dpc>>

SleepEnds ==
    /\ up
    /\ opc = "sleeping"
    /\ opc' = "check"
    /\ UNCHANGED <<up, shouldStop, monitors, toScan, workerVars, dpc>>

-----------------------------------------------------------------------------
(* Drop runs with the last reference; it does not take the mutex.          *)

DropSignal ==
    /\ up
    /\ dpc = "held"
    /\ \A w \in Workers : pc[w] = "gone"
    /\ shouldStop' = TRUE
    /\ dpc' = "signalled"
    /\ UNCHANGED <<up, monitors, opc, toScan, workerVars>>

DropNotify ==
    /\ up
    /\ dpc = "signalled"
    /\ NotifyOne
    /\ dpc' = "dropped"
    /\ UNCHANGED <<up, shouldStop, monitors, toScan, workerVars>>

ObserverStep ==
    \/ CheckStop \/ TestEmpty \/ Park \/ LockForScan
    \/ \E w \in Workers : ScanOverdue(w) \/ ScanInTime(w)
    \/ UnlockAfterScan \/ SleepEnds

Next ==
    \/ \E w \in Workers :
        \/ Capture(w) \/ Register(w) \/ Notify(w) \/ EnterGuest(w)
        \/ GuestReturns(w) \/ StopTimeout(w) \/ CallFails(w)
        \/ LetGo(w) \/ Tick(w)
    \/ ObserverStep
    \/ SpuriousWake
    \/ DropSignal \/ DropNotify

Spec == Init /\ [][Next]_vars

(* Every thread that can run does.  A worker that wants the mutex gets it  *)
(* although the observer takes it again and again: the observer sleeps     *)
(* between its scans.  Guests may run forever; nobody has to start a call, *)
(* to let the observer go, or to be woken without a notification.          *)
Fairness ==
    /\ WF_vars(ObserverStep)
    /\ WF_vars(DropNotify)
    /\ \A w \in Workers :
        /\ SF_vars(Register(w)) /\ SF_vars(StopTimeout(w))
        /\ WF_vars(Notify(w)) /\ WF_vars(EnterGuest(w)) /\ WF_vars(CallFails(w))
        /\ WF_vars(Tick(w))

FairSpec == Spec /\ Fairness

-----------------------------------------------------------------------------
(* Properties.                                                             *)

(* The observer only samples threads that are inside a call: it would      *)
(* panic, with the mutex held, on the clock of a thread that has ended,    *)
(* and would kill a later call of the worker for an earlier one.           *)
NoStaleMonitor == \A w \in Registered : pc[w] \in InCall \ {"starting", "interrupted"}

(* The observer interrupts a call, or stops watching one (it kills once:   *)
(* a guest not yet entered does not notice), only when this call has used  *)
(* its timeout.                                                            *)
Unwatched(w) == pc[w] \in {"notifying", "entering", "running", "stopping"} /\ w \notin Registered
KillOnlyOverdue == \A w \in Workers : pc[w] = "interrupted" \/ Unwatched(w) => used[w] = Timeout

(* Registrations are not lost: while the observer waits with entries to    *)
(* watch, some worker is about to notify it.                               *)
WakeupPending ==
    opc = "waiting" /\ Registered # {} => \E w \in Workers : pc[w] = "notifying"

(* A guest that runs while it is registered does not run forever, however  *)
(* long it computes and whatever the other workers do.                     *)
MonitoredGuestEnds ==
    \A w \in Workers :
        (pc[w] = "running" /\ w \in Registered) ~> (pc[w] # "running" \/ ~up)

(* observer.rs:104, in drop: "Signal thread to shut down": the thread ends *)
(* after drop has signalled it.                                            *)
DropStopsThread == dpc = "dropped" ~> (opc = "stopped" \/ ~up)

=============================================================================
