----------------------- MODULE CpuTimeObserver_proofs -----------------------
(***************************************************************************)
(* Proofs about CpuTimeObserver for every set of workers and every timeout.*)
(***************************************************************************)
EXTENDS CpuTimeObserver, TLAPS

(* An entry belongs to the worker's current call and was started with it.  *)
EntriesInv ==
    \A w \in Workers :
        /\ monitors[w] # None =>
            /\ pc[w] \in InCall \ {"starting", "interrupted"}
            /\ monitors[w] = captured[w]
        /\ pc[w] \in InCall => captured[w] = used[w]

(* The observer waits only with nothing to watch or a notification coming. *)
ParkInv == opc = "parking" => Registered = {}

IInv ==
    /\ TypeOK
    /\ EntriesInv
    /\ KillOnlyOverdue
    /\ ParkInv
    /\ WakeupPending

LEMMA InvInit == Init => IInv
<1> SUFFICES ASSUME Init PROVE IInv
    OBVIOUS
<1>1. Registered = {}
    BY DEF Init, Registered
<1>2. TypeOK
    <2>1. 0 \in 0 .. Timeout
        BY ObserverAssumption DEF ObserverAssumption
    <2> QED BY <2>1 DEF Init, TypeOK, InCall
<1> QED BY <1>1, <1>2
    DEF Init, IInv, InCall, EntriesInv, KillOnlyOverdue, Unwatched, ParkInv, WakeupPending

(* The worker's steps.                                                     *)
WorkerStep(w) ==
    \/ Capture(w) \/ Register(w) \/ Notify(w) \/ EnterGuest(w) \/ GuestReturns(w)
    \/ StopTimeout(w) \/ CallFails(w) \/ LetGo(w) \/ Tick(w)

LEMMA TypeStep == TypeOK /\ [Next]_vars => TypeOK'
<1> SUFFICES ASSUME TypeOK, [Next]_vars PROVE TypeOK'
    OBVIOUS
<1> USE ObserverAssumption DEF ObserverAssumption, TypeOK, InCall, Goto, workerVars
<1>1. ASSUME NEW w \in Workers, WorkerStep(w) PROVE TypeOK'
    <2>1. CASE Capture(w)      BY <2>1 DEF Capture
    <2>2. CASE Register(w)     BY <2>2 DEF Register
    <2>3. CASE Notify(w)       BY <2>3 DEF Notify, NotifyOne
    <2>4. CASE EnterGuest(w)   BY <2>4 DEF EnterGuest
    <2>5. CASE GuestReturns(w) BY <2>5 DEF GuestReturns
    <2>6. CASE StopTimeout(w)  BY <2>6 DEF StopTimeout
    <2>7. CASE CallFails(w)    BY <2>7 DEF CallFails
    <2>8. CASE LetGo(w)        BY <2>8 DEF LetGo
    <2>9. CASE Tick(w)
        <3>1. \A t \in 0 .. Timeout : Plus1(t) \in 0 .. Timeout
            BY DEF Plus1
        <3> QED BY <2>9, <3>1 DEF Tick
    <2> QED BY <1>1, <2>1, <2>2, <2>3, <2>4, <2>5, <2>6, <2>7, <2>8, <2>9 DEF WorkerStep
<1>2. CASE ObserverStep
    <2>1. ASSUME NEW w \in Workers, ScanOverdue(w) \/ ScanInTime(w) PROVE TypeOK'
        BY <2>1 DEF ScanOverdue, ScanInTime, Kill
    <2>2. CASE CheckStop \/ TestEmpty \/ Park \/ LockForScan \/ UnlockAfterScan \/ SleepEnds
        BY <2>2 DEF CheckStop, TestEmpty, Park, LockForScan, UnlockAfterScan, SleepEnds, Registered
    <2> QED BY <1>2, <2>1, <2>2 DEF ObserverStep
<1>3. CASE SpuriousWake \/ DropSignal \/ DropNotify
    BY <1>3 DEF SpuriousWake, DropSignal, DropNotify, NotifyOne
<1>4. CASE UNCHANGED vars
    BY <1>4 DEF vars
<1> QED BY <1>1, <1>2, <1>3, <1>4 DEF Next, WorkerStep

(* Entries appear only in start_timeout, between the clock read and the    *)
(* notification, and every way out of a call removes them first.           *)
LEMMA EntriesStep == TypeOK /\ EntriesInv /\ [Next]_vars => EntriesInv'
<1> SUFFICES ASSUME TypeOK, EntriesInv, [Next]_vars PROVE EntriesInv'
    OBVIOUS
<1> USE ObserverAssumption DEF ObserverAssumption, TypeOK, EntriesInv, InCall, Goto, workerVars
<1>1. ASSUME NEW w \in Workers, WorkerStep(w) PROVE EntriesInv'
    <2>1. CASE Capture(w)      BY <2>1 DEF Capture
    <2>2. CASE Register(w)     BY <2>2 DEF Register
    <2>3. CASE Notify(w)       BY <2>3 DEF Notify
    <2>4. CASE EnterGuest(w)   BY <2>4 DEF EnterGuest
    <2>5. CASE GuestReturns(w) BY <2>5 DEF GuestReturns
    <2>6. CASE StopTimeout(w)  BY <2>6 DEF StopTimeout
    <2>7. CASE CallFails(w)    BY <2>7 DEF CallFails
    <2>8. CASE LetGo(w)        BY <2>8 DEF LetGo
    <2>9. CASE Tick(w)
        <3>1. \A t \in 0 .. Timeout : Plus1(t) \in 0 .. Timeout
            BY DEF Plus1
        <3> QED BY <2>9, <3>1 DEF Tick
    <2> QED BY <1>1, <2>1, <2>2, <2>3, <2>4, <2>5, <2>6, <2>7, <2>8, <2>9 DEF WorkerStep
<1>2. CASE ObserverStep
    <2>1. ASSUME NEW w \in Workers, ScanOverdue(w) \/ ScanInTime(w) PROVE EntriesInv'
        BY <2>1 DEF ScanOverdue, ScanInTime, Kill
    <2>2. CASE CheckStop \/ TestEmpty \/ Park \/ LockForScan \/ UnlockAfterScan \/ SleepEnds
        BY <2>2 DEF CheckStop, TestEmpty, Park, LockForScan, UnlockAfterScan, SleepEnds
    <2> QED BY <1>2, <2>1, <2>2 DEF ObserverStep
<1>3. CASE SpuriousWake \/ DropSignal \/ DropNotify
    BY <1>3 DEF SpuriousWake, DropSignal, DropNotify
<1>4. CASE UNCHANGED vars
    BY <1>4 DEF vars
<1> QED BY <1>1, <1>2, <1>3, <1>4 DEF Next, WorkerStep

(* The scan interrupts a call by the entry of that call, and what an       *)
(* entry has counted is what the call has used.                            *)
LEMMA KillStep == IInv /\ [Next]_vars => KillOnlyOverdue'
<1> SUFFICES ASSUME IInv, [Next]_vars PROVE KillOnlyOverdue'
    OBVIOUS
<1> USE ObserverAssumption
    DEF ObserverAssumption, IInv, TypeOK, EntriesInv, KillOnlyOverdue, Unwatched, Registered,
        InCall, Goto, workerVars
<1>1. ASSUME NEW w \in Workers, WorkerStep(w) PROVE KillOnlyOverdue'
    <2>1. CASE Capture(w)      BY <2>1 DEF Capture
    <2>2. CASE Register(w)     BY <2>2 DEF Register
    <2>3. CASE Notify(w)       BY <2>3 DEF Notify
    <2>4. CASE EnterGuest(w)   BY <2>4 DEF EnterGuest
    <2>5. CASE GuestReturns(w) BY <2>5 DEF GuestReturns
    <2>6. CASE StopTimeout(w)  BY <2>6 DEF StopTimeout
    <2>7. CASE CallFails(w)    BY <2>7 DEF CallFails
    <2>8. CASE LetGo(w)        BY <2>8 DEF LetGo
    <2>9. CASE Tick(w)
        <3>1. \A t \in 0 .. Timeout : Plus1(t) \in 0 .. Timeout
            BY DEF Plus1
        <3> QED BY <2>9, <3>1 DEF Tick
    <2> QED BY <1>1, <2>1, <2>2, <2>3, <2>4, <2>5, <2>6, <2>7, <2>8, <2>9 DEF WorkerStep
<1>2. CASE ObserverStep
    <2>1. ASSUME NEW w \in Workers, ScanOverdue(w) \/ ScanInTime(w) PROVE KillOnlyOverdue'
        BY <2>1 DEF ScanOverdue, ScanInTime, Kill
    <2>2. CASE CheckStop \/ TestEmpty \/ Park \/ LockForScan \/ UnlockAfterScan \/ SleepEnds
        BY <2>2 DEF CheckStop, TestEmpty, Park, LockForScan, UnlockAfterScan, SleepEnds
    <2> QED BY <1>2, <2>1, <2>2 DEF ObserverStep
<1>3. CASE SpuriousWake \/ DropSignal \/ DropNotify
    BY <1>3 DEF SpuriousWake, DropSignal, DropNotify
<1>4. CASE UNCHANGED vars
    BY <1>4 DEF vars
<1> QED BY <1>1, <1>2, <1>3, <1>4 DEF Next, WorkerStep

(* The mutex makes the test and the wait one step for start_timeout: an    *)
(* entry inserted before the test is seen, one inserted after it is        *)
(* followed by a notification that finds the observer waiting.             *)
LEMMA WakeupStep == IInv /\ [Next]_vars => (ParkInv /\ WakeupPending)'
<1> SUFFICES ASSUME IInv, [Next]_vars PROVE (ParkInv /\ WakeupPending)'
    OBVIOUS
<1> USE DEF IInv, TypeOK, ParkInv, WakeupPending, Registered, Goto, workerVars
<1>1. ASSUME NEW w \in Workers, WorkerStep(w) PROVE (ParkInv /\ WakeupPending)'
    <2>1. CASE Register(w)
        BY <2>1 DEF Register, HoldsMutex
    <2>2. CASE Notify(w)
        BY <2>2 DEF Notify, NotifyOne
    <2>3. CASE StopTimeout(w)
        BY <2>3 DEF StopTimeout, HoldsMutex
    <2>4. CASE Tick(w)
        <3>1. Registered' = Registered
            BY <2>4, ObserverAssumption DEF ObserverAssumption, Tick, Plus1
        <3> QED BY <2>4, <3>1 DEF Tick
    <2>5. CASE Capture(w) \/ EnterGuest(w) \/ GuestReturns(w) \/ CallFails(w) \/ LetGo(w)
        BY <2>5 DEF Capture, EnterGuest, GuestReturns, CallFails, LetGo
    <2> QED BY <1>1, <2>1, <2>2, <2>3, <2>4, <2>5 DEF WorkerStep
<1>2. CASE ObserverStep
    <2>1. ASSUME NEW w \in Workers, ScanOverdue(w) \/ ScanInTime(w)
          PROVE  (ParkInv /\ WakeupPending)'
        BY <2>1 DEF ScanOverdue, ScanInTime
    <2>2. CASE CheckStop \/ TestEmpty \/ Park \/ LockForScan \/ UnlockAfterScan \/ SleepEnds
        BY <2>2 DEF CheckStop, TestEmpty, Park, LockForScan, UnlockAfterScan, SleepEnds
    <2> QED BY <1>2, <2>1, <2>2 DEF ObserverStep
<1>3. CASE SpuriousWake \/ DropSignal \/ DropNotify
    BY <1>3 DEF SpuriousWake, DropSignal, DropNotify, NotifyOne
<1>4. CASE UNCHANGED vars
    BY <1>4 DEF vars
<1> QED BY <1>1, <1>2, <1>3, <1>4 DEF Next, WorkerStep

(* Every reachable state satisfies the inductive invariant.                *)
THEOREM Invariance == Spec => []IInv
<1>1. IInv /\ [Next]_vars => IInv'
    BY TypeStep, EntriesStep, KillStep, WakeupStep DEF IInv
<1> QED BY InvInit, <1>1, PTL DEF Spec

(* The observer never samples the clock of a thread outside a call, for    *)
(* any number of workers.                                                  *)
THEOREM OnlyCallsAreMonitored == Spec => []NoStaleMonitor
<1>1. IInv => NoStaleMonitor
    BY DEF IInv, EntriesInv, NoStaleMonitor, Registered
<1> QED BY <1>1, Invariance, PTL

(* No call is interrupted, or left unwatched, before it has used its       *)
(* timeout.                                                                *)
THEOREM NoEarlyKill == Spec => []KillOnlyOverdue
<1>1. IInv => KillOnlyOverdue
    BY DEF IInv
<1> QED BY <1>1, Invariance, PTL

(* No registration is lost between the observer's test and its wait.       *)
THEOREM NoLostRegistration == Spec => []WakeupPending
<1>1. IInv => WakeupPending
    BY DEF IInv
<1> QED BY <1>1, Invariance, PTL

(* The observer's entries, clocks and threads are always well formed.      *)
THEOREM TypeCorrect == Spec => []TypeOK
<1>1. IInv => TypeOK
    BY DEF IInv
<1> QED BY <1>1, Invariance, PTL

-----------------------------------------------------------------------------
(* What MonitoredGuestEnds rests on: with an entry to watch the observer   *)
(* thread is awake and comes round to the scan, and the entry stays until  *)
(* the scan finds it overdue.                                              *)

(* drop signals after the last worker let go, and the thread ends only on  *)
(* its signal.                                                             *)
DropInv ==
    /\ shouldStop \/ dpc # "held" => \A w \in Workers : pc[w] = "gone"
    /\ opc = "stopped" => shouldStop

(* retain visits entries of the map, which the mutex keeps as they were.   *)
ScanInv == opc = "scanning" => toScan \subseteq Registered

LEMMA DropScanInit == Init => DropInv /\ ScanInv
BY DEF Init, DropInv, ScanInv

LEMMA DropStep == TypeOK /\ DropInv /\ [Next]_vars => DropInv'
<1> SUFFICES ASSUME TypeOK, DropInv, [Next]_vars PROVE DropInv'
    OBVIOUS
<1> USE DEF DropInv, TypeOK, Goto, workerVars
<1>1. ASSUME NEW w \in Workers, WorkerStep(w) PROVE DropInv'
    <2>1. pc[w] # "gone" /\ shouldStop' = shouldStop /\ dpc' = dpc
          /\ (opc' = "stopped" => opc = "stopped")
        BY <1>1, ObserverAssumption DEF WorkerStep, InCall, Capture, Register, Notify, NotifyOne,
            EnterGuest, GuestReturns, StopTimeout, CallFails, LetGo, Tick
    <2> QED BY <2>1
<1>2. CASE ObserverStep
    <2>1. ASSUME NEW w \in Workers, ScanOverdue(w) \/ ScanInTime(w) PROVE DropInv'
        BY <2>1 DEF ScanOverdue, ScanInTime, Kill
    <2>2. CASE CheckStop \/ TestEmpty \/ Park \/ LockForScan \/ UnlockAfterScan \/ SleepEnds
        BY <2>2 DEF CheckStop, TestEmpty, Park, LockForScan, UnlockAfterScan, SleepEnds
    <2> QED BY <1>2, <2>1, <2>2 DEF ObserverStep
<1>3. CASE SpuriousWake \/ DropSignal \/ DropNotify
    BY <1>3 DEF SpuriousWake, DropSignal, DropNotify, NotifyOne
<1>4. CASE UNCHANGED vars
    BY <1>4 DEF vars
<1> QED BY <1>1, <1>2, <1>3, <1>4 DEF Next, WorkerStep

LEMMA ScanStep == TypeOK /\ ScanInv /\ [Next]_vars => ScanInv'
<1> SUFFICES ASSUME TypeOK, ScanInv, [Next]_vars PROVE ScanInv'
    OBVIOUS
<1> USE DEF ScanInv, TypeOK, Registered, Goto, workerVars
<1>1. ASSUME NEW w \in Workers, WorkerStep(w) PROVE ScanInv'
    <2>1. CASE Register(w) \/ StopTimeout(w)
        BY <2>1 DEF Register, StopTimeout, HoldsMutex
    <2>2. CASE Notify(w)
        BY <2>2 DEF Notify, NotifyOne
    <2>3. CASE Tick(w)
        <3>1. Registered' = Registered
            BY <2>3, ObserverAssumption DEF ObserverAssumption, Tick, Plus1
        <3> QED BY <2>3, <3>1 DEF Tick
    <2>4. CASE Capture(w) \/ EnterGuest(w) \/ GuestReturns(w) \/ CallFails(w) \/ LetGo(w)
        BY <2>4 DEF Capture, EnterGuest, GuestReturns, CallFails, LetGo
    <2> QED BY <1>1, <2>1, <2>2, <2>3, <2>4 DEF WorkerStep
<1>2. CASE ObserverStep
    <2>1. ASSUME NEW w \in Workers, ScanOverdue(w) \/ ScanInTime(w) PROVE ScanInv'
        BY <2>1 DEF ScanOverdue, ScanInTime
    <2>2. CASE CheckStop \/ TestEmpty \/ Park \/ LockForScan \/ UnlockAfterScan \/ SleepEnds
        BY <2>2 DEF CheckStop, TestEmpty, Park, LockForScan, UnlockAfterScan, SleepEnds
    <2> QED BY <1>2, <2>1, <2>2 DEF ObserverStep
<1>3. CASE SpuriousWake \/ DropSignal \/ DropNotify
    BY <1>3 DEF SpuriousWake, DropSignal, DropNotify, NotifyOne
<1>4. CASE UNCHANGED vars
    BY <1>4 DEF vars
<1> QED BY <1>1, <1>2, <1>3, <1>4 DEF Next, WorkerStep

LEMMA WatchInvariance == Spec => [](IInv /\ DropInv /\ ScanInv)
<1>1. IInv => TypeOK
    BY DEF IInv
<1> QED BY <1>1, Invariance, DropScanInit, DropStep, ScanStep, PTL DEF Spec

(* A monitored call keeps the observer thread alive: it neither sleeps on  *)
(* the condition variable for good nor shuts down while there is an entry. *)
Awake ==
    Registered # {} =>
        /\ ~shouldStop
        /\ opc \notin {"parking", "stopped"}
        /\ opc = "waiting" => \E w \in Workers : pc[w] = "notifying"

(* The observer thread never shuts down, and never waits without a         *)
(* notification on its way, while some call is monitored.                  *)
THEOREM ObserverStaysAwake == Spec => []Awake
<1>1. IInv /\ DropInv => Awake
    <2> SUFFICES ASSUME IInv, DropInv, Registered # {} PROVE Awake
        BY DEF Awake
    <2>1. PICK w \in Workers : monitors[w] # None
        BY DEF Registered
    <2>2. pc[w] # "gone"
        BY <2>1 DEF IInv, EntriesInv, InCall
    <2> QED BY <2>2 DEF IInv, DropInv, ParkInv, WakeupPending, Awake
<1> QED BY <1>1, WatchInvariance, PTL

(* Steps of the observer thread from each label to the scan.               *)
ToScan(label) == CASE label = "sleeping" -> 4 [] label = "check" -> 3 [] label = "testing" -> 2
                   [] label = "locking" -> 1 [] OTHER -> 0

(* While a call is monitored, every step of the observer thread takes it   *)
(* nearer to a scan, visits one more entry of the scan, or ends a scan     *)
(* that has visited them all.                                              *)
ScansOn ==
    Registered # {} /\ ObserverStep =>
        \/ ToScan(opc') < ToScan(opc)
        \/ /\ opc = "scanning" /\ opc' = "scanning"
           /\ \E w \in toScan : toScan' = toScan \ {w}
        \/ opc = "scanning" /\ toScan = {} /\ opc' = "sleeping"

(* The observer thread, scheduled again and again, comes round to every    *)
(* monitored call: nothing else it can do detains it.                      *)
THEOREM ObserverScansOn == Spec => [][ScansOn]_vars
<1>1. IInv /\ DropInv /\ [Next]_vars => [ScansOn]_vars
    <2> SUFFICES ASSUME IInv, DropInv, Registered # {}, ObserverStep PROVE ScansOn
        BY DEF ScansOn
    <2>1. ~shouldStop /\ opc # "parking"
        <3>1. PICK w \in Workers : monitors[w] # None
            BY DEF Registered
        <3>2. pc[w] # "gone"
            BY <3>1 DEF IInv, EntriesInv, InCall
        <3> QED BY <3>2 DEF IInv, DropInv, ParkInv
    <2>2. ASSUME NEW w \in Workers, ScanOverdue(w) \/ ScanInTime(w) PROVE ScansOn
        BY <2>2 DEF ScanOverdue, ScanInTime, ScansOn
    <2>3. CASE CheckStop \/ TestEmpty \/ Park \/ LockForScan \/ UnlockAfterScan \/ SleepEnds
        BY <2>1, <2>3 DEF CheckStop, TestEmpty, Park, LockForScan, UnlockAfterScan, SleepEnds,
            ScansOn, ToScan
    <2> QED BY <2>2, <2>3 DEF ObserverStep
<1> QED BY <1>1, WatchInvariance, PTL DEF Spec

(* The entry of a running guest goes only in the scan that interrupts it.  *)
WatchedToTheEnd ==
    \A w \in Registered : pc[w] = "running" =>
        w \in Registered' \/ (monitors[w] = Timeout /\ pc'[w] = "interrupted")

(* A guest that runs while it is monitored stays monitored until it        *)
(* returns or is interrupted with its timeout used: no other worker's      *)
(* call, and no scan that finds it in time, takes it off the list.         *)
THEOREM RunningGuestsStayWatched == Spec => [][WatchedToTheEnd]_vars
<1>1. TypeOK /\ [Next]_vars => [WatchedToTheEnd]_vars
    <2> SUFFICES ASSUME TypeOK, Next,
                        NEW w \in Registered, pc[w] = "running"
                 PROVE  w \in Registered' \/ (monitors[w] = Timeout /\ pc'[w] = "interrupted")
        BY DEF WatchedToTheEnd
    <2> USE ObserverAssumption DEF ObserverAssumption, TypeOK, Registered, Goto, workerVars
    <2>1. ASSUME NEW v \in Workers, WorkerStep(v) PROVE w \in Registered'
        BY <2>1 DEF WorkerStep, Capture, Register, Notify, EnterGuest, GuestReturns, StopTimeout,
            CallFails, LetGo, Tick, Plus1
    <2>2. ASSUME NEW v \in Workers, ScanOverdue(v) \/ ScanInTime(v)
          PROVE  w \in Registered' \/ (monitors[w] = Timeout /\ pc'[w] = "interrupted")
        BY <2>2 DEF ScanOverdue, ScanInTime, Kill
    <2>3. CASE CheckStop \/ TestEmpty \/ Park \/ LockForScan \/ UnlockAfterScan \/ SleepEnds
        BY <2>3 DEF CheckStop, TestEmpty, Park, LockForScan, UnlockAfterScan, SleepEnds
    <2>4. CASE SpuriousWake \/ DropSignal \/ DropNotify
        BY <2>4 DEF SpuriousWake, DropSignal, DropNotify
    <2> QED BY <2>1, <2>2, <2>3, <2>4 DEF Next, ObserverStep, WorkerStep
<1> QED BY <1>1, TypeCorrect, PTL DEF Spec

=============================================================================
