------------------------ MODULE BenchmarkDriver_proofs ------------------------
(***************************************************************************)
(* Proofs about BenchmarkDriver for every number of configurations.        *)
(***************************************************************************)
EXTENDS BenchmarkDriver, TLAPS

(* Configurations ahead of the driver have no process and no new bundle,   *)
(* those behind it have ended well.                                        *)
Untouched(c) ==
    server[c] = "none" /\ load[c] = "none" /\ bundle[c].status \in {"none", "stale"}

OrderInv ==
    /\ \A c \in Configurations : c > current => Untouched(c)
    /\ \A c \in Configurations : c < current => server[c] = "ok" /\ load[c] = "ok"
    /\ pc \in {"idle", "launch"} => Untouched(current)

(* What the driver has decided ...                                         *)
DecisionInv ==
    /\ pc \in Waiting \cup {"launch", "shutdown"} => outcome = "none" /\ exitCode = 0
    /\ pc \in Cleaning \cup {"save", "saving", "finished"} =>
        /\ outcome \in {"success", "failed"}
        /\ outcome = "failed" => exitCode = 1
    /\ pc \in {"cleanLoad", "save", "saving", "finished"} /\ outcome = "success" =>
        exitCode = 0
    /\ pc \in {"cleanServer", "reap"} => outcome = "failed"

(* ... what it knows of its children and files ...                         *)
ChildrenInv ==
    /\ pc = "shutdown" => load[current] = "ok"
    /\ pc \notin {"idle", "launch"} /\ outcome = "success" =>
        /\ report[current] = "whole" /\ memory[current] = "whole"
        /\ load[current] = "ok" /\ server[current] = "ok"
    /\ pc \in Waiting \cup Cleaning \cup {"shutdown", "save", "saving"} =>
        report[current] # "stale" /\ memory[current] # "stale"

(* ... and what it has written.                                            *)
BundleInv ==
    /\ pc \in Waiting \cup Cleaning \cup {"shutdown", "save"} =>
        bundle[current].status = "none"
    /\ pc = "saving" => bundle[current].status = "partial"
    /\ pc = "finished" => bundle[current].status = outcome
    /\ pc = "exited" => (exitCode = 0 <=> bundle[current].status = "success")

(* The site is written after the last driver has exited.                   *)
SiteInv ==
    /\ collector \in {"writing", "done"} => pc = "exited"
    /\ site.run # "none" =>
        /\ collector # "collecting"
        /\ pc = "exited"
        /\ \A c \in Configurations : bundle[c].status = "success"
    /\ site.next \/ site.index => site.run = "whole"

IInv ==
    /\ TypeOK
    /\ OrderInv
    /\ DecisionInv
    /\ ChildrenInv
    /\ BundleInv
    /\ SiteInv
    /\ ResultsAreWhole

LEMMA InvInit == Init => IInv
<1> SUFFICES ASSUME Init PROVE IInv
    OBVIOUS
<1>1. 1 \in Configurations
    BY CountAssumption DEF CountAssumption, Configurations
<1>2. TypeOK
    <2>1. PICK old \in {"none", "stale"} :
            /\ memory = [c \in Configurations |-> old]
            /\ report = [c \in Configurations |-> old]
            /\ bundle = [c \in Configurations |-> Bundle(old, old, old)]
        BY DEF Init
    <2>2. bundle \in [Configurations -> Bundles]
        BY <2>1 DEF Bundles, Bundle, Contents
    <2>3. memory \in [Configurations -> Contents] /\ report \in [Configurations -> Contents]
        BY <2>1 DEF Contents
    <2>4. site \in [run: Contents, next: BOOLEAN, index: BOOLEAN]
        BY DEF Init, Contents
    <2> QED BY <1>1, <2>2, <2>3, <2>4 DEF Init, TypeOK
<1>3. OrderInv
    BY <1>1 DEF Init, OrderInv, Untouched, Configurations, Bundle
<1>4. DecisionInv /\ ChildrenInv /\ BundleInv
    BY DEF Init, DecisionInv, ChildrenInv, BundleInv, Waiting, Cleaning
<1>5. SiteInv /\ ResultsAreWhole
    BY DEF Init, SiteInv, ResultsAreWhole, Bundle
<1> QED BY <1>2, <1>3, <1>4, <1>5 DEF IInv

LEMMA WriteRunEffect ==
    ASSUME TypeOK, WriteRun
    PROVE  /\ site' \in [run: Contents, next: BOOLEAN, index: BOOLEAN]
           /\ site'.next = site.next /\ site'.index = site.index
           /\ site.run # "whole"
<1> DEFINE content == IF site.run = "none" THEN "partial" ELSE "whole"
<1>1. site \in [run: Contents, next: BOOLEAN, index: BOOLEAN]
    BY DEF TypeOK
<1>2. site' = [site EXCEPT !.run = content]
    BY DEF WriteRun
<1>3. content \in Contents
    BY DEF Contents
<1> HIDE DEF content
<1> QED BY <1>1, <1>2, <1>3 DEF WriteRun

LEMMA WriteIndexEffect ==
    ASSUME TypeOK, WriteIndex
    PROVE  /\ site' \in [run: Contents, next: BOOLEAN, index: BOOLEAN]
           /\ site'.run = "whole"
           /\ collector' \in {collector, "done"}
<1>1. site \in [run: Contents, next: BOOLEAN, index: BOOLEAN]
    BY DEF TypeOK
<1>2. CASE site.next
    BY <1>1, <1>2 DEF WriteIndex
<1>3. CASE ~site.next
    BY <1>1, <1>3 DEF WriteIndex
<1> QED BY <1>2, <1>3

LEMMA TypeStep == IInv /\ [Next]_vars => TypeOK'
<1> SUFFICES ASSUME IInv, [Next]_vars PROVE TypeOK'
    OBVIOUS
<1> USE DEF Set, Goto, collectorVars, driverVars, serverVars, loadVars, TypeOK, Contents,
    Bundles, Bundle, NoBundle, ServerRunning, ServerEnded, DriverUp, Waiting, Cleaning
<1>1. TypeOK /\ DecisionInv /\ ChildrenInv
    BY DEF IInv
<1>2. CASE Launch
    BY <1>1, <1>2 DEF Launch
<1>3. CASE LaunchFails
    BY <1>1, <1>3 DEF LaunchFails
<1>4. CASE OnReady
    BY <1>1, <1>4 DEF OnReady
<1>5. CASE OnResponse
    BY <1>1, <1>5 DEF OnResponse
<1>6. CASE OnLoadEnd
    BY <1>1, <1>6 DEF OnLoadEnd, EndStdin
<1>7. CASE Measure
    BY <1>1, <1>7 DEF Measure, Fail
<1>8. CASE Abandon
    BY <1>1, <1>8 DEF Abandon, Fail
<1>9. CASE Expire
    BY <1>1, <1>9 DEF Expire, Fail
<1>10. CASE CleanLoad
    BY <1>1, <1>10 DEF CleanLoad, AskServer, EndStdin
<1>11. CASE CleanLoadExpires
    BY <1>1, <1>11 DEF CleanLoadExpires, AskServer, EndStdin
<1>12. CASE CleanServer
    BY <1>1, <1>12 DEF CleanServer
<1>13. CASE CleanServerExpires
    BY <1>1, <1>13 DEF CleanServerExpires
<1>14. CASE BeginSave
    BY <1>1, <1>14 DEF BeginSave
<1>15. CASE Save
    BY <1>1, <1>15 DEF Save
<1>16. CASE SaveFails
    BY <1>1, <1>16 DEF SaveFails
<1>17. CASE Exit
    BY <1>1, <1>17 DEF Exit
<1>18. CASE Interrupt
    BY <1>1, <1>18 DEF Interrupt, Fail
<1>19. CASE Killed
    BY <1>1, <1>19 DEF Killed, EndStdin
<1>20. CASE StartDriver
    BY <1>1, <1>20 DEF StartDriver, UnchangedByCollector
<1>21. CASE NextConfiguration
    BY <1>1, <1>21, CountAssumption DEF NextConfiguration, Succeeded, UnchangedByCollector,
        CountAssumption, Configurations, BundleInv
<1>22. CASE StopCollecting
    BY <1>1, <1>22 DEF StopCollecting, UnchangedByCollector
<1>23. CASE WriteSite
    <2>1. CASE WriteRun
        BY <1>1, <1>23, <2>1, WriteRunEffect DEF WriteSite, WriteRun, UnchangedByCollector
    <2>2. CASE WriteIndex
        <3>1. site.run = "whole"
            BY <2>2 DEF WriteIndex
        <3> QED BY <1>1, <1>23, <2>2, <3>1, WriteIndexEffect DEF WriteSite, UnchangedByCollector
    <2> QED BY <1>23, <2>1, <2>2 DEF WriteSite
<1>24. CASE CollectorDies
    BY <1>1, <1>24 DEF CollectorDies, UnchangedByCollector
<1>25. ASSUME NEW c \in Configurations, Monitor(c) PROVE TypeOK'
    BY <1>1, <1>25 DEF Monitor, UnchangedByServer
<1>26. ASSUME NEW c \in Configurations, Announce(c) PROVE TypeOK'
    BY <1>1, <1>26 DEF Announce, UnchangedByServer
<1>27. ASSUME NEW c \in Configurations, ReadStdin(c) PROVE TypeOK'
    BY <1>1, <1>27 DEF ReadStdin, UnchangedByServer
<1>28. ASSUME NEW c \in Configurations, SaveMemory(c) PROVE TypeOK'
    BY <1>1, <1>28 DEF SaveMemory, UnchangedByServer
<1>29. ASSUME NEW c \in Configurations, ServerPanics(c) PROVE TypeOK'
    BY <1>1, <1>29 DEF ServerPanics, UnchangedByServer
<1>30. ASSUME NEW c \in Configurations, ServerLost(c) PROVE TypeOK'
    BY <1>1, <1>30 DEF ServerLost, UnchangedByServer
<1>31. ASSUME NEW c \in Configurations, LoadEnds(c) PROVE TypeOK'
    BY <1>1, <1>31 DEF LoadEnds
<1>32. ASSUME NEW c \in Configurations, LoadLost(c) PROVE TypeOK'
    BY <1>1, <1>32 DEF LoadLost
<1>33. CASE UNCHANGED vars
    BY <1>1, <1>33 DEF vars
<1> QED BY <1>2, <1>3, <1>4, <1>5, <1>6, <1>7, <1>8, <1>9, <1>10, <1>11, <1>12, <1>13, <1>14,
    <1>15, <1>16, <1>17, <1>18, <1>19, <1>20, <1>21, <1>22, <1>23, <1>24, <1>25, <1>26, <1>27,
    <1>28, <1>29, <1>30, <1>31, <1>32, <1>33 DEF Next, Driver, Await, Clean, Collector, Server

LEMMA OrderStep == IInv /\ [Next]_vars => OrderInv'
<1> SUFFICES ASSUME IInv, [Next]_vars PROVE OrderInv'
    OBVIOUS
<1> USE DEF Set, Goto, collectorVars, driverVars, serverVars, loadVars, TypeOK, Contents,
    Bundles, Bundle, NoBundle, ServerRunning, ServerEnded, DriverUp, Waiting, Cleaning,
    OrderInv, Untouched, Configurations
<1>1. TypeOK /\ OrderInv /\ DecisionInv /\ ChildrenInv /\ BundleInv /\ ResultsAreWhole
    BY DEF IInv
<1>2. CASE Launch
    BY <1>1, <1>2 DEF Launch
<1>3. CASE LaunchFails
    BY <1>1, <1>3 DEF LaunchFails
<1>4. CASE OnReady
    BY <1>1, <1>4 DEF OnReady
<1>5. CASE OnResponse
    BY <1>1, <1>5 DEF OnResponse
<1>6. CASE OnLoadEnd
    BY <1>1, <1>6 DEF OnLoadEnd, EndStdin
<1>7. CASE Measure
    <2>1. CASE report[current] = "whole" /\ memory[current] = "whole"
        BY <1>1, <1>7, <2>1 DEF Measure
    <2>2. CASE ~(report[current] = "whole" /\ memory[current] = "whole")
        <3>1. UNCHANGED <<current, server, load, bundle>> /\ pc' = "cleanLoad"
            BY <1>7, <2>2 DEF Measure, Fail
        <3> QED BY <1>1, <3>1
    <2> QED BY <2>1, <2>2
<1>8. CASE Abandon
    BY <1>1, <1>8 DEF Abandon, Fail
<1>9. CASE Expire
    BY <1>1, <1>9 DEF Expire, Fail
<1>10. CASE CleanLoad
    BY <1>1, <1>10 DEF CleanLoad, AskServer, EndStdin
<1>11. CASE CleanLoadExpires
    BY <1>1, <1>11 DEF CleanLoadExpires, AskServer, EndStdin
<1>12. CASE CleanServer
    BY <1>1, <1>12 DEF CleanServer
<1>13. CASE CleanServerExpires
    BY <1>1, <1>13 DEF CleanServerExpires
<1>14. CASE BeginSave
    BY <1>1, <1>14 DEF BeginSave
<1>15. CASE Save
    BY <1>1, <1>15 DEF Save
<1>16. CASE SaveFails
    BY <1>1, <1>16 DEF SaveFails
<1>17. CASE Exit
    BY <1>1, <1>17 DEF Exit
<1>18. CASE Interrupt
    <2>1. CASE pc \in Waiting
        BY <1>1, <1>18, <2>1 DEF Interrupt, Fail
    <2>2. CASE pc \notin Waiting
        BY <1>1, <1>18, <2>2 DEF Interrupt
    <2> QED BY <2>1, <2>2
<1>19. CASE Killed
    BY <1>1, <1>19 DEF Killed, EndStdin
<1>20. CASE StartDriver
    BY <1>1, <1>20 DEF StartDriver, UnchangedByCollector
<1>21. CASE NextConfiguration
    <2>1. exitCode = 0 /\ pc = "exited" /\ server[current] = "ok" /\ load[current] = "ok"
        BY <1>1, <1>21 DEF NextConfiguration, Succeeded, BundleInv, ResultsAreWhole
    <2>2. UNCHANGED <<server, load, bundle>>
        BY <1>21 DEF NextConfiguration, UnchangedByCollector
    <2>3. \/ current' = current + 1 /\ current < N /\ pc' = "idle"
          \/ UNCHANGED <<current, pc>>
        BY <1>21 DEF NextConfiguration
    <2> QED BY <1>1, <2>1, <2>2, <2>3, CountAssumption DEF CountAssumption
<1>22. CASE StopCollecting
    BY <1>1, <1>22 DEF StopCollecting, UnchangedByCollector
<1>23. CASE WriteSite
    BY <1>1, <1>23 DEF WriteSite, WriteRun, WriteIndex, UnchangedByCollector
<1>24. CASE CollectorDies
    BY <1>1, <1>24 DEF CollectorDies, UnchangedByCollector
<1>25. ASSUME NEW c \in Configurations, Monitor(c) PROVE OrderInv'
    BY <1>1, <1>25 DEF Monitor, UnchangedByServer
<1>26. ASSUME NEW c \in Configurations, Announce(c) PROVE OrderInv'
    BY <1>1, <1>26 DEF Announce, UnchangedByServer
<1>27. ASSUME NEW c \in Configurations, ReadStdin(c) PROVE OrderInv'
    <2>1. /\ server[c] \in {"starting", "serving"}
          /\ server' = Set(server, c, "saving") \/ server' = Set(server, c, "failed")
        BY <1>27 DEF ReadStdin
    <2>2. c = current
        BY <1>1, <1>27 DEF ReadStdin
    <2>3. UNCHANGED <<current, pc, load, bundle>>
        BY <1>27 DEF ReadStdin, UnchangedByServer
    <2>4. \A d \in Configurations : d # c => server'[d] = server[d]
        <3>1. CASE server' = Set(server, c, "saving")
            BY <1>1, <3>1
        <3>2. CASE server' = Set(server, c, "failed")
            BY <1>1, <3>2
        <3> QED BY <2>1, <3>1, <3>2
    <2>5. pc \notin {"idle", "launch"}
        BY <1>1, <2>1, <2>2
    <2> QED BY <1>1, <2>2, <2>3, <2>4, <2>5
<1>28. ASSUME NEW c \in Configurations, SaveMemory(c) PROVE OrderInv'
    BY <1>1, <1>28 DEF SaveMemory, UnchangedByServer
<1>29. ASSUME NEW c \in Configurations, ServerPanics(c) PROVE OrderInv'
    BY <1>1, <1>29 DEF ServerPanics, UnchangedByServer
<1>30. ASSUME NEW c \in Configurations, ServerLost(c) PROVE OrderInv'
    BY <1>1, <1>30 DEF ServerLost, UnchangedByServer
<1>31. ASSUME NEW c \in Configurations, LoadEnds(c) PROVE OrderInv'
    BY <1>1, <1>31 DEF LoadEnds
<1>32. ASSUME NEW c \in Configurations, LoadLost(c) PROVE OrderInv'
    BY <1>1, <1>32 DEF LoadLost
<1>33. CASE UNCHANGED vars
    BY <1>1, <1>33 DEF vars
<1> QED BY <1>2, <1>3, <1>4, <1>5, <1>6, <1>7, <1>8, <1>9, <1>10, <1>11, <1>12, <1>13, <1>14,
    <1>15, <1>16, <1>17, <1>18, <1>19, <1>20, <1>21, <1>22, <1>23, <1>24, <1>25, <1>26, <1>27,
    <1>28, <1>29, <1>30, <1>31, <1>32, <1>33 DEF Next, Driver, Await, Clean, Collector, Server

LEMMA DecisionStep == IInv /\ [Next]_vars => DecisionInv'
<1> SUFFICES ASSUME IInv, [Next]_vars PROVE DecisionInv'
    OBVIOUS
<1> USE DEF Set, Goto, collectorVars, driverVars, serverVars, loadVars, TypeOK, Contents,
    Bundles, Bundle, NoBundle, ServerRunning, ServerEnded, DriverUp, Waiting, Cleaning,
    ChildrenInv, DecisionInv
<1>1. TypeOK /\ DecisionInv /\ ChildrenInv
    BY DEF IInv
<1>2. CASE Launch
    BY <1>1, <1>2 DEF Launch
<1>3. CASE LaunchFails
    BY <1>1, <1>3 DEF LaunchFails
<1>4. CASE OnReady
    BY <1>1, <1>4 DEF OnReady
<1>5. CASE OnResponse
    BY <1>1, <1>5 DEF OnResponse
<1>6. CASE OnLoadEnd
    BY <1>1, <1>6 DEF OnLoadEnd, EndStdin
<1>7. CASE Measure
    BY <1>1, <1>7 DEF Measure, Fail
<1>8. CASE Abandon
    BY <1>1, <1>8 DEF Abandon, Fail
<1>9. CASE Expire
    BY <1>1, <1>9 DEF Expire, Fail
<1>10. CASE CleanLoad
    BY <1>1, <1>10 DEF CleanLoad, AskServer, EndStdin
<1>11. CASE CleanLoadExpires
    BY <1>1, <1>11 DEF CleanLoadExpires, AskServer, EndStdin
<1>12. CASE CleanServer
    BY <1>1, <1>12 DEF CleanServer
<1>13. CASE CleanServerExpires
    BY <1>1, <1>13 DEF CleanServerExpires
<1>14. CASE BeginSave
    BY <1>1, <1>14 DEF BeginSave
<1>15. CASE Save
    BY <1>1, <1>15 DEF Save
<1>16. CASE SaveFails
    BY <1>1, <1>16 DEF SaveFails
<1>17. CASE Exit
    BY <1>1, <1>17 DEF Exit
<1>18. CASE Interrupt
    BY <1>1, <1>18 DEF Interrupt, Fail
<1>19. CASE Killed
    BY <1>1, <1>19 DEF Killed, EndStdin
<1>20. CASE StartDriver
    BY <1>1, <1>20 DEF StartDriver, UnchangedByCollector
<1>21. CASE NextConfiguration
    BY <1>1, <1>21 DEF NextConfiguration, Succeeded, UnchangedByCollector
<1>22. CASE StopCollecting
    BY <1>1, <1>22 DEF StopCollecting, UnchangedByCollector
<1>23. CASE WriteSite
    BY <1>1, <1>23 DEF WriteSite, WriteRun, WriteIndex, UnchangedByCollector
<1>24. CASE CollectorDies
    BY <1>1, <1>24 DEF CollectorDies, UnchangedByCollector
<1>25. ASSUME NEW c \in Configurations, Monitor(c) PROVE DecisionInv'
    BY <1>1, <1>25 DEF Monitor, UnchangedByServer
<1>26. ASSUME NEW c \in Configurations, Announce(c) PROVE DecisionInv'
    BY <1>1, <1>26 DEF Announce, UnchangedByServer
<1>27. ASSUME NEW c \in Configurations, ReadStdin(c) PROVE DecisionInv'
    BY <1>1, <1>27 DEF ReadStdin, UnchangedByServer
<1>28. ASSUME NEW c \in Configurations, SaveMemory(c) PROVE DecisionInv'
    BY <1>1, <1>28 DEF SaveMemory, UnchangedByServer
<1>29. ASSUME NEW c \in Configurations, ServerPanics(c) PROVE DecisionInv'
    BY <1>1, <1>29 DEF ServerPanics, UnchangedByServer
<1>30. ASSUME NEW c \in Configurations, ServerLost(c) PROVE DecisionInv'
    BY <1>1, <1>30 DEF ServerLost, UnchangedByServer
<1>31. ASSUME NEW c \in Configurations, LoadEnds(c) PROVE DecisionInv'
    BY <1>1, <1>31 DEF LoadEnds
<1>32. ASSUME NEW c \in Configurations, LoadLost(c) PROVE DecisionInv'
    BY <1>1, <1>32 DEF LoadLost
<1>33. CASE UNCHANGED vars
    BY <1>1, <1>33 DEF vars
<1> QED BY <1>2, <1>3, <1>4, <1>5, <1>6, <1>7, <1>8, <1>9, <1>10, <1>11, <1>12, <1>13, <1>14,
    <1>15, <1>16, <1>17, <1>18, <1>19, <1>20, <1>21, <1>22, <1>23, <1>24, <1>25, <1>26, <1>27,
    <1>28, <1>29, <1>30, <1>31, <1>32, <1>33 DEF Next, Driver, Await, Clean, Collector, Server

LEMMA ChildrenStep == IInv /\ [Next]_vars => ChildrenInv'
<1> SUFFICES ASSUME IInv, [Next]_vars PROVE ChildrenInv'
    OBVIOUS
<1> USE DEF Set, Goto, collectorVars, driverVars, serverVars, loadVars, TypeOK, Contents,
    Bundles, Bundle, NoBundle, ServerRunning, ServerEnded, DriverUp, Waiting, Cleaning,
    DecisionInv, ChildrenInv
<1>1. TypeOK /\ DecisionInv /\ ChildrenInv
    BY DEF IInv
<1>2. CASE Launch
    BY <1>1, <1>2 DEF Launch
<1>3. CASE LaunchFails
    BY <1>1, <1>3 DEF LaunchFails
<1>4. CASE OnReady
    BY <1>1, <1>4 DEF OnReady
<1>5. CASE OnResponse
    BY <1>1, <1>5 DEF OnResponse
<1>6. CASE OnLoadEnd
    BY <1>1, <1>6 DEF OnLoadEnd, EndStdin
<1>7. CASE Measure
    BY <1>1, <1>7 DEF Measure, Fail
<1>8. CASE Abandon
    BY <1>1, <1>8 DEF Abandon, Fail
<1>9. CASE Expire
    BY <1>1, <1>9 DEF Expire, Fail
<1>10. CASE CleanLoad
    BY <1>1, <1>10 DEF CleanLoad, AskServer, EndStdin
<1>11. CASE CleanLoadExpires
    BY <1>1, <1>11 DEF CleanLoadExpires, AskServer, EndStdin
<1>12. CASE CleanServer
    BY <1>1, <1>12 DEF CleanServer
<1>13. CASE CleanServerExpires
    BY <1>1, <1>13 DEF CleanServerExpires
<1>14. CASE BeginSave
    BY <1>1, <1>14 DEF BeginSave
<1>15. CASE Save
    BY <1>1, <1>15 DEF Save
<1>16. CASE SaveFails
    BY <1>1, <1>16 DEF SaveFails
<1>17. CASE Exit
    BY <1>1, <1>17 DEF Exit
<1>18. CASE Interrupt
    BY <1>1, <1>18 DEF Interrupt, Fail
<1>19. CASE Killed
    BY <1>1, <1>19 DEF Killed, EndStdin
<1>20. CASE StartDriver
    BY <1>1, <1>20 DEF StartDriver, UnchangedByCollector
<1>21. CASE NextConfiguration
    BY <1>1, <1>21 DEF NextConfiguration, Succeeded, UnchangedByCollector
<1>22. CASE StopCollecting
    BY <1>1, <1>22 DEF StopCollecting, UnchangedByCollector
<1>23. CASE WriteSite
    BY <1>1, <1>23 DEF WriteSite, WriteRun, WriteIndex, UnchangedByCollector
<1>24. CASE CollectorDies
    BY <1>1, <1>24 DEF CollectorDies, UnchangedByCollector
<1>25. ASSUME NEW c \in Configurations, Monitor(c) PROVE ChildrenInv'
    BY <1>1, <1>25 DEF Monitor, UnchangedByServer
<1>26. ASSUME NEW c \in Configurations, Announce(c) PROVE ChildrenInv'
    BY <1>1, <1>26 DEF Announce, UnchangedByServer
<1>27. ASSUME NEW c \in Configurations, ReadStdin(c) PROVE ChildrenInv'
    BY <1>1, <1>27 DEF ReadStdin, UnchangedByServer
<1>28. ASSUME NEW c \in Configurations, SaveMemory(c) PROVE ChildrenInv'
    BY <1>1, <1>28 DEF SaveMemory, UnchangedByServer
<1>29. ASSUME NEW c \in Configurations, ServerPanics(c) PROVE ChildrenInv'
    BY <1>1, <1>29 DEF ServerPanics, UnchangedByServer
<1>30. ASSUME NEW c \in Configurations, ServerLost(c) PROVE ChildrenInv'
    BY <1>1, <1>30 DEF ServerLost, UnchangedByServer
<1>31. ASSUME NEW c \in Configurations, LoadEnds(c) PROVE ChildrenInv'
    BY <1>1, <1>31 DEF LoadEnds
<1>32. ASSUME NEW c \in Configurations, LoadLost(c) PROVE ChildrenInv'
    BY <1>1, <1>32 DEF LoadLost
<1>33. CASE UNCHANGED vars
    BY <1>1, <1>33 DEF vars
<1> QED BY <1>2, <1>3, <1>4, <1>5, <1>6, <1>7, <1>8, <1>9, <1>10, <1>11, <1>12, <1>13, <1>14,
    <1>15, <1>16, <1>17, <1>18, <1>19, <1>20, <1>21, <1>22, <1>23, <1>24, <1>25, <1>26, <1>27,
    <1>28, <1>29, <1>30, <1>31, <1>32, <1>33 DEF Next, Driver, Await, Clean, Collector, Server

LEMMA BundleStep == IInv /\ [Next]_vars => BundleInv'
<1> SUFFICES ASSUME IInv, [Next]_vars PROVE BundleInv'
    OBVIOUS
<1> USE DEF Set, Goto, collectorVars, driverVars, serverVars, loadVars, TypeOK, Contents,
    Bundles, Bundle, NoBundle, ServerRunning, ServerEnded, DriverUp, Waiting, Cleaning,
    DecisionInv, OrderInv, Untouched, BundleInv
<1>1. TypeOK /\ OrderInv /\ DecisionInv /\ BundleInv
    BY DEF IInv
<1>2. CASE Launch
    BY <1>1, <1>2 DEF Launch
<1>3. CASE LaunchFails
    BY <1>1, <1>3 DEF LaunchFails
<1>4. CASE OnReady
    BY <1>1, <1>4 DEF OnReady
<1>5. CASE OnResponse
    BY <1>1, <1>5 DEF OnResponse
<1>6. CASE OnLoadEnd
    BY <1>1, <1>6 DEF OnLoadEnd, EndStdin
<1>7. CASE Measure
    BY <1>1, <1>7 DEF Measure, Fail
<1>8. CASE Abandon
    BY <1>1, <1>8 DEF Abandon, Fail
<1>9. CASE Expire
    BY <1>1, <1>9 DEF Expire, Fail
<1>10. CASE CleanLoad
    BY <1>1, <1>10 DEF CleanLoad, AskServer, EndStdin
<1>11. CASE CleanLoadExpires
    BY <1>1, <1>11 DEF CleanLoadExpires, AskServer, EndStdin
<1>12. CASE CleanServer
    BY <1>1, <1>12 DEF CleanServer
<1>13. CASE CleanServerExpires
    BY <1>1, <1>13 DEF CleanServerExpires
<1>14. CASE BeginSave
    BY <1>1, <1>14 DEF BeginSave
<1>15. CASE Save
    BY <1>1, <1>15 DEF Save
<1>16. CASE SaveFails
    BY <1>1, <1>16 DEF SaveFails
<1>17. CASE Exit
    BY <1>1, <1>17 DEF Exit
<1>18. CASE Interrupt
    BY <1>1, <1>18 DEF Interrupt, Fail
<1>19. CASE Killed
    BY <1>1, <1>19 DEF Killed, EndStdin
<1>20. CASE StartDriver
    BY <1>1, <1>20 DEF StartDriver, UnchangedByCollector
<1>21. CASE NextConfiguration
    BY <1>1, <1>21 DEF NextConfiguration, Succeeded, UnchangedByCollector
<1>22. CASE StopCollecting
    BY <1>1, <1>22 DEF StopCollecting, UnchangedByCollector
<1>23. CASE WriteSite
    BY <1>1, <1>23 DEF WriteSite, WriteRun, WriteIndex, UnchangedByCollector
<1>24. CASE CollectorDies
    BY <1>1, <1>24 DEF CollectorDies, UnchangedByCollector
<1>25. ASSUME NEW c \in Configurations, Monitor(c) PROVE BundleInv'
    BY <1>1, <1>25 DEF Monitor, UnchangedByServer
<1>26. ASSUME NEW c \in Configurations, Announce(c) PROVE BundleInv'
    BY <1>1, <1>26 DEF Announce, UnchangedByServer
<1>27. ASSUME NEW c \in Configurations, ReadStdin(c) PROVE BundleInv'
    BY <1>1, <1>27 DEF ReadStdin, UnchangedByServer
<1>28. ASSUME NEW c \in Configurations, SaveMemory(c) PROVE BundleInv'
    BY <1>1, <1>28 DEF SaveMemory, UnchangedByServer
<1>29. ASSUME NEW c \in Configurations, ServerPanics(c) PROVE BundleInv'
    BY <1>1, <1>29 DEF ServerPanics, UnchangedByServer
<1>30. ASSUME NEW c \in Configurations, ServerLost(c) PROVE BundleInv'
    BY <1>1, <1>30 DEF ServerLost, UnchangedByServer
<1>31. ASSUME NEW c \in Configurations, LoadEnds(c) PROVE BundleInv'
    BY <1>1, <1>31 DEF LoadEnds
<1>32. ASSUME NEW c \in Configurations, LoadLost(c) PROVE BundleInv'
    BY <1>1, <1>32 DEF LoadLost
<1>33. CASE UNCHANGED vars
    BY <1>1, <1>33 DEF vars
<1> QED BY <1>2, <1>3, <1>4, <1>5, <1>6, <1>7, <1>8, <1>9, <1>10, <1>11, <1>12, <1>13, <1>14,
    <1>15, <1>16, <1>17, <1>18, <1>19, <1>20, <1>21, <1>22, <1>23, <1>24, <1>25, <1>26, <1>27,
    <1>28, <1>29, <1>30, <1>31, <1>32, <1>33 DEF Next, Driver, Await, Clean, Collector, Server

LEMMA SiteStep == IInv /\ [Next]_vars => SiteInv'
<1> SUFFICES ASSUME IInv, [Next]_vars PROVE SiteInv'
    OBVIOUS
<1> USE DEF Set, Goto, collectorVars, driverVars, serverVars, loadVars, TypeOK, Contents,
    Bundles, Bundle, NoBundle, ServerRunning, ServerEnded, DriverUp, Waiting, Cleaning, SiteInv
<1>1. TypeOK /\ SiteInv
    BY DEF IInv
<1>2. CASE Launch
    BY <1>1, <1>2 DEF Launch
<1>3. CASE LaunchFails
    BY <1>1, <1>3 DEF LaunchFails
<1>4. CASE OnReady
    BY <1>1, <1>4 DEF OnReady
<1>5. CASE OnResponse
    BY <1>1, <1>5 DEF OnResponse
<1>6. CASE OnLoadEnd
    BY <1>1, <1>6 DEF OnLoadEnd, EndStdin
<1>7. CASE Measure
    BY <1>1, <1>7 DEF Measure, Fail
<1>8. CASE Abandon
    BY <1>1, <1>8 DEF Abandon, Fail
<1>9. CASE Expire
    BY <1>1, <1>9 DEF Expire, Fail
<1>10. CASE CleanLoad
    BY <1>1, <1>10 DEF CleanLoad, AskServer, EndStdin
<1>11. CASE CleanLoadExpires
    BY <1>1, <1>11 DEF CleanLoadExpires, AskServer, EndStdin
<1>12. CASE CleanServer
    BY <1>1, <1>12 DEF CleanServer
<1>13. CASE CleanServerExpires
    BY <1>1, <1>13 DEF CleanServerExpires
<1>14. CASE BeginSave
    BY <1>1, <1>14 DEF BeginSave
<1>15. CASE Save
    BY <1>1, <1>15 DEF Save
<1>16. CASE SaveFails
    BY <1>1, <1>16 DEF SaveFails
<1>17. CASE Exit
    BY <1>1, <1>17 DEF Exit
<1>18. CASE Interrupt
    BY <1>1, <1>18 DEF Interrupt, Fail
<1>19. CASE Killed
    BY <1>1, <1>19 DEF Killed, EndStdin
<1>20. CASE StartDriver
    BY <1>1, <1>20 DEF StartDriver, UnchangedByCollector
<1>21. CASE NextConfiguration
    BY <1>1, <1>21 DEF NextConfiguration, Succeeded, UnchangedByCollector
<1>22. CASE StopCollecting
    BY <1>1, <1>22 DEF StopCollecting, UnchangedByCollector
<1>23. CASE WriteSite
    <2>1. CASE WriteRun
        BY <1>1, <1>23, <2>1, WriteRunEffect DEF WriteSite, WriteRun, UnchangedByCollector
    <2>2. CASE WriteIndex
        <3>1. site.run = "whole"
            BY <2>2 DEF WriteIndex
        <3> QED BY <1>1, <1>23, <2>2, <3>1, WriteIndexEffect DEF WriteSite, UnchangedByCollector
    <2> QED BY <1>23, <2>1, <2>2 DEF WriteSite
<1>24. CASE CollectorDies
    BY <1>1, <1>24 DEF CollectorDies, UnchangedByCollector
<1>25. ASSUME NEW c \in Configurations, Monitor(c) PROVE SiteInv'
    BY <1>1, <1>25 DEF Monitor, UnchangedByServer
<1>26. ASSUME NEW c \in Configurations, Announce(c) PROVE SiteInv'
    BY <1>1, <1>26 DEF Announce, UnchangedByServer
<1>27. ASSUME NEW c \in Configurations, ReadStdin(c) PROVE SiteInv'
    BY <1>1, <1>27 DEF ReadStdin, UnchangedByServer
<1>28. ASSUME NEW c \in Configurations, SaveMemory(c) PROVE SiteInv'
    BY <1>1, <1>28 DEF SaveMemory, UnchangedByServer
<1>29. ASSUME NEW c \in Configurations, ServerPanics(c) PROVE SiteInv'
    BY <1>1, <1>29 DEF ServerPanics, UnchangedByServer
<1>30. ASSUME NEW c \in Configurations, ServerLost(c) PROVE SiteInv'
    BY <1>1, <1>30 DEF ServerLost, UnchangedByServer
<1>31. ASSUME NEW c \in Configurations, LoadEnds(c) PROVE SiteInv'
    BY <1>1, <1>31 DEF LoadEnds
<1>32. ASSUME NEW c \in Configurations, LoadLost(c) PROVE SiteInv'
    BY <1>1, <1>32 DEF LoadLost
<1>33. CASE UNCHANGED vars
    BY <1>1, <1>33 DEF vars
<1> QED BY <1>2, <1>3, <1>4, <1>5, <1>6, <1>7, <1>8, <1>9, <1>10, <1>11, <1>12, <1>13, <1>14,
    <1>15, <1>16, <1>17, <1>18, <1>19, <1>20, <1>21, <1>22, <1>23, <1>24, <1>25, <1>26, <1>27,
    <1>28, <1>29, <1>30, <1>31, <1>32, <1>33 DEF Next, Driver, Await, Clean, Collector, Server

LEMMA ResultsStep == IInv /\ [Next]_vars => ResultsAreWhole'
<1> SUFFICES ASSUME IInv, [Next]_vars PROVE ResultsAreWhole'
    OBVIOUS
<1> USE DEF Set, Goto, collectorVars, driverVars, serverVars, loadVars, TypeOK, Contents,
    Bundles, Bundle, NoBundle, ServerRunning, ServerEnded, DriverUp, Waiting, Cleaning,
    ResultsAreWhole
<1>1. TypeOK /\ OrderInv /\ ChildrenInv /\ BundleInv /\ SiteInv /\ ResultsAreWhole
    BY DEF IInv
<1>2. CASE Launch
    <2>1. bundle'[current].status = "none"
        BY <1>1, <1>2 DEF Launch
    <2>2. \A c \in Configurations : c # current =>
            bundle'[c] = bundle[c] /\ server'[c] = server[c] /\ load'[c] = load[c]
        BY <1>1, <1>2 DEF Launch
    <2>3. site.run = "none" /\ ~site.index /\ UNCHANGED site
        BY <1>1, <1>2 DEF Launch, SiteInv
    <2> QED BY <1>1, <2>1, <2>2, <2>3
<1>3. CASE LaunchFails
    BY <1>1, <1>3 DEF LaunchFails
<1>4. CASE OnReady
    BY <1>1, <1>4 DEF OnReady
<1>5. CASE OnResponse
    BY <1>1, <1>5 DEF OnResponse
<1>6. CASE OnLoadEnd
    BY <1>1, <1>6 DEF OnLoadEnd, EndStdin
<1>7. CASE Measure
    BY <1>1, <1>7 DEF Measure, Fail
<1>8. CASE Abandon
    BY <1>1, <1>8 DEF Abandon, Fail
<1>9. CASE Expire
    BY <1>1, <1>9 DEF Expire, Fail
<1>10. CASE CleanLoad
    BY <1>1, <1>10 DEF CleanLoad, AskServer, EndStdin
<1>11. CASE CleanLoadExpires
    BY <1>1, <1>11 DEF CleanLoadExpires, AskServer, EndStdin
<1>12. CASE CleanServer
    BY <1>1, <1>12 DEF CleanServer
<1>13. CASE CleanServerExpires
    BY <1>1, <1>13 DEF CleanServerExpires
<1>14. CASE BeginSave
    <2>1. bundle'[current].status = "partial"
        BY <1>1, <1>14 DEF BeginSave
    <2>2. \A c \in Configurations : c # current => bundle'[c] = bundle[c]
        BY <1>1, <1>14 DEF BeginSave
    <2>3. ~site.index /\ UNCHANGED <<site, server, load>>
        BY <1>1, <1>14 DEF BeginSave, SiteInv
    <2> QED BY <1>1, <2>1, <2>2, <2>3
<1>15. CASE Save
    <2>1. bundle'[current] = Bundle(outcome, report[current], memory[current])
        BY <1>1, <1>15 DEF Save
    <2>2. \A c \in Configurations : c # current => bundle'[c] = bundle[c]
        BY <1>1, <1>15 DEF Save
    <2>3. ~site.index /\ UNCHANGED <<site, server, load>>
        BY <1>1, <1>15 DEF Save, SiteInv
    <2>4. /\ outcome = "success" =>
            /\ report[current] = "whole" /\ memory[current] = "whole"
            /\ load[current] = "ok" /\ server[current] = "ok"
          /\ "stale" \notin {report[current], memory[current]}
        BY <1>1, <1>15 DEF Save, ChildrenInv
    <2> QED BY <1>1, <2>1, <2>2, <2>3, <2>4, SMTT(30)
<1>16. CASE SaveFails
    BY <1>1, <1>16 DEF SaveFails
<1>17. CASE Exit
    BY <1>1, <1>17 DEF Exit
<1>18. CASE Interrupt
    BY <1>1, <1>18 DEF Interrupt, Fail
<1>19. CASE Killed
    BY <1>1, <1>19 DEF Killed, EndStdin
<1>20. CASE StartDriver
    BY <1>1, <1>20 DEF StartDriver, UnchangedByCollector
<1>21. CASE NextConfiguration
    BY <1>1, <1>21 DEF NextConfiguration, Succeeded, UnchangedByCollector
<1>22. CASE StopCollecting
    BY <1>1, <1>22 DEF StopCollecting, UnchangedByCollector
<1>23. CASE WriteSite
    <2>1. CASE WriteRun
        BY <1>1, <1>23, <2>1, WriteRunEffect DEF WriteSite, WriteRun, UnchangedByCollector, SiteInv
    <2>2. CASE WriteIndex
        <3>1. site.run = "whole"
            BY <2>2 DEF WriteIndex
        <3> QED BY <1>1, <1>23, <2>2, <3>1, WriteIndexEffect DEF WriteSite,
                         UnchangedByCollector, SiteInv
    <2> QED BY <1>23, <2>1, <2>2 DEF WriteSite
<1>24. CASE CollectorDies
    BY <1>1, <1>24 DEF CollectorDies, UnchangedByCollector
<1>25. ASSUME NEW c \in Configurations, Monitor(c) PROVE ResultsAreWhole'
    BY <1>1, <1>25 DEF Monitor, UnchangedByServer
<1>26. ASSUME NEW c \in Configurations, Announce(c) PROVE ResultsAreWhole'
    BY <1>1, <1>26 DEF Announce, UnchangedByServer
<1>27. ASSUME NEW c \in Configurations, ReadStdin(c) PROVE ResultsAreWhole'
    BY <1>1, <1>27 DEF ReadStdin, UnchangedByServer
<1>28. ASSUME NEW c \in Configurations, SaveMemory(c) PROVE ResultsAreWhole'
    BY <1>1, <1>28 DEF SaveMemory, UnchangedByServer
<1>29. ASSUME NEW c \in Configurations, ServerPanics(c) PROVE ResultsAreWhole'
    BY <1>1, <1>29 DEF ServerPanics, UnchangedByServer
<1>30. ASSUME NEW c \in Configurations, ServerLost(c) PROVE ResultsAreWhole'
    BY <1>1, <1>30 DEF ServerLost, UnchangedByServer
<1>31. ASSUME NEW c \in Configurations, LoadEnds(c) PROVE ResultsAreWhole'
    BY <1>1, <1>31 DEF LoadEnds
<1>32. ASSUME NEW c \in Configurations, LoadLost(c) PROVE ResultsAreWhole'
    BY <1>1, <1>32 DEF LoadLost
<1>33. CASE UNCHANGED vars
    BY <1>1, <1>33 DEF vars
<1> QED BY <1>2, <1>3, <1>4, <1>5, <1>6, <1>7, <1>8, <1>9, <1>10, <1>11, <1>12, <1>13, <1>14,
    <1>15, <1>16, <1>17, <1>18, <1>19, <1>20, <1>21, <1>22, <1>23, <1>24, <1>25, <1>26, <1>27,
    <1>28, <1>29, <1>30, <1>31, <1>32, <1>33 DEF Next, Driver, Await, Clean, Collector, Server

LEMMA InvStep == IInv /\ [Next]_vars => IInv'
<1> QED BY TypeStep, OrderStep, DecisionStep, ChildrenStep, BundleStep, SiteStep, ResultsStep
    DEF IInv

(* The variables stay in their types.                                      *)
THEOREM TypeCorrect == Spec => []TypeOK
<1>1. IInv => TypeOK
    BY DEF IInv
<1> QED BY InvInit, InvStep, <1>1, PTL DEF Spec

(* No success is recorded unless both children ended well and both outputs *)
(* are whole and of this run; the index waits for all successes.           *)
THEOREM ResultsWhole == Spec => []ResultsAreWhole
<1>1. IInv => ResultsAreWhole
    BY DEF IInv
<1> QED BY InvInit, InvStep, <1>1, PTL DEF Spec

(* The exit code of a driver tells what its bundle says.                   *)
THEOREM ExitCorrect == Spec => []ExitTellsOutcome
<1>1. IInv => ExitTellsOutcome
    BY DEF IInv, BundleInv, ExitTellsOutcome
<1> QED BY InvInit, InvStep, <1>1, PTL DEF Spec

(* No configuration is measured beside the processes of another one.       *)
THEOREM MeasuredAlone == Spec => []OneMeasurementAtATime
<1>1. IInv => OneMeasurementAtATime
    <2> SUFFICES ASSUME IInv, NEW c \in Configurations, NEW d \in Configurations,
                        c # d, server[c] \in ServerRunning
                 PROVE  server[d] \notin ServerRunning /\ load[d] # "running"
        BY DEF OneMeasurementAtATime
    <2>1. c = current
        BY DEF IInv, TypeOK, OrderInv, Untouched, ServerRunning, Configurations
    <2> QED BY <2>1 DEF IInv, TypeOK, OrderInv, Untouched, ServerRunning, Configurations
<1> QED BY InvInit, InvStep, <1>1, PTL DEF Spec

-----------------------------------------------------------------------------
(* Every wait ends.                                                        *)

(* How many steps a driver may still take.                                 *)
Remaining(label) ==
    CASE label = "launch" -> 11      [] label = "ready" -> 10    [] label = "request" -> 9
      [] label = "load" -> 8         [] label = "shutdown" -> 7  [] label = "cleanLoad" -> 6
      [] label = "cleanServer" -> 5  [] label = "reap" -> 4      [] label = "save" -> 3
      [] label = "saving" -> 2       [] label = "finished" -> 1  [] OTHER -> 0

(* The two waits without a timer are for processes that are gone or were   *)
(* sent SIGKILL: the driver reaps a server, and its event loop keeps it    *)
(* until its children have ended.                                          *)
WaitsAreBounded ==
    /\ pc = "reap" => server[current] \in ServerEnded \/ doomed[current]
    /\ pc = "finished" => /\ server[current] \notin ServerRunning
                          /\ load[current] = "running" => loadSignal[current] = "KILL"

(* A server that nobody waits for will find its pipe ended.                *)
ServersAreTold ==
    \A c \in Configurations :
        server[c] \in ServerRunning =>
            stdin[c] # "open" \/ (c = current /\ pc \in Waiting \cup {"cleanLoad"})

(* What makes them so: the clean-up goes from the load generator to the    *)
(* server and saves the bundle last.                                       *)
WaitsInv ==
    /\ pc \in Waiting \cup Cleaning \cup {"shutdown"} => server[current] # "none"
    /\ pc \in {"save", "saving", "finished"} => server[current] \in ServerEnded
    /\ pc = "reap" => doomed[current]
    /\ pc \in {"cleanServer", "reap", "save", "saving", "finished"} /\ load[current] = "running"
         => loadSignal[current] = "KILL"
    /\ ServersAreTold

LEMMA WaitsInit == Init => WaitsInv
BY DEF Init, WaitsInv, ServersAreTold, ServerRunning, Waiting, Cleaning

LEMMA WaitsStep == IInv /\ WaitsInv /\ [Next]_vars => WaitsInv'
<1> SUFFICES ASSUME IInv, WaitsInv, [Next]_vars PROVE WaitsInv'
    OBVIOUS
<1> USE DEF ServersAreTold, Set, Goto, collectorVars, driverVars, serverVars, loadVars, TypeOK, Contents,
    Bundles, Bundle, NoBundle, ServerRunning, ServerEnded, DriverUp, Waiting, Cleaning,
    OrderInv, Untouched, DecisionInv, WaitsInv
<1>1. TypeOK /\ OrderInv /\ DecisionInv /\ WaitsInv
    BY DEF IInv
<1>2. CASE Launch
    BY <1>1, <1>2 DEF Launch
<1>3. CASE LaunchFails
    BY <1>1, <1>3 DEF LaunchFails
<1>4. CASE OnReady
    BY <1>1, <1>4 DEF OnReady
<1>5. CASE OnResponse
    BY <1>1, <1>5 DEF OnResponse
<1>6. CASE OnLoadEnd
    BY <1>1, <1>6 DEF OnLoadEnd, EndStdin
<1>7. CASE Measure
    BY <1>1, <1>7 DEF Measure, Fail
<1>8. CASE Abandon
    BY <1>1, <1>8 DEF Abandon, Fail
<1>9. CASE Expire
    BY <1>1, <1>9 DEF Expire, Fail
<1>10. CASE CleanLoad
    <2>1. /\ UNCHANGED <<current, server, load, doomed>>
          /\ loadSignal' = loadSignal /\ load[current] # "running"
        BY <1>10 DEF CleanLoad
    <2>2. load'[current] = "running" => loadSignal'[current] = "KILL"
        BY <1>1, <2>1
    <2>3. CASE server[current] \in ServerRunning
        <3>1. pc' = "cleanServer" /\ stdin'[current] # "open"
              /\ \A c \in Configurations \ {current} : stdin'[c] = stdin[c]
            BY <1>1, <1>10, <2>3 DEF CleanLoad, AskServer, EndStdin
        <3> QED BY <1>1, <1>10, <2>1, <2>2, <3>1 DEF CleanLoad
    <2>4. CASE server[current] \notin ServerRunning
        <3>1. pc' = "save" /\ stdin' = stdin /\ pc = "cleanLoad"
            BY <1>10, <2>4 DEF CleanLoad, AskServer
        <3>2. server[current] \in ServerEnded
            BY <1>1, <2>4, <3>1
        <3> QED BY <1>1, <2>1, <2>2, <2>4, <3>1, <3>2
    <2> QED BY <2>3, <2>4
<1>11. CASE CleanLoadExpires
    <2>1. /\ UNCHANGED <<current, server, load, doomed>>
          /\ loadSignal' = Set(loadSignal, current, "KILL")
        BY <1>11 DEF CleanLoadExpires
    <2>2. load'[current] = "running" => loadSignal'[current] = "KILL"
        BY <1>1, <2>1
    <2>3. CASE server[current] \in ServerRunning
        <3>1. pc' = "cleanServer" /\ stdin'[current] # "open"
              /\ \A c \in Configurations \ {current} : stdin'[c] = stdin[c]
            BY <1>1, <1>11, <2>3 DEF CleanLoadExpires, AskServer, EndStdin
        <3> QED BY <1>1, <1>11, <2>1, <2>2, <3>1 DEF CleanLoadExpires
    <2>4. CASE server[current] \notin ServerRunning
        <3>1. pc' = "save" /\ stdin' = stdin /\ pc = "cleanLoad"
            BY <1>11, <2>4 DEF CleanLoadExpires, AskServer
        <3>2. server[current] \in ServerEnded
            BY <1>1, <2>4, <3>1
        <3> QED BY <1>1, <2>1, <2>2, <2>4, <3>1, <3>2
    <2> QED BY <2>3, <2>4
<1>12. CASE CleanServer
    BY <1>1, <1>12 DEF CleanServer
<1>13. CASE CleanServerExpires
    BY <1>1, <1>13 DEF CleanServerExpires
<1>14. CASE BeginSave
    BY <1>1, <1>14 DEF BeginSave
<1>15. CASE Save
    BY <1>1, <1>15 DEF Save
<1>16. CASE SaveFails
    BY <1>1, <1>16 DEF SaveFails
<1>17. CASE Exit
    BY <1>1, <1>17 DEF Exit
<1>18. CASE Interrupt
    BY <1>1, <1>18 DEF Interrupt, Fail
<1>19. CASE Killed
    BY <1>1, <1>19 DEF Killed, EndStdin
<1>20. CASE StartDriver
    BY <1>1, <1>20 DEF StartDriver, UnchangedByCollector
<1>21. CASE NextConfiguration
    BY <1>1, <1>21 DEF NextConfiguration, Succeeded, UnchangedByCollector
<1>22. CASE StopCollecting
    BY <1>1, <1>22 DEF StopCollecting, UnchangedByCollector
<1>23. CASE WriteSite
    BY <1>1, <1>23 DEF WriteSite, WriteRun, WriteIndex, UnchangedByCollector
<1>24. CASE CollectorDies
    BY <1>1, <1>24 DEF CollectorDies, UnchangedByCollector
<1>25. ASSUME NEW c \in Configurations, Monitor(c) PROVE WaitsInv'
    BY <1>1, <1>25 DEF Monitor, UnchangedByServer
<1>26. ASSUME NEW c \in Configurations, Announce(c) PROVE WaitsInv'
    BY <1>1, <1>26 DEF Announce, UnchangedByServer
<1>27. ASSUME NEW c \in Configurations, ReadStdin(c) PROVE WaitsInv'
    BY <1>1, <1>27 DEF ReadStdin, UnchangedByServer
<1>28. ASSUME NEW c \in Configurations, SaveMemory(c) PROVE WaitsInv'
    BY <1>1, <1>28 DEF SaveMemory, UnchangedByServer
<1>29. ASSUME NEW c \in Configurations, ServerPanics(c) PROVE WaitsInv'
    BY <1>1, <1>29 DEF ServerPanics, UnchangedByServer
<1>30. ASSUME NEW c \in Configurations, ServerLost(c) PROVE WaitsInv'
    BY <1>1, <1>30 DEF ServerLost, UnchangedByServer
<1>31. ASSUME NEW c \in Configurations, LoadEnds(c) PROVE WaitsInv'
    BY <1>1, <1>31 DEF LoadEnds
<1>32. ASSUME NEW c \in Configurations, LoadLost(c) PROVE WaitsInv'
    BY <1>1, <1>32 DEF LoadLost
<1>33. CASE UNCHANGED vars
    BY <1>1, <1>33 DEF vars
<1> QED BY <1>2, <1>3, <1>4, <1>5, <1>6, <1>7, <1>8, <1>9, <1>10, <1>11, <1>12, <1>13, <1>14,
    <1>15, <1>16, <1>17, <1>18, <1>19, <1>20, <1>21, <1>22, <1>23, <1>24, <1>25, <1>26, <1>27,
    <1>28, <1>29, <1>30, <1>31, <1>32, <1>33 DEF Next, Driver, Await, Clean, Collector, Server

(* A driver never waits for something that need not come: what it has no   *)
(* timer for has been killed.                                              *)
THEOREM EveryWaitIsBounded == Spec => []WaitsAreBounded
<1>1. WaitsInv => WaitsAreBounded
    BY DEF WaitsInv, WaitsAreBounded, ServerRunning, ServerEnded
<1> QED BY InvInit, InvStep, WaitsInit, WaitsStep, <1>1, PTL DEF Spec

(* No server is left behind with an open pipe, whoever is killed when: the *)
(* listener of each finds the command or the end and ends the process.     *)
THEOREM NoServerIsForgotten == Spec => []ServersAreTold
<1>1. WaitsInv => ServersAreTold
    BY DEF WaitsInv
<1> QED BY InvInit, InvStep, WaitsInit, WaitsStep, <1>1, PTL DEF Spec

LEMMA RemainingValues ==
    /\ Remaining("launch") = 11 /\ Remaining("ready") = 10 /\ Remaining("request") = 9
    /\ Remaining("load") = 8 /\ Remaining("shutdown") = 7 /\ Remaining("cleanLoad") = 6
    /\ Remaining("cleanServer") = 5 /\ Remaining("reap") = 4 /\ Remaining("save") = 3
    /\ Remaining("saving") = 2 /\ Remaining("finished") = 1
    /\ Remaining("exited") = 0 /\ Remaining("killed") = 0
BY DEF Remaining

Nearer == Remaining(pc') < Remaining(pc)

LEMMA DriverMoves == ASSUME Driver PROVE Nearer /\ pc \in DriverUp
<1> USE RemainingValues DEF Nearer, Goto, DriverUp, Waiting, Cleaning
<1>1. CASE Launch \/ LaunchFails
    BY <1>1 DEF Launch, LaunchFails
<1>2. CASE OnReady \/ OnResponse \/ OnLoadEnd
    BY <1>2 DEF OnReady, OnResponse, OnLoadEnd
<1>3. CASE Measure
    BY <1>3 DEF Measure, Fail
<1>4. CASE Abandon \/ Expire
    BY <1>4 DEF Abandon, Expire, Fail
<1>5. CASE CleanLoad \/ CleanLoadExpires
    BY <1>5 DEF CleanLoad, CleanLoadExpires, AskServer
<1>6. CASE CleanServer
    BY <1>6 DEF CleanServer
<1>8. CASE CleanServerExpires
    BY <1>8 DEF CleanServerExpires
<1>7. CASE BeginSave \/ Save \/ SaveFails \/ Exit
    BY <1>7 DEF BeginSave, Save, SaveFails, Exit
<1> QED BY <1>1, <1>2, <1>3, <1>4, <1>5, <1>6, <1>7, <1>8 DEF Driver, Await, Clean

(* No event takes a driver back, and its own steps take it on.             *)
DriverMovesOn ==
    /\ pc \in DriverUp => pc' = pc \/ Nearer
    /\ Driver => Nearer

(* A driver never awaits again what it has awaited, whatever dies, answers *)
(* late or is interrupted: it ends after at most eleven steps of its own.  *)
THEOREM DriversMoveOn == Spec => [][DriverMovesOn]_vars
<1>1. ASSUME IInv, [Next]_vars, ~UNCHANGED vars PROVE DriverMovesOn
    <2>1. CASE Driver
        BY <2>1, DriverMoves DEF DriverMovesOn
    <2>2. ASSUME ~Driver, pc \in DriverUp PROVE pc' = pc \/ Nearer
        <3>1. CASE Interrupt
            <4>1. pc \in Waiting => pc' = "cleanLoad"
                BY <3>1 DEF Interrupt, Fail, Goto
            <4>2. pc \notin Waiting => pc' = pc
                BY <3>1 DEF Interrupt
            <4> QED BY <4>1, <4>2, RemainingValues DEF Nearer, Waiting
        <3>2. CASE Killed
            BY <2>2, <3>2, RemainingValues DEF Killed, Goto, Nearer, DriverUp, Waiting, Cleaning
        <3>3. CASE Collector \/ CollectorDies
            BY <2>2, <3>3 DEF Collector, StartDriver, NextConfiguration, Succeeded,
                StopCollecting, WriteSite, CollectorDies, driverVars, DriverUp, Waiting, Cleaning
        <3>4. CASE \E c \in Configurations : Server(c) \/ LoadEnds(c) \/ LoadLost(c)
            BY <3>4 DEF Server, Monitor, Announce, ReadStdin, SaveMemory, ServerPanics, ServerLost,
                LoadEnds, LoadLost, UnchangedByServer, driverVars
        <3> QED BY <1>1, <2>2, <3>1, <3>2, <3>3, <3>4 DEF Next
    <2> QED BY <2>1, <2>2 DEF DriverMovesOn
<1> QED BY <1>1, InvInit, InvStep, PTL DEF Spec

-----------------------------------------------------------------------------
(* The collection.                                                         *)

(* The collection goes on only after a success.                            *)
EarlierInv == \A c \in Configurations : c < current => bundle[c].status = "success"

(* What the steps of the system do to bundles, site and configuration.     *)
LEMMA CollectionSteps ==
    ASSUME [Next]_vars
    PROVE  \/ UNCHANGED <<bundle, site, current>>
           \/ (Launch \/ BeginSave \/ Save) /\ UNCHANGED <<site, current>>
           \/ WriteSite
           \/ NextConfiguration /\ UNCHANGED <<bundle, site>>
<1>1. CASE Driver
    BY <1>1 DEF Driver, Launch, LaunchFails, Await, OnReady, OnResponse, OnLoadEnd, Measure, Abandon,
        Expire, Fail, Clean, CleanLoad, CleanLoadExpires, CleanServer, CleanServerExpires,
        BeginSave, Save, SaveFails, Exit, collectorVars
<1>2. CASE Interrupt \/ Killed
    BY <1>2 DEF Interrupt, Killed, Fail, collectorVars
<1>3. CASE Collector \/ CollectorDies
    BY <1>3 DEF Collector, StartDriver, NextConfiguration, StopCollecting, CollectorDies,
        UnchangedByCollector, collectorVars
<1>4. CASE \E c \in Configurations : Server(c) \/ LoadEnds(c) \/ LoadLost(c)
    BY <1>4 DEF Server, Monitor, Announce, ReadStdin, SaveMemory, ServerPanics, ServerLost,
        LoadEnds, LoadLost, UnchangedByServer, collectorVars
<1>5. CASE UNCHANGED vars
    BY <1>5 DEF vars, collectorVars
<1> QED BY <1>1, <1>2, <1>3, <1>4, <1>5 DEF Next

(* Only saving gives a configuration a result, and it keeps it.            *)
LEMMA RecordStep ==
    ASSUME IInv, [Next]_vars
    PROVE  \/ \A c \in Configurations : Result(c)' = Result(c)
           \/ /\ Save /\ Result(current) = "none" /\ outcome \in {"success", "failed"}
              /\ \A c \in Configurations : Result(c)' = IF c = current THEN outcome ELSE Result(c)
<1>1. /\ TypeOK /\ OrderInv /\ DecisionInv /\ BundleInv
      /\ current \in Configurations /\ bundle \in [Configurations -> Bundles]
    BY DEF IInv, TypeOK
<1>2. CASE Launch
    <2>1. bundle[current].status \in {"none", "stale"}
        BY <1>1, <1>2 DEF Launch, OrderInv, Untouched
    <2>2. \A c \in Configurations : bundle'[c] = IF c = current THEN NoBundle ELSE bundle[c]
        BY <1>1, <1>2 DEF Launch, Set
    <2> QED BY <2>1, <2>2 DEF Result, NoBundle, Bundle
<1>3. CASE BeginSave
    <2>1. bundle[current].status = "none"
        BY <1>1, <1>3 DEF BeginSave, BundleInv
    <2>2. \A c \in Configurations :
            bundle'[c] = IF c = current THEN Bundle("partial", "none", "none") ELSE bundle[c]
        BY <1>1, <1>3 DEF BeginSave, Set
    <2> QED BY <2>1, <2>2 DEF Result, Bundle
<1>4. CASE Save
    <2>1. bundle[current].status = "partial" /\ outcome \in {"success", "failed"}
        BY <1>1, <1>4 DEF Save, BundleInv, DecisionInv
    <2>2. \A c \in Configurations :
            bundle'[c] = IF c = current
                         THEN Bundle(outcome, report[current], memory[current]) ELSE bundle[c]
        BY <1>1, <1>4 DEF Save, Set
    <2> QED BY <1>4, <2>1, <2>2 DEF Result, Bundle
<1>5. CASE UNCHANGED bundle
    BY <1>5 DEF Result
<1> QED BY <1>2, <1>3, <1>4, <1>5, CollectionSteps DEF WriteSite, UnchangedByCollector

LEMMA EarlierStep == IInv /\ EarlierInv /\ [Next]_vars => EarlierInv'
<1> SUFFICES ASSUME IInv, EarlierInv, [Next]_vars,
                    NEW c \in Configurations, c < current'
             PROVE  bundle'[c].status = "success"
    BY DEF EarlierInv
<1>1. current \in Configurations /\ current \in Nat /\ c \in Nat
    BY DEF IInv, TypeOK, Configurations
<1>2. CASE c < current
    <2>1. Result(c) = "success" /\ c # current
        BY <1>1, <1>2 DEF EarlierInv, Result
    <2>2. Result(c)' = "success"
        BY <2>1, RecordStep
    <2> QED BY <2>2 DEF Result
<1>3. CASE ~(c < current)
    <2>1. current' # current
        BY <1>3
    <2>2. NextConfiguration /\ bundle' = bundle
        BY <2>1, CollectionSteps DEF WriteSite
    <2>3. c = current /\ Succeeded
        BY <1>1, <1>3, <2>1, <2>2 DEF NextConfiguration
    <2> QED BY <2>2, <2>3 DEF Succeeded, IInv, BundleInv
<1> QED BY <1>2, <1>3

LEMMA CollectionStep ==
    ASSUME IInv, EarlierInv, [Next]_vars
    PROVE  [Collected!Next]_(Collected!vars)
<1> DEFINE map == [c \in Configurations |-> Result(c)]
<1>1. current \in Configurations /\ (site.index => site.run = "whole")
    BY DEF IInv, TypeOK, SiteInv
<1>2. CASE Save /\ Result(current) = "none" /\ outcome \in {"success", "failed"}
           /\ \A c \in Configurations : Result(c)' = IF c = current THEN outcome ELSE Result(c)
    <2>1. map' = [map EXCEPT ![current] = outcome]
        BY <1>1, <1>2
    <2>2. map[current] = "none" /\ \A d \in Configurations : d < current => map[d] = "success"
        BY <1>1, <1>2 DEF EarlierInv, Result
    <2>3. site' = site
        BY <1>2 DEF Save, collectorVars
    <2>4. /\ map[current] = "none" /\ \A d \in 1 .. N : d < current => map[d] = "success"
          /\ map' = [map EXCEPT ![current] = outcome] /\ site'.index = site.index
        BY <2>1, <2>2, <2>3 DEF Configurations
    <2>5. current \in 1 .. N /\ outcome \in {"success", "failed"}
        BY <1>1, <1>2 DEF Configurations
    <2>6. Collected!Next
        BY <2>4, <2>5 DEF Collected!Next, Collected!Record
    <2> QED BY <2>6
<1>3. CASE \A c \in Configurations : Result(c)' = Result(c)
    <2>1. map' = map
        BY <1>3
    <2>2. CASE site'.index = site.index
        BY <2>1, <2>2 DEF Collected!vars
    <2>3. CASE site'.index # site.index
        <3>1. WriteSite
            BY <2>3, CollectionSteps
        <3>2. ~WriteRun
            BY <2>3, WriteRunEffect DEF IInv
        <3>3. WriteIndex /\ site.next
            BY <2>3, <3>1, <3>2 DEF WriteSite, WriteIndex, IInv, TypeOK
        <3>4. site'.index = TRUE /\ site.run # "none"
            BY <3>3 DEF WriteIndex, IInv, TypeOK
        <3>5. \A c \in Configurations : map[c] = "success"
            BY <3>4 DEF IInv, SiteInv, Result
        <3> QED BY <2>1, <3>4, <3>5 DEF Collected!Next, Collected!Name, Configurations
    <2> QED BY <2>2, <2>3
<1> QED BY <1>2, <1>3, RecordStep

(* However processes die and signals fall, and whatever an earlier run     *)
(* left, the drivers and the collection implement the abstract one: a      *)
(* result is recorded once and in order, never after a failure, and the    *)
(* index names the collection only when every configuration succeeded.     *)
THEOREM Refinement == Spec => ImplementsCollection
<1>1. Init => EarlierInv
    BY DEF Init, EarlierInv, Configurations
<1>2. Init => Collected!Init
    <2> SUFFICES ASSUME Init PROVE Collected!Init
        OBVIOUS
    <2>1. \A c \in Configurations : bundle[c].status \in {"none", "stale"}
        BY DEF Init, Bundle
    <2> QED BY <2>1 DEF Init, Collected!Init, Configurations, Result
<1> QED BY <1>1, <1>2, EarlierStep, CollectionStep, InvInit, InvStep, PTL
    DEF Spec, ImplementsCollection, Collected!Spec

=============================================================================
