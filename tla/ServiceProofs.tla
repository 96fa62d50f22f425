---------------------------- MODULE ServiceProofs ---------------------------
(***************************************************************************)
(* The exporter as a service.  On a console and under the SCM, for any     *)
(* number of requests in flight and any order of stop requests, failures,  *)
(* restarts, installs and uninstalls: an error of run reaches the exit     *)
(* status, Stopped is reported only when run has returned, and an          *)
(* installed service does not die of a scrape interval of zero.  Under     *)
(* systemd, for every set of configurations, every number of releases and  *)
(* every choice of failing commands: what InstallService, UpdateService    *)
(* and UninstallService report is what the host is left with.              *)
(***************************************************************************)
EXTENDS Services, TLAPS

-----------------------------------------------------------------------------
(* The server on a console and under the SCM *)

\* Under the SCM, errCh holds the result of run from the moment it returns;
\* on a console Execute takes no part.
ResultOfRun ==
    /\ platform = "console" => exec = "off" /\ status = "none"
    /\ errCh # "empty" => run = "returned"
    /\ errCh = "error" => runErr
    /\ errCh = "nil" => ~runErr
    /\ status = "Stopped" => run = "returned"
    /\ exec = "returned" => run = "returned" /\ hErr = runErr

\* The process has told the outcome of run.
OutcomeTold == (exit = "ok" /\ run = "returned") => ~runErr

\* Neither the entry nor a process started from it has an interval of zero.
IntervalKnown ==
    /\ interval \in Intervals /\ registered \in Intervals
    /\ entry # "absent" => registered # "zero"
    /\ platform = "scm" /\ exit \in {"none", "crash"} => interval # "zero"
    /\ exit = "crash" => interval # "positive"

LifeInv ==
    /\ runErr \in BOOLEAN /\ hErr \in BOOLEAN
    /\ exit \in {"none", "ok", "fail", "crash"}
    /\ errCh \in {"empty", "nil", "error"}
    /\ ResultOfRun /\ OutcomeTold /\ IntervalKnown

\* The invariant holds before anything runs.
LEMMA LifeInit == Init => LifeInv
BY DEF Init, NewProcess, Intervals, LifeInv, ResultOfRun, OutcomeTold, IntervalKnown

\* Every step of run and of the goroutines preserves it; none touches the
\* entry of the SCM.
LEMMA LifeProcess == LifeInv /\ ProcessSteps /\ UNCHANGED entryVars => LifeInv'
<1> SUFFICES ASSUME LifeInv, ProcessSteps, UNCHANGED entryVars PROVE LifeInv'
    OBVIOUS
<1> USE DEF LifeInv, ResultOfRun, OutcomeTold, IntervalKnown, setting, runVars, execVars,
           entryVars, Alive, Returns, Intervals
<1>1. CASE RunStarts
    BY <1>1 DEF RunStarts
<1>2. CASE ConfigFails
    BY <1>2 DEF ConfigFails
<1>3. CASE Serve
    BY <1>3 DEF Serve
<1>4. CASE SelectDone
    BY <1>4 DEF SelectDone
<1>5. CASE SelectServerErr
    BY <1>5 DEF SelectServerErr
<1>6. CASE ShutdownCompletes
    BY <1>6 DEF ShutdownCompletes
<1>7. CASE ShutdownTimeout
    BY <1>7 DEF ShutdownTimeout
<1>8. CASE Listen
    BY <1>8 DEF Listen
<1>9. CASE ListenFails
    BY <1>9 DEF ListenFails
<1>10. CASE ListenClosed
    BY <1>10 DEF ListenClosed
<1>11. CASE ExecuteStarts
    BY <1>11 DEF ExecuteStarts
<1>12. CASE ReportRunning
    BY <1>12 DEF ReportRunning
<1>13. CASE StopFinishes
    BY <1>13 DEF StopFinishes
<1>14. CASE RunEnded
    BY <1>14 DEF RunEnded
<1>15. CASE MainExits
    BY <1>15 DEF MainExits
<1>16. CASE ServiceExits
    BY <1>16 DEF ServiceExits
<1>17. CASE RequestArrives
    BY <1>17 DEF RequestArrives
<1>18. CASE RequestAnswered
    BY <1>18 DEF RequestAnswered
<1>19. ASSUME NEW w \in Loops, LoopBegins(w) \/ RoundEnds(w) \/ LoopTick(w) \/ LoopStops(w)
      PROVE  LifeInv'
    BY <1>19 DEF LoopBegins, RoundEnds, LoopTick, LoopStops, LoopStep
<1>20. ASSUME NEW w \in Loops, TickerPanics(w) PROVE LifeInv'
    BY <1>20 DEF TickerPanics
<1>21. CASE Interrupt
    BY <1>21 DEF Interrupt
<1>22. CASE StopRequest
    BY <1>22 DEF StopRequest
<1> QED
    BY <1>1, <1>2, <1>3, <1>4, <1>5, <1>6, <1>7, <1>8, <1>9, <1>10, <1>11,
       <1>12, <1>13, <1>14, <1>15, <1>16, <1>17, <1>18, <1>19, <1>20, <1>21, <1>22
       DEF ProcessSteps, RunSteps, ListenerSteps, MainSteps

\* So does every step of the SCM and of the administrator's commands.
LEMMA LifeNext == LifeInv /\ [Next]_allVars => LifeInv'
<1> SUFFICES ASSUME LifeInv, [Next]_allVars PROVE LifeInv'
    OBVIOUS
<1>1. CASE ProcessSteps /\ UNCHANGED entryVars
    BY <1>1, LifeProcess
<1> USE DEF LifeInv, ResultOfRun, OutcomeTold, IntervalKnown, vars, setting, runVars, execVars,
           entryVars, Alive, Intervals
<1>2. CASE StartService
    BY <1>2 DEF StartService, StartProcess
<1>3. CASE EntryGoes
    BY <1>3 DEF EntryGoes
<1>4. ASSUME NEW i \in Intervals, Install(i) PROVE LifeInv'
    BY <1>4 DEF Install, setWindowsDefaults
<1>5. CASE OpenService
    BY <1>5 DEF OpenService
<1>6. CASE QueryService
    BY <1>6 DEF QueryService
<1>7. CASE ControlStop
    BY <1>7 DEF ControlStop, StopRequest
<1>8. CASE PollEnds
    BY <1>8 DEF PollEnds
<1>9. CASE DeleteService
    BY <1>9 DEF DeleteService
<1>10. CASE Ended \/ UNCHANGED allVars
    BY <1>10 DEF Ended, allVars
<1> QED
    BY <1>1, <1>2, <1>3, <1>4, <1>5, <1>6, <1>7, <1>8, <1>9, <1>10 DEF Next, CommandSteps

\* The invariant holds throughout.
LEMMA LifeInvariant == Spec => []LifeInv
BY LifeInit, LifeNext, PTL DEF Spec

\* An error that run returns is never swallowed, also when a stop request
\* overtakes it (main.go:205-221, service_windows.go:98-101, 120-129).
THEOREM ErrorExits == Spec => []ErrorReachesExit
<1>1. LifeInv => ErrorReachesExit
    BY DEF LifeInv, OutcomeTold, ErrorReachesExit
<1> QED
    BY LifeInvariant, <1>1, PTL

\* The SCM is told Stopped only once run has returned
\* (service_windows.go:95-103).
THEOREM StoppedReturned == Spec => []StoppedMeansReturned
<1>1. LifeInv => StoppedMeansReturned
    BY DEF LifeInv, ResultOfRun, StoppedMeansReturned
<1> QED
    BY LifeInvariant, <1>1, PTL

\* Only a negative interval that was installed makes the service's ticker panic
\* (service_windows.go:30-32, main.go:372).
THEOREM IntervalRuns == Spec => []InstalledIntervalRuns
<1>1. LifeInv => InstalledIntervalRuns
    BY DEF LifeInv, IntervalKnown, Intervals, InstalledIntervalRuns
<1> QED
    BY LifeInvariant, <1>1, PTL

-----------------------------------------------------------------------------
(* The systemd service *)

\* What an installation has achieved when it comes to each of its commands.
InstallProgress ==
    op = "install" =>
        /\ pc \in {"idle", "check", "write", "reload", "enable", "done"}
        /\ pc # "idle" => cfg \in Configs /\ pkg # 0
        /\ pc \in {"reload", "enable", "done"} => unit = cfg
        /\ pc \in {"enable", "done"} => loaded = cfg
        /\ pc = "done" => enabled /\ service # NoService

\* What an update has achieved; a restart by systemd keeps it.
UpdateProgress ==
    op = "update" =>
        /\ pc \in {"idle", "check", "fetch", "dpkg", "restart", "done"}
        /\ pc \in {"dpkg", "restart", "done"} => target # 0
        /\ pc \in {"restart", "done"} => pkg = target
        /\ pc = "done" => service.ver = target /\ loaded \in Configs

\* The service is off, or a disable --now has failed and was not repeated.
Off == "disable" \in ignored \/ (~enabled /\ service = NoService)

\* What an uninstallation has achieved.
UninstallProgress ==
    op = "uninstall" =>
        /\ pc \in {"idle", "check", "disable", "remove", "unload", "status", "dpkg", "done"}
        /\ pc \in {"unload", "status", "dpkg", "done"} => unit = NoUnit
        /\ pc \in {"remove", "unload", "status", "dpkg", "done"} => Off
        /\ pc \in {"status", "dpkg", "done"} => "unload" \in ignored \/ loaded = NoUnit
        /\ pc = "done" => pkg = 0 \/ odd \/ "status" \in ignored

\* A unit file only disappears behind a disable --now, so a disable that fails
\* for want of the file has nothing to stop that was not left knowingly.
DeployInv ==
    /\ DeployTypeOK
    /\ op \in {"install", "uninstall", "update"}
    /\ unit = NoUnit => Off
    /\ InstallProgress /\ UpdateProgress /\ UninstallProgress

\* The invariant holds on a host with the package and nothing else.
LEMMA DeployInvInit == DeployInit => DeployInv
<1> SUFFICES ASSUME DeployInit PROVE DeployInv
    OBVIOUS
<1> USE UnitAssumption, DeployBoundsAssumption DEF DeployInit
<1>1. DeployTypeOK
    <2>1. pkg \in 0..MaxRelease /\ release \in 1..MaxRelease /\ target \in 0..MaxRelease
        OBVIOUS
    <2> QED
        BY <2>1 DEF DeployTypeOK
<1>2. Off /\ InstallProgress /\ UpdateProgress /\ UninstallProgress
    BY DEF Off, InstallProgress, UpdateProgress, UninstallProgress
<1> QED
    BY <1>1, <1>2 DEF DeployInv

\* Every event of the host and every command preserves the invariant.
LEMMA DeployInvNext == DeployInv /\ [DeployNext]_deployVars => DeployInv'
<1> SUFFICES ASSUME DeployInv, [DeployNext]_deployVars PROVE DeployInv'
    OBVIOUS
<1> USE UnitAssumption, DeployBoundsAssumption
    DEF DeployInv, DeployTypeOK, Off, InstallProgress, UpdateProgress, UninstallProgress,
        host, NoService, Running, Commands
<1>1. CASE Publish
    BY <1>1 DEF Publish
<1>2. CASE DpkgInstall
    <2>1. DeployTypeOK'
        <3>1. pkg' \in 0..MaxRelease
            BY <1>2 DEF DpkgInstall
        <3>3. odd' \in BOOLEAN
            BY <1>2, Zenon DEF DpkgInstall
        <3>2. UNCHANGED <<unit, loaded, enabled, service, release, target, pc, ignored>>
            BY <1>2 DEF DpkgInstall
        <3> QED
            BY <3>1, <3>2, <3>3
    <2>2. (unit = NoUnit => Off)' /\ op' \in {"install", "uninstall", "update"}
        BY <1>2 DEF DpkgInstall
    <2>3. InstallProgress' /\ UpdateProgress' /\ UninstallProgress'
        BY <1>2 DEF DpkgInstall
    <2> QED
        BY <2>1, <2>2, <2>3
<1>3. CASE SetPackageStatus \/ Stop
    <2>1. CASE SetPackageStatus
        <3>1. odd' \in BOOLEAN
            BY <2>1 DEF SetPackageStatus
        <3>2. pc = "idle" /\ UNCHANGED <<unit, loaded, enabled, service, pkg, release, op, cfg, target, pc, ignored>>
            BY <2>1 DEF SetPackageStatus
        <3>3. DeployTypeOK'
            BY <3>1, <3>2
        <3> QED
            BY <3>2, <3>3
    <2>2. CASE Stop
        BY <2>2 DEF Stop
    <2> QED
        BY <1>3, <2>1, <2>2
<1>4. CASE Respawn
    BY <1>4 DEF Respawn
<1>5. CASE Reboot
    BY <1>5 DEF Reboot
<1>6. CASE InterruptCommand
    BY <1>6 DEF InterruptCommand
<1>7. ASSUME NEW c \in Configs, Invoke("install", c) PROVE DeployInv'
    BY <1>7 DEF Invoke
<1>8. CASE Invoke("uninstall", NoUnit)
    BY <1>8 DEF Invoke
<1>9. CASE Invoke("update", NoUnit)
    BY <1>9 DEF Invoke
<1>10. ASSUME NEW c \in {"check", "reload", "remove", "fetch"}, FailAt(c) PROVE DeployInv'
    BY <1>10 DEF FailAt
<1>11. CASE Check
    BY <1>11 DEF Check
<1>12. CASE writeUnit \/ writeUnitFails
    BY <1>12 DEF writeUnit, writeUnitFails
<1>13. CASE DaemonReload
    BY <1>13 DEF DaemonReload
<1>14. CASE EnableNow
    BY <1>14 DEF EnableNow
<1>15. CASE EnableFails
    BY <1>15 DEF EnableFails
<1>16. CASE DisableNow
    BY <1>16 DEF DisableNow
<1>17. CASE DisableFails
    <2>1. CASE unit = NoUnit /\ UNCHANGED <<enabled, ignored>>
        BY <1>17, <2>1 DEF DisableFails
    <2>2. CASE enabled' \in {enabled, FALSE} /\ ignored' = ignored \union {"disable"}
        BY <1>17, <2>2 DEF DisableFails
    <2> QED
        BY <1>17, <2>1, <2>2 DEF DisableFails
<1>18. CASE removeIfPresent
    BY <1>18 DEF removeIfPresent
<1>19. CASE ReloadRemoved
    BY <1>19 DEF ReloadRemoved
<1>20. CASE dpkgInstalled \/ KeepPackage
    <2>1. CASE dpkgInstalled
        BY <2>1 DEF dpkgInstalled
    <2>2. CASE KeepPackage
        <3>1. CASE odd /\ ignored' = ignored \ {"status"}
            BY <2>2, <3>1 DEF KeepPackage
        <3>2. CASE ignored' = ignored \union {"status"}
            BY <2>2, <3>2 DEF KeepPackage
        <3> QED
            BY <2>2, <3>1, <3>2 DEF KeepPackage
    <2> QED
        BY <1>20, <2>1, <2>2
<1>21. CASE DpkgRemove
    BY <1>21 DEF DpkgRemove
<1>22. CASE Fetch
    BY <1>22 DEF Fetch
<1>23. CASE DpkgUpdate
    BY <1>23 DEF DpkgUpdate
<1>24. CASE DpkgFails
    <2>1. DeployTypeOK'
        <3>1. pkg' \in 0..MaxRelease /\ pc' = "idle"
            BY <1>24 DEF DpkgFails
        <3>3. odd' \in BOOLEAN
            <4>1. odd \in BOOLEAN /\ odd' \in {odd, TRUE}
                BY <1>24 DEF DpkgFails
            <4> QED
                BY <4>1
        <3>2. UNCHANGED <<unit, loaded, enabled, service, release, target, ignored>>
            BY <1>24 DEF DpkgFails
        <3> QED
            BY <3>1, <3>2, <3>3
    <2>2. (unit = NoUnit => Off)' /\ op' \in {"install", "uninstall", "update"}
        BY <1>24 DEF DpkgFails
    <2>3. InstallProgress' /\ UpdateProgress' /\ UninstallProgress'
        BY <1>24 DEF DpkgFails
    <2> QED
        BY <2>1, <2>2, <2>3
<1>25. CASE Restart
    <2>1. PICK k \in Configs : loaded' = k /\ service' = Running(k, pkg)
        BY <1>25 DEF Restart
    <2>2. op = "update" /\ pkg = target /\ target # 0
        BY <1>25 DEF Restart
    <2>3. service' = [cfg |-> k, ver |-> pkg]
        BY <2>1, <2>2
    <2>4. DeployTypeOK'
        BY <1>25, <2>1, <2>2, <2>3 DEF Restart
    <2>5. (unit = NoUnit => Off)'
        <3>1. unit = NoUnit => "disable" \in ignored
            BY <1>25 DEF Restart, Known
        <3> QED
            BY <1>25, <3>1 DEF Restart
    <2>6. (InstallProgress /\ UpdateProgress /\ UninstallProgress)'
        BY <1>25, <2>1, <2>2, <2>3 DEF Restart
    <2> QED
        BY <1>25, <2>4, <2>5, <2>6 DEF Restart
<1>26. CASE RestartUnknown \/ RestartFails
    <2>1. CASE RestartUnknown
        BY <2>1 DEF RestartUnknown
    <2>2. CASE RestartFails
        BY <2>2 DEF RestartFails
    <2> QED
        BY <1>26, <2>1, <2>2
<1>27. CASE UNCHANGED deployVars
    BY <1>27 DEF deployVars
<1> QED
    BY <1>1, <1>2, <1>3, <1>4, <1>5, <1>6, <1>7, <1>8, <1>9, <1>10, <1>11, <1>12, <1>13, <1>14,
       <1>15, <1>16, <1>17, <1>18, <1>19, <1>20, <1>21, <1>22, <1>23, <1>24, <1>25, <1>26, <1>27 DEF DeployNext

\* The invariant holds throughout.
LEMMA DeployInvariant == DeploySpec => []DeployInv
BY DeployInvInit, DeployInvNext, PTL DEF DeploySpec

\* A success that InstallService reports is real: unit on disk, loaded and
\* enabled, and the service runs (systemd.go:157-173).
THEOREM InstallHolds == DeploySpec => []InstallTakesHold
<1>1. DeployInv => InstallTakesHold
    BY DEF DeployInv, InstallProgress, InstallTakesHold
<1> QED
    BY DeployInvariant, <1>1, PTL

\* After an update that reports success the downloaded version runs
\* (release.go:131-135).
THEOREM UpdateEffective == DeploySpec => []UpdateTakesEffect
<1>1. DeployInv => UpdateTakesEffect
    BY DEF DeployInv, UpdateProgress, UpdateTakesEffect
<1> QED
    BY DeployInvariant, <1>1, PTL

\* An uninstall that reports success leaves only what a command with an ignored
\* failure left, and a package whose status is not "install ok installed" or
\* could not be read (systemd.go:190-239, release.go:191-202).
THEOREM UninstallClean == DeploySpec => []UninstallLeavesNothing
<1>1. DeployInv => UninstallLeavesNothing
    BY DEF DeployInv, UninstallProgress, Off, UninstallLeavesNothing
<1> QED
    BY DeployInvariant, <1>1, PTL

-----------------------------------------------------------------------------
(* The binary on either system *)

\* Whatever the system, the commands and the process behave as in their own
\* specifications, so that the theorems above hold of both.
LEMMA EitherSystem == ServicesSpec => Spec /\ DeploySpec
<1>1. ServicesInit => Init /\ DeployInit
    BY DEF ServicesInit
<1>2. [ServicesNext]_servicesVars => [Next]_allVars /\ [DeployNext]_deployVars
    BY DEF ServicesNext, servicesVars
<1> QED
    BY <1>1, <1>2, PTL DEF ServicesSpec, Spec, DeploySpec
=============================================================================
