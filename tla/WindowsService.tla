--------------------------- MODULE WindowsService ---------------------------
(***************************************************************************)
(* deploy/service_windows.go: InstallWindowsService and                    *)
(* UninstallWindowsService, run by an administrator, next to the service   *)
(* process of module ServerLifecycle and the SCM that starts it, relays    *)
(* stop requests to it and keeps its entry.  On a console there is only    *)
(* the process.                                                            *)
(***************************************************************************)
EXTENDS ServerLifecycle

VARIABLES
    entry,       \* the SCM's entry: "absent", "present" or "deleting"
    registered,  \* the --interval in the entry's command line
    handle,      \* whether the uninstaller holds a handle of the entry
    cmd,         \* control point of the command under way
    stopSent,    \* whether its stop request was accepted
    result       \* how the last command ended

entryVars == <<entry, registered, handle, cmd, stopSent, result>>
allVars == <<vars, entryVars>>

Intervals == {"negative", "zero", "positive"}

Init ==
    /\ interval \in Intervals
    /\ NewProcess
    /\ \/ platform = "console" /\ exit = "none"
       \/ platform = "scm" /\ exit = "ok"   \* nothing runs before the install
    /\ entry = "absent" /\ registered = interval
    /\ handle = FALSE /\ cmd = "idle" /\ stopSent = FALSE /\ result = "none"

-----------------------------------------------------------------------------
(* The SCM *)

\* At boot or by hand while no command is under way, or at any time as a
\* recovery action after a crash.
StartService ==
    /\ platform = "scm" /\ ~Alive /\ entry = "present"
    /\ cmd = "idle" \/ exit = "crash"
    /\ StartProcess
    /\ interval' = registered
    /\ UNCHANGED <<platform, entryVars>>

\* An entry marked for deletion goes when its process has ended and its last
\* handle is closed.
EntryGoes ==
    /\ entry = "deleting" /\ ~Alive /\ ~handle
    /\ entry' = "absent"
    /\ UNCHANGED <<vars, registered, handle, cmd, stopSent, result>>

-----------------------------------------------------------------------------
(* InstallWindowsService *)

\* Mutation: the interval is written as it was given.
setWindowsDefaults_Verbatim(i) == i

\* No interval given means a minute.
setWindowsDefaults(i) == IF i = "zero" THEN "positive" ELSE i

\* The service must not exist; a failure to set the recovery actions is only
\* reported.
Install(i) ==
    /\ platform = "scm" /\ cmd = "idle"
    /\ IF entry = "absent"
       THEN \/ /\ entry' = "present"
               /\ registered' = setWindowsDefaults(i)
               /\ result' = "installed"
            \/ result' = "failed" /\ UNCHANGED <<entry, registered>>
       ELSE result' = "failed" /\ UNCHANGED <<entry, registered>>
    /\ stopSent' = FALSE
    /\ UNCHANGED <<vars, handle, cmd>>

-----------------------------------------------------------------------------
(* UninstallWindowsService *)

OpenService ==
    /\ platform = "scm" /\ cmd = "idle"
    /\ stopSent' = FALSE
    /\ \/ entry = "absent" /\ result' = "notInstalled" /\ UNCHANGED <<cmd, handle>>
       \/ entry # "absent" /\ cmd' = "query" /\ handle' = TRUE /\ result' = "none"
       \/ result' = "failed" /\ UNCHANGED <<cmd, handle>>
    /\ UNCHANGED <<vars, entry, registered>>

\* A stopped service, or one whose state cannot be read, is deleted at once.
QueryService ==
    /\ cmd = "query"
    /\ \/ Alive /\ status # "Stopped" /\ cmd' = "control"
       \/ cmd' = "delete"
    /\ UNCHANGED <<vars, entry, registered, handle, stopSent, result>>

\* The stop request, which only a running service accepts; an error is logged
\* and the removal goes on.
ControlStop ==
    /\ cmd = "control"
    /\ \/ StopRequest /\ cmd' = "poll" /\ stopSent' = TRUE
       \/ cmd' = "delete" /\ UNCHANGED <<vars, stopSent>>
    /\ UNCHANGED <<entry, registered, handle, result>>

\* The service has stopped, ten seconds have passed or a query fails.
PollEnds ==
    /\ cmd = "poll"
    /\ cmd' = "delete"
    /\ UNCHANGED <<vars, entry, registered, handle, stopSent, result>>

\* Mutation: a service that has not stopped in time is left alone.
DeleteService_OnlyStopped ==
    /\ cmd = "delete"
    /\ entry' = IF entry = "present" /\ ~Alive THEN "deleting" ELSE entry
    /\ result' = "removed"
    /\ cmd' = "idle" /\ handle' = FALSE
    /\ UNCHANGED <<vars, registered, stopSent>>

\* Delete marks the entry; it fails when the entry is marked already.
DeleteService ==
    /\ cmd = "delete"
    /\ \/ entry = "present" /\ entry' = "deleting" /\ result' = "removed"
       \/ result' = "failed" /\ UNCHANGED entry
    /\ cmd' = "idle" /\ handle' = FALSE
    /\ UNCHANGED <<vars, registered, stopSent>>

-----------------------------------------------------------------------------
CommandSteps == QueryService \/ ControlStop \/ PollEnds \/ DeleteService

Ended == platform = "console" /\ ~Alive /\ UNCHANGED allVars

Next ==
    \/ ProcessSteps /\ UNCHANGED entryVars
    \/ StartService \/ EntryGoes
    \/ (\E i \in Intervals : Install(i)) \/ OpenService
    \/ CommandSteps
    \/ Ended

Spec == Init /\ [][Next]_allVars

(***************************************************************************)
(* Goroutines that can go on do, a command that was started goes on, and   *)
(* the SCM drops a marked entry when it can.  Requests may last for ever,  *)
(* scrapes too, and nobody need ever stop the program.                     *)
(***************************************************************************)
Fairness ==
    /\ WF_allVars(RunSteps /\ UNCHANGED entryVars)
    /\ WF_allVars(MainSteps /\ UNCHANGED entryVars)
    /\ WF_allVars((\E w \in Loops : TickerPanics(w)) /\ UNCHANGED entryVars)
    /\ WF_allVars(CommandSteps)
    /\ SF_allVars(EntryGoes)

FairSpec == Spec /\ Fairness

-----------------------------------------------------------------------------
(* Properties *)

\* An uninstall that reports the service removed, and whose stop request was
\* accepted, really removes it, also when ten seconds were not enough: the
\* entry it marked goes once the service has shut down
\* (service_windows.go:209-232, 95-103).
StoppedServiceIsRemoved == (result = "removed" /\ stopSent) ~> entry = "absent"

\* An installed service never dies of its scrape interval unless a negative one
\* was installed: the ticker's panic on 0 is kept off by the defaults
\* (service_windows.go:30-32, main.go:372).
InstalledIntervalRuns == (platform = "scm" /\ exit = "crash") => interval = "negative"
=============================================================================
