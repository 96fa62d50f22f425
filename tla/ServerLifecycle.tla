--------------------------- MODULE ServerLifecycle --------------------------
(***************************************************************************)
(* The life of the exporter process: main and run of main.go, with the     *)
(* goroutines they start, on a console or under the Windows service        *)
(* control manager (SCM) through deploy/service_windows.go's Execute and   *)
(* RunWindowsService.                                                      *)
(*                                                                         *)
(* Only os.Interrupt is caught on a console; any other signal ends the     *)
(* process at once and is not modelled.                                    *)
(***************************************************************************)
EXTENDS Naturals

CONSTANTS
    MaxRequests   \* bound on HTTP requests in flight

ASSUME RequestsBoundAssumption == MaxRequests \in Nat

VARIABLES
    platform,   \* "console" or "scm"
    interval,   \* --interval: "negative", "zero" or "positive"
    run,        \* control point of run
    runErr,     \* whether run returned an error
    ctx,        \* whether the context is cancelled
    listener,   \* the goroutine in ListenAndServe
    serverErr,  \* the channel: "empty", "error" or "closed"
    open,       \* HTTP requests in flight
    loops,      \* the goroutines in startScraper and startKubeScraper
    exec,       \* control point of Execute
    status,     \* the last status sent to the SCM
    errCh,      \* Execute's channel: "empty", "nil" or "error"
    hErr,       \* handler.err is an error
    exit        \* "none" while the process runs, then "ok" or "fail"

setting == <<platform, interval>>
runVars == <<run, runErr, listener, serverErr, open, loops, errCh>>
execVars == <<exec, status, hErr>>
vars == <<setting, ctx, exit, runVars, execVars>>

Loops == {"scraper", "kube"}

TypeOK ==
    /\ platform \in {"console", "scm"}
    /\ interval \in {"negative", "zero", "positive"}
    /\ run \in {"off", "config", "serving", "shutdown", "returned"}
    /\ runErr \in BOOLEAN /\ ctx \in BOOLEAN /\ hErr \in BOOLEAN
    /\ listener \in {"off", "starting", "up", "failed", "closed"}
    /\ serverErr \in {"empty", "error", "closed"}
    /\ open \in 0..MaxRequests
    /\ loops \in [Loops -> {"off", "starting", "waiting", "working", "stopped"}]
    /\ exec \in {"off", "starting", "running", "stopping", "returned"}
    /\ status \in {"none", "StartPending", "Running", "StopPending", "Stopped"}
    /\ errCh \in {"empty", "nil", "error"}
    /\ exit \in {"none", "ok", "fail", "crash"}

\* A process that has not done anything yet.
NewProcess ==
    /\ run = "off" /\ runErr = FALSE /\ ctx = FALSE
    /\ listener = "off" /\ serverErr = "empty" /\ open = 0
    /\ loops = [w \in Loops |-> "off"]
    /\ exec = "off" /\ status = "none" /\ errCh = "empty" /\ hErr = FALSE

\* A new process takes the place of one that has ended.
StartProcess ==
    /\ run' = "off" /\ runErr' = FALSE /\ ctx' = FALSE
    /\ listener' = "off" /\ serverErr' = "empty" /\ open' = 0
    /\ loops' = [w \in Loops |-> "off"]
    /\ exec' = "off" /\ status' = "none" /\ errCh' = "empty" /\ hErr' = FALSE
    /\ exit' = "none"

Alive == exit = "none"

\* srv.Shutdown has been called.  When run returns for another reason the
\* listener has ended already, or never started.
ShuttingDown == run \in {"shutdown", "returned"}

-----------------------------------------------------------------------------
(* run *)

\* main calls run, or Execute starts it in a goroutine; the scraper is started
\* before anything else.
RunStarts ==
    /\ Alive /\ run = "off"
    /\ platform = "scm" => exec # "off"
    /\ run' = "config"
    /\ loops' = [loops EXCEPT !["scraper"] = "starting"]
    /\ UNCHANGED <<setting, ctx, exit, runErr, listener, serverErr, open, errCh, execVars>>

\* run returns; under the SCM its goroutine sends the result to errCh.
Returns(err) ==
    /\ run' = "returned"
    /\ runErr' = err
    /\ errCh' = IF platform = "console" THEN errCh ELSE IF err THEN "error" ELSE "nil"

\* LoadConfig rejects the configuration.
ConfigFails ==
    /\ Alive /\ run = "config"
    /\ Returns(TRUE)
    /\ UNCHANGED <<setting, ctx, exit, listener, serverErr, open, loops, execVars>>

\* Collectors, the kubelet poller in a cluster, routes, and the goroutine that
\* listens.
Serve ==
    /\ Alive /\ run = "config"
    /\ run' = "serving"
    /\ listener' = "starting"
    /\ \/ UNCHANGED loops
       \/ loops' = [loops EXCEPT !["kube"] = "starting"]
    /\ UNCHANGED <<setting, ctx, exit, runErr, serverErr, open, errCh, execVars>>

SelectDone ==
    /\ Alive /\ run = "serving" /\ ctx
    /\ run' = "shutdown"
    /\ UNCHANGED <<setting, ctx, exit, runErr, listener, serverErr, open, loops, errCh, execVars>>

\* serverErr delivers an error, or is closed.
SelectServerErr ==
    /\ Alive /\ run = "serving" /\ serverErr # "empty"
    /\ Returns(serverErr = "error")
    /\ UNCHANGED <<setting, ctx, exit, listener, serverErr, open, loops, execVars>>

\* srv.Shutdown: the requests in flight have been answered.
ShutdownCompletes ==
    /\ Alive /\ run = "shutdown" /\ open = 0
    /\ Returns(FALSE)
    /\ UNCHANGED <<setting, ctx, exit, listener, serverErr, open, loops, execVars>>

\* Mutation: Shutdown is given a context without a deadline.
ShutdownTimeout_Unbounded ==
    /\ Alive /\ run = "shutdown" /\ open = 0
    /\ Returns(FALSE)
    /\ UNCHANGED <<setting, ctx, exit, listener, serverErr, open, loops, execVars>>

\* srv.Shutdown: its five seconds are over; the error is ignored.
ShutdownTimeout ==
    /\ Alive /\ run = "shutdown"
    /\ Returns(FALSE)
    /\ UNCHANGED <<setting, ctx, exit, listener, serverErr, open, loops, execVars>>

-----------------------------------------------------------------------------
(* The goroutines run starts, and the requests *)

Listen ==
    /\ Alive /\ listener = "starting" /\ ~ShuttingDown
    /\ listener' = "up"
    /\ UNCHANGED <<setting, ctx, exit, run, runErr, serverErr, open, loops, errCh, execVars>>

\* Mutation: the error is logged and not sent.
ListenFails_Silent ==
    /\ Alive /\ listener \in {"starting", "up"} /\ ~ShuttingDown
    /\ listener' = "failed"
    /\ UNCHANGED <<setting, ctx, exit, run, runErr, serverErr, open, loops, errCh, execVars>>

\* The port is taken, or Accept fails.
ListenFails ==
    /\ Alive /\ listener \in {"starting", "up"} /\ ~ShuttingDown
    /\ listener' = "failed"
    /\ serverErr' = "error"
    /\ UNCHANGED <<setting, ctx, exit, run, runErr, open, loops, errCh, execVars>>

\* ListenAndServe returns ErrServerClosed once Shutdown was called.
ListenClosed ==
    /\ Alive /\ listener \in {"starting", "up"} /\ ShuttingDown
    /\ listener' = "closed"
    /\ serverErr' = "closed"
    /\ UNCHANGED <<setting, ctx, exit, run, runErr, open, loops, errCh, execVars>>

RequestArrives ==
    /\ Alive /\ listener = "up" /\ ~ShuttingDown /\ open < MaxRequests
    /\ open' = open + 1
    /\ UNCHANGED <<setting, ctx, exit, run, runErr, listener, serverErr, loops, errCh, execVars>>

RequestAnswered ==
    /\ Alive /\ open > 0
    /\ open' = open - 1
    /\ UNCHANGED <<setting, ctx, exit, run, runErr, listener, serverErr, loops, errCh, execVars>>

\* startScraper and startKubeScraper: the ticker, one round at once, then one
\* per tick; the context is looked at between rounds.
LoopStep(w, from, to) ==
    /\ Alive
    /\ loops[w] = from
    /\ loops' = [loops EXCEPT ![w] = to]
    /\ UNCHANGED <<setting, ctx, exit, run, runErr, listener, serverErr, open, errCh, execVars>>

LoopBegins(w) == interval = "positive" /\ LoopStep(w, "starting", "working")
RoundEnds(w) == LoopStep(w, "working", "waiting")
LoopTick(w) == LoopStep(w, "waiting", "working")
LoopStops(w) == ctx /\ LoopStep(w, "waiting", "stopped")

\* time.NewTicker panics, which ends the process.
TickerPanics(w) ==
    /\ Alive /\ loops[w] = "starting"
    /\ interval # "positive"
    /\ exit' = "crash"
    /\ UNCHANGED <<setting, ctx, runVars, execVars>>

-----------------------------------------------------------------------------
(* The console *)

Interrupt ==
    /\ Alive /\ platform = "console" /\ run # "off" /\ ~ctx
    /\ ctx' = TRUE
    /\ UNCHANGED <<setting, exit, runVars, execVars>>

\* main: log.Fatalf on an error.
MainExits ==
    /\ Alive /\ platform = "console" /\ run = "returned"
    /\ exit' = IF runErr THEN "fail" ELSE "ok"
    /\ UNCHANGED <<setting, ctx, runVars, execVars>>

-----------------------------------------------------------------------------
(* Execute *)

ExecuteStarts ==
    /\ Alive /\ platform = "scm" /\ exec = "off"
    /\ exec' = "starting"
    /\ status' = "StartPending"
    /\ UNCHANGED <<setting, ctx, exit, runVars, hErr>>

\* Running is reported as soon as the goroutine was started.
ReportRunning ==
    /\ Alive /\ exec = "starting"
    /\ exec' = "running"
    /\ status' = "Running"
    /\ UNCHANGED <<setting, ctx, exit, runVars, hErr>>

\* Mutation: the service reports Stopped without waiting for run.
StopRequest_NoWait ==
    /\ Alive /\ exec = "running"
    /\ exec' = "returned"
    /\ status' = "Stopped"
    /\ ctx' = TRUE
    /\ UNCHANGED <<setting, exit, runVars, hErr>>

\* A Stop or Shutdown request (Interrogate only echoes the status).
StopRequest ==
    /\ Alive /\ exec = "running"
    /\ exec' = "stopping"
    /\ status' = "StopPending"
    /\ ctx' = TRUE
    /\ UNCHANGED <<setting, exit, runVars, hErr>>

\* Mutation: the error that was already waiting is dropped.
StopFinishes_DropsError ==
    /\ Alive /\ exec = "stopping" /\ errCh # "empty"
    /\ exec' = "returned"
    /\ status' = "Stopped"
    /\ UNCHANGED <<setting, ctx, exit, runVars, hErr>>

\* The result of run arrives after a stop request.
StopFinishes ==
    /\ Alive /\ exec = "stopping" /\ errCh # "empty"
    /\ exec' = "returned"
    /\ status' = "Stopped"
    /\ hErr' = (errCh = "error")
    /\ UNCHANGED <<setting, ctx, exit, runVars>>

\* The result of run arrives without one; the deferred cancel runs.
RunEnded ==
    /\ Alive /\ exec = "running" /\ errCh # "empty"
    /\ exec' = "returned"
    /\ status' = "Stopped"
    /\ hErr' = (errCh = "error")
    /\ ctx' = TRUE
    /\ UNCHANGED <<setting, exit, runVars>>

\* RunWindowsService returns handler.err and main ends.
ServiceExits ==
    /\ Alive /\ exec = "returned"
    /\ exit' = IF hErr THEN "fail" ELSE "ok"
    /\ UNCHANGED <<setting, ctx, runVars, execVars>>

-----------------------------------------------------------------------------
RunSteps ==
    RunStarts \/ ConfigFails \/ Serve \/ SelectDone \/ SelectServerErr
    \/ ShutdownCompletes \/ ShutdownTimeout

ListenerSteps == Listen \/ ListenFails \/ ListenClosed

MainSteps ==
    ExecuteStarts \/ ReportRunning \/ StopFinishes \/ RunEnded \/ MainExits \/ ServiceExits

ProcessSteps ==
    \/ RunSteps \/ ListenerSteps \/ MainSteps
    \/ RequestArrives \/ RequestAnswered
    \/ \E w \in Loops :
         LoopBegins(w) \/ RoundEnds(w) \/ LoopTick(w) \/ LoopStops(w) \/ TickerPanics(w)
    \/ Interrupt \/ StopRequest

-----------------------------------------------------------------------------
(* Properties *)

\* Once it is told to stop the process ends, even if a request in flight never
\* ends and a scrape hangs (main.go:291-295).
StopEndsProcess == ctx ~> ~Alive

\* A listener that fails ends the process: an exporter that cannot be scraped
\* does not linger (main.go:282-301).
ListenerFailureEnds == listener = "failed" ~> ~Alive

\* An error run returns always reaches the exit status, also when a stop
\* request overtakes it (main.go:205-221, service_windows.go:98-101, 120-129).
ErrorReachesExit == (exit = "ok" /\ run = "returned") => ~runErr

\* The SCM is told Stopped only when run has returned: the listener has ended
\* and the requests in flight were answered or had their five seconds
\* (service_windows.go:95-103, main.go:291-300).
StoppedMeansReturned == status = "Stopped" => run = "returned"
=============================================================================
