----------------------------- MODULE ReportPage -----------------------------
(***************************************************************************)
(* cmd/jobreport-web: handleReport, buildWindow and runReport, which run   *)
(* the report command as a child process under a time limit, next to the   *)
(* same command run by hand.  The child inherits the server's environment. *)
(***************************************************************************)
EXTENDS JobReport

CONSTANTS
    ReportTimeout,  \* reportTimeout, in half seconds
    Submissions,    \* submitted forms, each with the server's environment
    Commands        \* command lines run by hand

VARIABLES
    request,  \* the form, the server's environment, and who asks
    page,     \* "none", "submitted", "running" or "answered"
    answer    \* the sections of the page's answer

pageVars == <<request, page, answer>>
allVars == <<commandVars, pageVars>>

PageInit ==
    /\ NotStarted
    /\ answer = <<>>
    /\ \/ page = "none" /\ request \in Commands
       \/ page = "submitted" /\ request \in Submissions

-----------------------------------------------------------------------------
(* handleReport *)

\* parseUTCMoment: all three fields present and valid.
parseUTCMoment(m) == m.given = "ok"

\* Mutation: a window that ends when it starts is let through.
AfterStart_Weak(form) == form.end.at >= form.start.at

AfterStart(form) == form.end.at > form.start.at

\* buildWindow: nothing given, or two moments in order.
NoFields(form) == form.start.given = "empty" /\ form.end.given = "empty"
buildWindowOK(form) ==
    \/ NoFields(form)
    \/ parseUTCMoment(form.start) /\ parseUTCMoment(form.end) /\ AfterStart(form)

\* The checks before the child is started: the window, a selected URL that
\* normalizeURL accepts, and a job id of digits.
AcceptedForm(form) ==
    /\ buildWindowOK(form)
    /\ form.prom = "valid"
    /\ form.job \in {"empty", "digits"}

RejectForm ==
    /\ page = "submitted"
    /\ ~AcceptedForm(request.form)
    /\ page' = "answered"
    /\ answer' = <<"invalid">>
    /\ UNCHANGED <<request, commandVars>>

\* Arguments the form does not give come from the environment (parseFlags),
\* and a log URL of the environment puts the child in URL mode.
ChildConfig(form, env) ==
    [flags |-> "ok", url |-> env.url, urlID |-> None,
     jobID |-> form.job = "digits" \/ env.jobID, node |-> env.node,
     window |-> IF NoFields(form) THEN env.window ELSE Absolute(form.start.at, form.end.at),
     goodURL |-> TRUE]

\* runReport starts the child, or cannot.
ExecReport ==
    /\ page = "submitted"
    /\ AcceptedForm(request.form)
    /\ Start(ChildConfig(request.form, request.env))
    /\ page' = "running"
    /\ UNCHANGED <<request, answer>>

ExecFails ==
    /\ page = "submitted"
    /\ AcceptedForm(request.form)
    /\ page' = "answered"
    /\ answer' = <<"execError">>
    /\ UNCHANGED <<request, commandVars>>

\* The longest the child may stay where it is; no backoff follows the last
\* attempt.
Longest ==
    CASE stage \in Querying -> HttpTimeout + (IF attempt < maxAttempts THEN RetryBackoff * attempt ELSE 0)
      [] stage = "fetch" -> FetchTimeout
      [] OTHER -> 0

\* CommandContext kills the child when the limit has passed; what it has
\* written is kept.
Kill ==
    /\ page = "running"
    /\ stage \notin {"exited", "killed"}
    /\ clock + Longest >= ReportTimeout
    /\ clock' = ReportTimeout
    /\ stage' = "killed"
    /\ UNCHANGED <<cfg, node, fleet, window, out, exit, attempt, sent, logVars, pageVars>>

\* Mutation: the page only shows the output of a run that succeeded.
Shown_OnlySuccess == IF exit = 0 THEN out ELSE <<>>

\* A failed run without output is answered with the exec error, any other with
\* its output.
Shown == IF out = <<>> /\ exit # 0 THEN <<"execError">> ELSE out

AnswerPage ==
    /\ page = "running"
    /\ stage \in {"exited", "killed"}
    /\ page' = "answered"
    /\ answer' = Shown
    /\ UNCHANGED <<request, commandVars>>

-----------------------------------------------------------------------------

RunByHand ==
    /\ page = "none"
    /\ Start(request)
    /\ UNCHANGED pageVars

\* The child's steps end before the limit or are cut short by Kill.
CommandStep ==
    /\ ReportStep
    /\ page = "running" => clock' <= ReportTimeout
    /\ UNCHANGED pageVars

Ended ==
    /\ page = "answered" \/ (page = "none" /\ stage = "exited")
    /\ UNCHANGED allVars

PageNext ==
    \/ RejectForm
    \/ ExecReport
    \/ ExecFails
    \/ Kill
    \/ AnswerPage
    \/ RunByHand
    \/ CommandStep
    \/ Ended

PageSpec == PageInit /\ [][PageNext]_allVars

-----------------------------------------------------------------------------
(* Properties *)

\* The window the page was asked for: the form's or, if the form has none, the
\* one JOBREPORT_WINDOW gives, by default the last ten minutes (cli.go:60-62).
AskedWindow ==
    IF NoFields(request.form) THEN parseWindow(request.env.window)
    ELSE [start |-> request.form.start.at, end |-> request.form.end.at]

\* A report queries the window the page was asked for; with JOBREPORT_URL set
\* where the server runs, one that may query another window has first shown the
\* log that window is from.  A window the form gives is taken as it is: only a
\* query can fail then (window.go:18-45, runner.go:62, cli.go:63, 119-126).
AcceptedWindowIsQueried ==
    page = "running" =>
        IF request.env.url
        THEN Printed("header") \/ stage \in Querying => out[1] = "job"
        ELSE /\ Printed("header") \/ stage \in Querying => window = AskedWindow
             /\ (exit = 1 /\ ~NoFields(request.form)) => sent # <<>>

\* The page always shows something, and what it shows is an error message or a
\* complete report unless the child was killed (server.go:203-219).
FailureIsExplained ==
    page = "answered" =>
        /\ answer # <<>>
        /\ \/ \E i \in DOMAIN answer : answer[i] \in {"error", "execError", "invalid"}
           \/ Complete
           \/ stage = "killed"

\* The output shown is "both a successful report and any error text from
\* jobreport or Prometheus" (runner.go:20-22).
ErrorTextIsShown ==
    (page = "answered" /\ stage \in {"exited", "killed"} /\ ~Complete) =>
        \E i \in DOMAIN answer : answer[i] = "error"
=============================================================================
