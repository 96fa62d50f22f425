---------------------------- MODULE MCReportPage ----------------------------
(* Instances of ReportPage for TLC: times in half seconds. *)
EXTENDS ReportPage

Section(mark, name, ep) == [kind |-> "section", mark |-> mark, name |-> name, ep |-> ep]
Frame(num, text) == [kind |-> "frame", num |-> num, text |-> text]
Field(field, val) == [kind |-> "field", field |-> field, val |-> val]

\* 10 and 11 are out of range, 0 is the code's own mark for "none".
MCLines ==
    {Section(m, "a", e) : m \in {"start", "end"}, e \in {0, 3, 5, 10}}
    \union {Section("end", "b", 4)}
    \union {Frame(n, t) : n \in {0, 1, 10, 11}, t \in {"f", "g"}}
    \union {Field("JobID", "7"), Field("JobID", "8"), Field("Runner", "r"), Field("KillPIDs", "9"),
            Field("core.zip", "u")}

Moment(given, at) == [given |-> given, at |-> at]
Empty == Moment("empty", 0)
Form(start, end, prom, id) == [start |-> start, end |-> end, prom |-> prom, job |-> id]

\* Forms around every check of the page.
MCForms ==
    {Form(s, e, "valid", "empty") : s \in {Empty, Moment("bad", 0), Moment("ok", 60)},
                                    e \in {Empty, Moment("ok", 60), Moment("ok", 36000)}}
    \union {Form(Empty, Empty, p, j) : p \in {"empty", "valid"}, j \in {"digits", "bad"}}

Env(url, jobID, n, w) == [url |-> url, jobID |-> jobID, node |-> n, window |-> w]
TenMinutes == Relative(10, 60)

\* JOBREPORT_URL, CI_JOB_ID, JOBREPORT_NODE or JOBREPORT_WINDOW may be set where
\* the server runs.
MCSubmissions ==
    {[form |-> f, env |-> Env(FALSE, FALSE, All, TenMinutes)] : f \in MCForms}
    \union {[form |-> Form(Empty, Empty, "valid", "empty"), env |-> e] :
                e \in {Env(FALSE, TRUE, All, TenMinutes), Env(FALSE, TRUE, "n1", TenMinutes),
                       Env(FALSE, FALSE, All, BadWindow)}}
    \union {[form |-> Form(Moment("ok", 60), Moment("ok", 36000), "valid", "empty"), env |-> e] :
                e \in {Env(TRUE, FALSE, All, TenMinutes), Env(FALSE, FALSE, All, Relative(2, 3600))}}

Command(flags, url, id, w, good) ==
    [flags |-> flags, url |-> url, urlID |-> id, jobID |-> FALSE, node |-> All,
     window |-> w, goodURL |-> good]

MCCommands ==
    {Command("help", FALSE, None, BadWindow, TRUE), Command("bad", FALSE, None, BadWindow, TRUE),
     Command("ok", FALSE, None, BadWindow, TRUE), Command("ok", FALSE, None, Relative(10, 60), FALSE),
     Command("ok", FALSE, None, Relative(-5, 60), TRUE),
     Command("ok", TRUE, None, BadWindow, TRUE), Command("ok", TRUE, "7", BadWindow, TRUE)}
=============================================================================
