------------------------------ MODULE JobReport -----------------------------
(***************************************************************************)
(* internal/jobreport: Main, run, runURL and report, one execution of the  *)
(* report command.  What it writes reaches the caller at once, section by  *)
(* section; a query that fails ends it with an error.                      *)
(***************************************************************************)
EXTENDS JobLog, PromClient

CONSTANTS
    Nodes,         \* node_ip values
    All,           \* the node filter "all"
    Now,           \* time.Now() when the window is parsed
    FetchTimeout   \* fetchLog's http.Client.Timeout

\* "all" is no address of a node.
ASSUME NodesAssumption == IsFiniteSet(Nodes) /\ All \notin Nodes

VARIABLES
    cfg,      \* the resolved config
    stage,    \* where the command is
    node,     \* the node filter of the queries
    fleet,    \* whether no node is known for the job the report is about
    window,   \* [start, end] of the queries
    out,      \* the sections written so far
    exit      \* exit code, Running until the command ends

reportVars == <<cfg, stage, node, fleet, window, out, exit>>
commandVars == <<logVars, clientVars, reportVars>>

Running == -1
Tables == <<"cpu", "mem", "io">>

\* A window argument: "<a>..<b>", "<a><unit>", or text that is neither.
Absolute(a, b) == [kind |-> "absolute", a |-> a, b |-> b]
Relative(n, mult) == [kind |-> "relative", a |-> n, b |-> mult]
BadWindow == [kind |-> "bad", a |-> 0, b |-> 0]

\* Only absolute windows are checked for order.
WindowOK(w) == w.kind = "relative" \/ (w.kind = "absolute" /\ w.b > w.a)

parseWindow(w) ==
    IF w.kind = "absolute" THEN [start |-> w.a, end |-> w.b]
                           ELSE [start |-> Now - w.a * w.b, end |-> Now]

NoWindow == [start |-> 0, end |-> 0]

NoConfig == [flags |-> "ok", url |-> FALSE, urlID |-> None, jobID |-> FALSE,
             node |-> All, window |-> BadWindow, goodURL |-> TRUE]

NotStarted ==
    /\ cfg = NoConfig
    /\ clock = 0 /\ NewQuery
    /\ NewLog(None)
    /\ stage = "off"
    /\ node = All
    /\ fleet = FALSE
    /\ window = NoWindow
    /\ out = <<>>
    /\ exit = Running

\* The command starts with the configuration its flags and environment give.
Start(c) ==
    /\ stage = "off"
    /\ cfg' = c
    /\ job' = NewJobInfo(c.urlID)
    /\ stage' = "flags"
    /\ UNCHANGED <<node, fleet, window, out, exit, log, phaseStart, frameByNum, clientVars>>

\* Main prints the error of run and returns 1.
EndWith(code, sections) ==
    /\ stage' = "exited"
    /\ exit' = code
    /\ out' = out \o sections

-----------------------------------------------------------------------------
(* Main and run *)

\* Main: parseFlags, then URL mode or the plain report.
Main ==
    /\ stage = "flags"
    /\ \/ cfg.flags = "ok" /\ stage' = (IF cfg.url THEN "fetch" ELSE "window") /\ UNCHANGED <<exit, out>>
       \/ cfg.flags = "help" /\ EndWith(0, <<"usage">>)
       \/ cfg.flags = "bad" /\ EndWith(2, <<"error">>)
    /\ UNCHANGED <<cfg, node, fleet, window, logVars, clientVars>>

ParseWindow ==
    /\ stage = "window"
    /\ IF WindowOK(cfg.window)
       THEN /\ window' = parseWindow(cfg.window)
            /\ node' = cfg.node
            /\ IF cfg.jobID /\ cfg.node = All
               THEN stage' = "resolve" /\ out' = out
               ELSE stage' = "count" /\ out' = Append(out, "header")
            /\ UNCHANGED exit
       ELSE EndWith(1, <<"error">>) /\ UNCHANGED <<window, node>>
    /\ UNCHANGED <<cfg, fleet, clientVars, logVars>>

-----------------------------------------------------------------------------
(* runURL *)

\* fetchLog: a file, or one GET without a retry; the lines follow one by one.
FetchLog ==
    /\ stage = "fetch"
    /\ \E t \in {0, FetchTimeout} :
         /\ clock' = clock + t
         /\ \/ t = 0 /\ stage' = "scan" /\ UNCHANGED <<exit, out>>
            \/ EndWith(1, <<"error">>)
    /\ UNCHANGED <<cfg, node, fleet, window, logVars, attempt, sent>>

ParseLine == stage = "scan" /\ ScanLine /\ UNCHANGED <<reportVars, clientVars>>

\* The end of parseJobLog.
EndOfLog ==
    /\ stage = "scan"
    /\ stage' = "parsed"
    /\ job' = [job EXCEPT !.CrashFrames = TopOfStack]
    /\ UNCHANGED <<cfg, node, fleet, window, out, exit, log, phaseStart, frameByNum, clientVars>>

\* printJobSection, then the window the log gave.  The rest of JobInfo has
\* been printed and is not used again.
PrintJobSection ==
    /\ stage = "parsed"
    /\ IF job.StartEpoch = 0 \/ job.EndEpoch = 0
       THEN EndWith(0, <<"job", "noWindow">>) /\ UNCHANGED <<window, node>>
       ELSE /\ window' = [start |-> job.StartEpoch, end |-> job.EndEpoch]
            /\ node' = All
            /\ IF job.once["JobID"] = None
               THEN stage' = "count" /\ out' = out \o <<"job", "header", "fallback">>
               ELSE stage' = "resolve" /\ out' = Append(out, "job")
            /\ UNCHANGED exit
    /\ fleet' = (job.once["JobID"] = None)
    /\ log' = <<>>
    /\ job' = NewJobInfo(job.once["JobID"])
    /\ phaseStart' = <<>>
    /\ frameByNum' = <<>>
    /\ UNCHANGED <<cfg, clientVars>>

-----------------------------------------------------------------------------
(* The queries *)

Querying == {"resolve", "count", "meta", "cpu", "mem", "io"}

RetryQuery ==
    /\ stage \in Querying
    /\ \E r \in Replies(cfg.goodURL) : Retry(r)
    /\ UNCHANGED <<reportVars, logVars>>

\* Mutation: a table that cannot be queried is left out.
QueryFails_SkipsTable ==
    /\ stage \in Querying
    /\ \E r \in Replies(cfg.goodURL) :
         IF stage = "mem" THEN Returns(r) /\ r.got # "ok" /\ sent' = <<>> ELSE Fails(r)
    /\ IF stage = "mem" THEN stage' = "io" /\ UNCHANGED <<exit, out>> ELSE EndWith(1, <<"error">>)
    /\ UNCHANGED <<cfg, node, fleet, window, logVars>>

\* Every query's error ends the report.
QueryFails ==
    /\ stage \in Querying
    /\ \E r \in Replies(cfg.goodURL) : Fails(r)
    /\ EndWith(1, <<"error">>)
    /\ UNCHANGED <<cfg, node, fleet, window, logVars>>

QuerySucceeds == \E r \in Replies(cfg.goodURL) : Succeeds(r)

TheNode(nodes) == IF Cardinality(nodes) = 1 THEN CHOOSE n \in nodes : TRUE ELSE All

\* Mutation: the fallback is only announced in the node scope line.
Header_Plain(nodes) == <<"header">>

\* The header and, in URL mode, the warning that the tables are fleet-wide or
\* the header's note that the job was on several nodes and all are shown.
Header(nodes) ==
    CASE cfg.url /\ nodes = {} -> <<"header", "fallback">>
      [] cfg.url /\ Cardinality(nodes) > 1 -> <<"header", "severalNodes">>
      [] OTHER -> <<"header">>

\* resolveNodeByJobID: the nodes that carried the job id.
ResolveNode ==
    /\ stage = "resolve"
    /\ QuerySucceeds
    /\ \E nodes \in SUBSET Nodes :
         /\ node' = TheNode(nodes)
         /\ fleet' = (nodes = {})
         /\ out' = out \o Header(nodes)
    /\ stage' = "count"
    /\ UNCHANGED <<cfg, window, exit, logVars>>

\* report: whether the scope has data, and the metadata.
CountSeries ==
    /\ stage = "count"
    /\ QuerySucceeds
    /\ \/ EndWith(0, <<"noData">>)
       \/ stage' = "meta" /\ UNCHANGED <<exit, out>>
    /\ UNCHANGED <<cfg, node, fleet, window, logVars>>

FetchMeta ==
    /\ stage = "meta"
    /\ QuerySucceeds
    /\ stage' = "cpu"
    /\ UNCHANGED <<cfg, node, fleet, window, exit, out, logVars>>

\* topN and renderRows: one table after the other.
PrintTable ==
    \E i \in DOMAIN Tables :
        /\ stage = Tables[i]
        /\ QuerySucceeds
        /\ IF i = Len(Tables) THEN EndWith(0, <<stage>>)
           ELSE stage' = Tables[i + 1] /\ out' = Append(out, stage) /\ UNCHANGED exit
        /\ UNCHANGED <<cfg, node, fleet, window, logVars>>

ReportStep ==
    \/ Main
    \/ ParseWindow
    \/ FetchLog
    \/ ParseLine
    \/ EndOfLog
    \/ PrintJobSection
    \/ RetryQuery
    \/ QueryFails
    \/ ResolveNode
    \/ CountSeries
    \/ FetchMeta
    \/ PrintTable

-----------------------------------------------------------------------------
(* Properties *)

Printed(section) == \E i \in DOMAIN out : out[i] = section

\* All there is to report has been written.
Complete ==
    \/ Printed("usage") \/ Printed("noWindow")
    \/ Printed("header") /\ (Printed("noData") \/ \A i \in DOMAIN Tables : Printed(Tables[i]))

\* The command reports success only for a complete report: a query that fails
\* after some tables are printed is never swallowed (cli.go:239-291, 29-43).
ExitZeroIsComplete == exit = 0 => Complete /\ ~Printed("error")

\* In URL mode, tables that are not restricted to one node come after a text
\* that says why: the fleet-wide warning if no node carried the job id or the
\* log has none, the header's note if several nodes did, where the tables are of
\* all nodes and not only of those (url.go:26-55, prom.go:222-225).
FleetTablesAreFlagged ==
    \A i \in DOMAIN out :
        (cfg.url /\ out[i] = "cpu" /\ node = All)
            => \E k \in 1..(i - 1) : out[k] = IF fleet THEN "fallback" ELSE "severalNodes"
=============================================================================
