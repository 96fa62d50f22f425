------------------------------- MODULE Gather -------------------------------
(***************************************************************************)
(* A scrape of /metrics: exporter/collector.go (ProcessCollector.Collect)  *)
(* and exporter/kube_collector.go (KubeCollector.Collect) run in two       *)
(* goroutines of one registry gather, while the process scraper changes    *)
(* what GetActiveProcesses returns and main.go's startKubeScraper swaps    *)
(* the snapshot of exporter/kube.go's KubeStore, which module KubePods     *)
(* parses.  Several scrapes may be under way at once; all of them share    *)
(* the truncation counter.                                                 *)
(*                                                                         *)
(* Of a label only ci_job_name is kept, the one both collectors bound and  *)
(* count.  Label stands for sanitizing and bounding: it maps different job *)
(* names to one label, and IsCut tells the names it cuts.                  *)
(***************************************************************************)
EXTENDS KubePods, FiniteSets

CONSTANTS
    Gathers,      \* scrapes of /metrics
    ActiveSets,   \* what GetActiveProcesses may return: sets of samples
    Answers,      \* the kubelet's answers: lists of pods with their containers
    Label(_),     \* the bounded ci_job_name label of a job name
    IsCut(_),     \* whether bounding cuts it
    NoJob,        \* the label "" of a process without CI_JOB_NAME
    NoUID         \* the PodUID "" of a process outside pods

\* One sample per pid: see ExportedIsNewest of module Scraper.
ASSUME ActiveAssumption ==
    \A A \in ActiveSets : IsFiniteSet(A) /\ \A s, t \in A : s.pid = t.pid => s = t

ASSUME AnswersAssumption == \A a \in Answers : IsPodList(a)

VARIABLES
    active,       \* what GetActiveProcesses returns now
    kube,         \* the KubeStore's snapshot: UID -> KubePodInfo
    truncations,  \* gitlab_exporter_label_truncations_total{label="ci_job_name"}
    procTodo,     \* procTodo[g]: samples ProcessCollector has still to emit
    procCuts,     \* procCuts[g]: values it has cut
    shown,        \* shown[g]: the counter as g emits it
    kubeTodo,     \* kubeTodo[g]: samples KubeCollector has still to visit
    kubeCuts,     \* kubeCuts[g]: values it has cut
    byJob,        \* byJob[g]: entries [key, label, info] of the map byJob
    procState,    \* procState[g], kubeState[g]: "off", "run" or "done"
    kubeState,
    latest,       \* history: the kubelet's latest answer that could be parsed
    answers,      \* history: answers[g], the answer KubeCollector began with and those since
    wanted,       \* history: wanted[g], what KubeCollector was given to visit
    before        \* history: before[g], the gathers that were over when g began

procVars == <<procTodo, procCuts, shown, procState>>
kubeVars == <<kubeTodo, kubeCuts, byJob, kubeState, wanted>>
vars == <<active, kube, truncations, procVars, kubeVars, latest, answers, before>>

Over(g) == procState[g] = "done" /\ kubeState[g] = "done"
Started(g) == procState[g] # "off" \/ kubeState[g] # "off"

Init ==
    /\ active \in ActiveSets
    /\ kube = <<>>
    /\ truncations = 0
    /\ procTodo = [g \in Gathers |-> {}]
    /\ procCuts = [g \in Gathers |-> 0]
    /\ shown = [g \in Gathers |-> 0]
    /\ kubeTodo = [g \in Gathers |-> {}]
    /\ kubeCuts = [g \in Gathers |-> 0]
    /\ byJob = [g \in Gathers |-> {}]
    /\ procState = [g \in Gathers |-> "off"]
    /\ kubeState = [g \in Gathers |-> "off"]
    /\ latest = <<>>
    /\ answers = [g \in Gathers |-> {}]
    /\ wanted = [g \in Gathers |-> {}]
    /\ before = [g \in Gathers |-> {}]

-----------------------------------------------------------------------------
(* The writers *)

\* AddSample or MarkInactive: see module Scraper.
Scrape ==
    /\ active' \in ActiveSets
    /\ UNCHANGED <<kube, truncations, procVars, kubeVars, latest, answers, before>>

\* What Replace makes of each answer that can be parsed.
Parsed == [items \in {a \in Answers : parsePodListOK(a)} |-> Snapshot(parsePodList(items))]

\* update: the kubelet's answer is parsed and replaces the snapshot as a whole.
Replace(items) ==
    /\ items \in DOMAIN Parsed
    /\ kube' = Parsed[items]
    /\ latest' = items
    /\ answers' = [g \in Gathers |->
                      IF kubeState[g] = "run" THEN answers[g] \union {items} ELSE answers[g]]
    /\ UNCHANGED <<active, truncations, procVars, kubeVars, before>>

\* Mutation: a failed poll empties the snapshot.
PollFails_Clears ==
    /\ kube' = <<>>
    /\ UNCHANGED <<active, truncations, procVars, kubeVars, latest, answers, before>>

\* update: the request or the status fails, or one quantity of the answer does
\* not parse; the snapshot stays.
PollFails ==
    UNCHANGED vars

-----------------------------------------------------------------------------
(* The collectors *)

\* The registry starts both collectors; each takes its own snapshot of the
\* active processes.
Begin(g) ==
    before' = IF Started(g) THEN before
              ELSE [before EXCEPT ![g] = {h \in Gathers : Over(h)}]

ProcBegin(g) ==
    /\ procState[g] = "off"
    /\ Begin(g)
    /\ procTodo' = [procTodo EXCEPT ![g] = active]
    /\ procState' = [procState EXCEPT ![g] = "run"]
    /\ UNCHANGED <<active, kube, truncations, procCuts, shown, kubeVars, latest, answers>>

\* One process: its ci_job_name label is bounded, and a cut is counted.
ProcEmit(g, s) ==
    /\ procState[g] = "run"
    /\ s \in procTodo[g]
    /\ procTodo' = [procTodo EXCEPT ![g] = @ \ {s}]
    /\ IF IsCut(s.job)
       THEN /\ procCuts' = [procCuts EXCEPT ![g] = @ + 1]
            /\ truncations' = truncations + 1
       ELSE UNCHANGED <<procCuts, truncations>>
    /\ UNCHANGED <<active, kube, shown, procState, kubeVars, latest, answers, before>>

\* Mutation: the counter is read without waiting for this gather's cuts.
ProcEnd_Early(g) ==
    /\ procState[g] = "run"
    /\ shown' = [shown EXCEPT ![g] = truncations]
    /\ procState' = [procState EXCEPT ![g] = "done"]
    /\ procCuts' = [procCuts EXCEPT ![g] = @ + Cardinality({s \in procTodo[g] : IsCut(s.job)})]
    /\ truncations' = truncations + Cardinality({s \in procTodo[g] : IsCut(s.job)})
    /\ UNCHANGED <<active, kube, procTodo, kubeVars, latest, answers, before>>

\* The counter is emitted last.
ProcEnd(g) ==
    /\ procState[g] = "run"
    /\ procTodo[g] = {}
    /\ shown' = [shown EXCEPT ![g] = truncations]
    /\ procState' = [procState EXCEPT ![g] = "done"]
    /\ UNCHANGED <<active, kube, truncations, procTodo, procCuts, kubeVars, latest, answers, before>>

KubeBegin(g) ==
    /\ kubeState[g] = "off"
    /\ Begin(g)
    /\ kubeTodo' = [kubeTodo EXCEPT ![g] = active]
    /\ wanted' = [wanted EXCEPT ![g] = active]
    /\ answers' = [answers EXCEPT ![g] = {latest}]
    /\ kubeState' = [kubeState EXCEPT ![g] = "run"]
    /\ UNCHANGED <<active, kube, truncations, procVars, kubeCuts, byJob, latest>>

\* Mutation: processes are told apart by the name as it was read.
JobKey_Raw(job) == job

\* The key of byJob is the bounded label.
JobKey(job) == Label(job)

\* One process: bound, count, look the pod up; the last one of a job wins.
KubeVisit(g, s) ==
    /\ kubeState[g] = "run"
    /\ s \in kubeTodo[g]
    /\ kubeTodo' = [kubeTodo EXCEPT ![g] = @ \ {s}]
    /\ IF s.uid # NoUID /\ IsCut(s.job)
       THEN /\ kubeCuts' = [kubeCuts EXCEPT ![g] = @ + 1]
            /\ truncations' = truncations + 1
       ELSE UNCHANGED <<kubeCuts, truncations>>
    /\ IF s.uid # NoUID /\ Label(s.job) # NoJob /\ s.uid \in DOMAIN kube
       THEN byJob' = [byJob EXCEPT ![g] = {e \in @ : e.key # JobKey(s.job)} \union
                        {[key |-> JobKey(s.job), label |-> Label(s.job), info |-> kube[s.uid]]}]
       ELSE UNCHANGED byJob
    /\ UNCHANGED <<active, kube, procVars, kubeState, wanted, latest, answers, before>>

\* The metrics of byJob are emitted.
KubeEnd(g) ==
    /\ kubeState[g] = "run"
    /\ kubeTodo[g] = {}
    /\ kubeState' = [kubeState EXCEPT ![g] = "done"]
    /\ UNCHANGED <<active, kube, truncations, procVars, kubeTodo, kubeCuts, byJob, wanted,
                   latest, answers, before>>

Next ==
    \/ Scrape
    \/ \E items \in Answers : Replace(items)
    \/ PollFails
    \/ \E g \in Gathers :
         \/ ProcBegin(g) \/ ProcEnd(g) \/ KubeBegin(g) \/ KubeEnd(g)
         \/ \E s \in procTodo[g] : ProcEmit(g, s)
         \/ \E s \in kubeTodo[g] : KubeVisit(g, s)

Spec == Init /\ [][Next]_vars

-----------------------------------------------------------------------------
(* Properties *)

\* No two kuber_* metrics of a gather have the same label: one duplicate would
\* fail the whole scrape of /metrics (kube_collector.go:93, 105-106).
NoDuplicateSeries == \A g \in Gathers : \A e, f \in byJob[g] : e.label = f.label => e = f

UIDs(items) == {items[i].uid : i \in DOMAIN items}

\* A job whose pods the kubelet's latest answer before KubeCollector began
\* listed, and every answer while it ran, is exported, whatever polls fail and
\* however the lookups interleave with Replace (main.go:394-399,
\* kube.go:225-233).
KnownJobsExported ==
    \A g \in Gathers : kubeState[g] = "done" =>
        \A s \in wanted[g] :
            (s.uid # NoUID /\ Label(s.job) # NoJob /\ \A a \in answers[g] : s.uid \in UIDs(a))
                => \E e \in byJob[g] : e.label = Label(s.job)

\* Of a pod listed twice, the last entry is the one Replace keeps.
Requests ==
    [a \in DOMAIN Parsed \union {<<>>} |->
        [u \in UIDs(a) |-> TotalRequest(a[Max({i \in DOMAIN a : a[i].uid = u})])]]

\* The requests exported for a job are those of the pod of one of its processes,
\* summed over all containers of the pod, as one answer of the kubelet has
\* them: the newest one that parsed before KubeCollector began, or one that
\* parsed while it ran.  Two answers are never mixed, within a pod or when one quantity
\* of an answer does not parse.  How old the answer is has no bound: while
\* polls fail the last snapshot is kept (main.go:394-399, kube.go:127-150,
\* 225-241, kube_collector.go:75-93).
RequestsOfOwnPod ==
    \A g \in Gathers : \A e \in byJob[g] : \E s \in wanted[g] :
        /\ s.uid # NoUID /\ Label(s.job) = e.label
        /\ \E a \in answers[g] : s.uid \in UIDs(a) /\ e.info = Requests[a][s.uid]

Cuts == [g \in Gathers |-> procCuts[g] + kubeCuts[g]]
CutsOf(gs) == MapThenSumSet(LAMBDA g : Cuts[g], gs)

\* The counter a gather emits has counted the cuts of its own ProcessCollector
\* and all cuts of the gathers that were over when it began: a cut of
\* KubeCollector shows up one scrape late at most (collector.go:426-429).
CutsAreCounted ==
    \A g \in Gathers : procState[g] = "done" => shown[g] >= procCuts[g] + CutsOf(before[g])
=============================================================================
