# TLA+ models of gitlab-procs-exporter

The exporter samples the processes of a host every few seconds, keeps ten
minutes of history, and serves it as Prometheus metrics, as JSON and on a
dashboard. Around it are a label-size contract with the consumers downstream, a
collector of Kubernetes pod requests, installation and update under systemd and
as a Windows service, and `jobreport-web`, a small server that keeps a list of
Prometheus URLs and runs job reports against them.

These modules model the parts of it that carry state or bounds, check them with
TLC on small instances, and prove the main results with TLAPS for all values of
the constants. `PROJECT.json` lists components, runs, hazards, theorems and, for
each definition, the lines of Go it stands for.

## 1. Inventory

| Component | State | Operations | Hard part |
|---|---|---|---|
| History store (`exporter/history.go`) | timelines per `(pid, create time)`, `activeKeys` | `AddSample`, `MarkInactive`, `pruneAll`, `GetActiveProcesses`, `QueryHistory` | pid reuse moves `activeKeys`; readers come between two calls of one scrape |
| Process scraper (`main.go`: `startScraper`, `scrape`, `liveProcess`) | cache of process handles | one scrape per tick: list pids, read each, mark the unseen | every read is of a process that may be gone or replaced; every read may fail |
| Configuration and label contract (`exporter/config.go`, `labelbound.go`) | limit per label | `LoadConfig`, `mergedMaxLabelBytes`, `boundLabelWith` | the marker goes past the limit; floors, ceilings, overflow, rune boundaries |
| Environ label (`collector.go`: `scrubEnviron`) | none | render variables under three caps | separators, markers, which variables are left out |
| Metrics gather (`collector.go`, `kube_collector.go`) | the truncation counter | two `Collect` methods in goroutines of one gather | overlapping gathers; one duplicate series fails the scrape |
| Kubernetes pods (`kube.go`) | snapshot of pods by UID | quantities, `parsePodList`, `Replace`, `Lookup`, polling | failed polls; one bad quantity fails the list; lookups between two snapshots |
| Per-thread I/O (`procio_linux.go`) | none kept | `SelfIO` sums `/proc/<pid>/task` | threads start and exit between listing, open and read |
| URL list (`cmd/jobreport-web/server.go`, `store.go`) | a JSON file, a mutex | `Load`, `Add`, `Remove`, `writeJSONAtomic` | racing requests, failing writes, crashes |
| Report endpoint (`cmd/jobreport-web/runner.go`, `window.go`) | one child process per request | check the form, run the child for at most 90 seconds, show its output | the limit against the child's own retries; the inherited environment |
| Job report engine (`internal/jobreport`) | one run of a command | flags, window, log, queries with retries, sections of output | partial reports; lines of a log in any order; a slow or dead Prometheus |
| Server lifecycle (`main.go`: `main`, `run`) | context, listener, goroutines, tickers | start, serve, shut down | cancellation against a failing listener and requests that never end |
| Windows service (`deploy/service_windows.go`) | SCM status and entry, `errCh` | `Execute`, `RunWindowsService`, install, uninstall | a stop request against a run that already failed; removal while the service is still stopping |
| systemd deployment (`deploy/systemd.go`, `release.go`) | unit file, loaded unit, running service, package | `InstallService`, `UninstallService`, `UpdateService` | sequences of commands that fail or are interrupted |
| Secret heuristics, dashboard, templates | none | predicates on text, output | none that a model would reach |

How they interact: the scraper goroutine is the only writer of the store; the
collectors and the JSON handlers read it under its lock. `run` starts the
scrapers and the listener and returns when the context is cancelled or the
listener ends; on Windows `Execute` cancels that context. The two collectors
share the truncation counter and the limit table, which is built once from the
configuration. `jobreport-web` is a process of its own, and starts the report
engine as a child.

What correctness means for each is stated by the properties in section 3.

## 2. Modules

| Module | Models |
|---|---|
| `HistoryStore` | the store; each method is one step, since `hs.mu` covers its body |
| `Scraper` (extends `HistoryStore`) | the scraper and the processes of the host |
| `ActiveSeries` | abstract: what readers of `GetActiveProcesses` are promised |
| `ScraperProofs` | proofs about `Scraper` |
| `LabelBound`, `LabelBoundProofs` | a label-size override from YAML to the bounded label |
| `EnvironLabel`, `EnvironLabelProofs` | `scrubEnviron`, one variable per step |
| `KubePods` | the kubelet's answer: quantities, `parsePodList`, the map `Replace` makes |
| `Gather` (extends `KubePods`), `GatherProofs` | overlapping gathers of the two collectors, the poller |
| `SelfIO`, `SelfIOProofs` | the walk over a process's threads, and its threads |
| `PromUrls` | URLs, their normalization, requests: shared by the next two |
| `UrlList` | abstract: a list with atomic add, remove and read |
| `WebStore` | the handlers over the file, step by step, with crashes |
| `JobLog` | `parseJobLog`, a line at a time |
| `PromClient` | one query with its attempts, backoff and timeouts |
| `JobReport` (extends both) | one run of the report command |
| `ReportPage` (extends `JobReport`) | the page that runs the command under a limit |
| `WebProofs` | proofs about `WebStore` and about `ReportPage` with the modules under it |
| `Deploy` | install, uninstall and update as commands to systemd and dpkg |
| `ServerLifecycle` | `main`, `run`, the loops and the Windows `Execute` |
| `WindowsService` (extends it) | the SCM, its entry, install and uninstall |
| `Services` (extends it and `Deploy`) | `main`'s switch over the action: systemd on Linux, the SCM on Windows |
| `ServiceProofs` | proofs about `Services`, that is `Deploy` and `WindowsService` |
| `FoldTheorems` | induction over numbers and finite sets, folds, sums, sorted enumerations |
| `MC...` | values of the constants for TLC |

**HistoryStore and Scraper.** `processes` is the set of all samples; a timeline
is the subset with one pid and create time, in the order of the timestamps, and
`IsLast` is its last element. A process is identified by its birth time: `proc`
gives the one that holds a pid now. `Spawn`, `Exit` and `Tick` run between any
two steps of the scraper. A scrape is one action per read: `ListPids`,
`ReuseHandle` or `OpenHandle`, `ReadName`, `ReadCreateTime`, `ReadCmdline`,
`ReadPercent`, `ReadTimes`, `ReadMemoryInfo`, `ReadIOCounters`, `ReadSelfIO`,
`ReadEnviron` and `Record`, which reads the pod UID and calls `AddSample` with
its pruning; then `FinishScrape` (`MarkInactive`, `pruneAll` and the eviction of
handles). `NoProcess`, `PidsFail` and the outcomes of the reads are the error
paths, enabled by the constant `Fallible`. A sample keeps the birth time of the
process its name, its CPU times and the baseline of its percentage were read of
(`Nobody` when a read failed), and `mixed`, whether any other part is of another
process than the one it is filed under. The history field `pinned` says that the
handle's create time was read when it was opened, so that `IsRunning` compares
with it; a handle that is not pinned takes the create time of whatever process
has the pid at the next check.

**LabelBound** has one variable for the limit table and actions for a file that
is rejected, loaded, or replaced by a hand-built `Config`, and for bounding a
value. A value is its length and its rune boundaries. **EnvironLabel** keeps
the length of the label, the count and the flag; whether a variable is redacted
is an input.

**Gather** keeps of the labels `ci_job_name`, the one both collectors bound and
count. `Label` is sanitizing and bounding; it maps different names to one label.
The poller replaces the pods by what `KubePods` makes of an answer of the
kubelet, or keeps the old ones when the poll or the parsing fails. The history
variable `answers` has, for each gather, the answer the pods came from when its
`KubeCollector` began and those that parsed since. Quantities
are integers, CPU in millicores; the rounding of fractions is left out.

**SelfIO** has the kernel's side (`Clone`, `DoIO`, `ThreadExit`) run between any
two steps of the walk: the listing, the open and the read of each `io` file.
The task of the thread group's leader outlives the others, as in Linux. A read
of a file whose thread has exited fails with `ESRCH`, which is not
`os.ErrNotExist`; this and `ENOENT` from the open are behaviour of the kernel.
Names are sorted as text, which says nothing about the threads' age, so they
are visited in any order.

**WebStore** gives each client a handler with the control points of `Add` and
`Remove` down to `CreateTemp`, `Write`, `Rename` and the deferred `Remove`.
The index page reads without the mutex, as in the code. `Crash` loses
everything but the file.

**JobLog, PromClient, JobReport, ReportPage.** The patterns `parseJobLog` tries
on a line do not look at each other's results, so a line that matches several is
as many lines, each with one; they come in any order, as job output does. Of the
artifacts the first URL of each label is kept, of other fields the first
value, the last or all, as in the code. The
clock counts half seconds. An attempt of a query succeeds, is refused, fails at
the gateway or on the transport, or runs into `http.Client.Timeout`; the last
three kinds are retried as in the code. `out` is the sequence of sections
written so far, with the warning or the note that precedes tables of all nodes.
`CommandStep` lets the child go on only as far as the limit
allows and `Kill` ends it there; what it has written stays. Arguments the form
does not give come from the environment the server was started with:
`JOBREPORT_URL`, `CI_JOB_ID`, `JOBREPORT_NODE`, `JOBREPORT_WINDOW`.

**Deploy** separates the unit file, the unit as systemd loaded it, and the
configuration and version the service really runs with. `Failing` says which
commands may fail, and one that fails may have done part of its work: `enable`
and `disable --now` may have changed the enablement, `dpkg` may have replaced or
removed the files and left the package half-configured, `restart` may have
stopped the service. An error returns where the code returns and is ignored
where the code ignores it. `odd` is a package status other than "install ok
installed" (on hold, half-configured): `dpkgInstalled` and `KeepPackage` are
the two ways out of the `dpkg -s` check. The history variable `ignored` remembers
what an uninstall went past, a failure or a status it could not read, until a
later command makes it good. systemd and
dpkg are modelled from what the code relies on: `enable --now` starts a stopped
service and leaves a running one alone; a stopped and disabled unit is read
again from its file. A service that dies is restarted (`Restart=on-failure`); the
five seconds systemd waits first are not told from running. One that is stopped
or exits cleanly stays down.

**ServerLifecycle** has a control point for each goroutine: `run`, the one in
`ListenAndServe`, the scraper and the kubelet poller, and `main` or `Execute`.
An interval that is not positive makes `time.NewTicker` panic. A signal other
than the interrupt ends the process without the code taking part.
**WindowsService** adds the administrator's commands step by step, the entry of
the SCM, which goes only when its process has ended and its handles are closed,
and restarts after a crash. `Services` puts the two systems side by side: the
initial state says which one the binary runs on, the steps are those of `Deploy` or those of
`WindowsService`, which also starts the process on a console, without the SCM.

## 3. Runs

Passing runs:

| Run | Checks | Shows |
|---|---|---|
| `scraper` | `TypeOK`, `ExportedIsNewest`, `LiveNeverInactive`, `StaleActiveIsSuperseded`, `WithinRetention`, `ForeignAtMostOnce`, `OwnBaseline`, `HistoryIsAppendOnly`, `ImplementsActiveSeries` | with every read able to fail and the pid reused at any time: what is exported is the newest sample of its pid; no live process is marked inactive; for handles whose create time was read when they were opened, a reuse between check and read spoils one sample of a timeline at most and no CPU baseline is inherited; a finished scrape leaves nothing too old; samples are only added, dropped or marked; readers see what `ActiveSeries` promises |
| `label_bound` | `AcceptedOverridesApply`, `EmittedFitsDownstream`, `CutKeepsWholeRunes` | an override is rejected or applied as written; a bounded value fits and ends between runes |
| `environ_label` | `EnvironFits`, `FlagMeansOmitted`, `OmittedWouldNotFit` | the label fits, the flag is exact, nothing that fits is left out |
| `gather` | `NoDuplicateSeries`, `KnownJobsExported`, `RequestsOfOwnPod`, `CutsAreCounted` | two overlapping gathers while processes and pods change: no duplicate series, no job missed, a job's requests are what one answer of the kubelet, the newest that parsed or a newer one, says of a pod of the job, no cut uncounted |
| `selfio` | `SumIsBracketed`, `NoLiveTaskMeansGone` | a returned sum leaves out no thread that is still there; `ErrNoLiveTask` means the process is gone |
| `web_store` | `NoDuplicates`, `ImplementsUrlList`, `Answered` | racing requests are atomic, also over failures and a crash, and are answered |
| `report` | `WindowIsHull`, `PhasesPaired`, `FramesAreLowest`, `ExitZeroIsComplete`, `FleetTablesAreFlagged`, `AcceptedWindowIsQueried`, `FailureIsExplained` | a log is read right in any order of its lines; no partial report passes for a whole one; the window the page accepts is the one that is queried, or, under `JOBREPORT_URL`, the page shows first which job's window it is; tables of all nodes say why; a failure is explained unless the child is killed |
| `services` | `InstallTakesHold`, `UpdateTakesEffect`, `UninstallLeavesNothing`, `ErrorReachesExit`, `StoppedMeansReturned`, `InstalledIntervalRuns`, `StopEndsProcess`, `ListenerFailureEnds`, `StoppedServiceIsRemoved` | under systemd a success that an install or an update reports is real, whatever failed or was interrupted before, and an uninstall leaves only what an ignored failure or a package status left; on a console and under the SCM the process ends when it should, with the right status; a removed service goes, also when ten seconds are not enough for it to stop |

Runs in which the code disagrees with what it says of itself:

* `scraper_reuse`: `liveProcess` means to evict a handle when its pid passes to
  another process, but a handle opened while the create time could not be read
  has nothing to compare: it takes the newcomer for its own, keeps the old name,
  and measures the newcomer's first percentage against the old process's times.
* `deploy_reinstall`: installing again with another port or config path
  reports "The exporter is running on port ..." while the old process runs on,
  since `enable --now` does not restart it.
* `report_killed`: a Prometheus that does not answer takes three attempts of 30
  seconds and 1.5 seconds of backoff, and the page kills the child after 90: the
  error text the page means to show is never printed.
* `selfio_exit`: a thread that exits between the open and the read of its file
  fails the whole walk, and zero is published for a process that is alive, where
  the comment says that a thread exiting mid-walk is expected.

Limits that the passing properties spell out:

* A process whose pid is reused before the next scrape is not marked inactive,
  since `AddSample` has moved `activeKeys` to the newcomer and `MarkInactive` looks
  nowhere else; `StaleActiveIsSuperseded` says how far that goes: there is always
  a newer timeline of the pid, so only `QueryHistory` shows it.
* Nothing is pruned while the pids cannot be listed (`scrape` returns before
  `MarkInactive`), so `WithinRetention` speaks of a listing that succeeded.
* A handle opened without a create time may stay with two processes for as long
  as the second one lives; `ForeignAtMostOnce` and `OwnBaseline` speak of the
  other handles (`pinned`), and `scraper_reuse` shows this one.
* The pods are replaced only by an answer that parses. While polls fail, the
  requests exported may be of any age; `RequestsOfOwnPod` says whose they are,
  not how old.
* When `disable --now` fails, an uninstall goes on and the service runs on. When
  `dpkg -s` fails, or says anything but "install ok installed", as for a package
  on hold, the package is kept. Both times "Done. The ... service and package
  have been removed" is printed (`deploy/systemd.go:239`).
  `UninstallLeavesNothing` names these cases and excludes every other.
* A form's window is ignored if the server was started with `JOBREPORT_URL`:
  the child then reports the job of that URL. `AcceptedWindowIsQueried` says for
  that case that the page shows that job's section before anything else. And
  where `window.go` speaks of the default window of ten minutes,
  `JOBREPORT_WINDOW`, if set, replaces it.
* After a shutdown that timed out, requests may still be open when `Stopped` is
  reported; `StoppedMeansReturned` is about `run`.

### Bounds

* `Scraper`: `MaxTime` 3 with `Retention` 2 is enough for three lives of a
  pid, samples that expire while they are current, and a scrape longer than the
  retention. One pid suffices for the properties that speak of one, since pids
  share only the listing and the clock; all of them are also proved, for any
  number of pids.
* `LabelBound`: limits on both sides of 0, the floor, the ceiling and MaxInt
  (scaled down; only its being above the ceiling matters); value lengths on
  both sides of each limit; one- and four-byte runes at two offsets; files with
  up to two overrides, an unknown label among the keys.
* `EnvironLabel`: the ceiling (600) and the count (3) are scaled down so that
  four variables of critical sizes reach both; the value cap is the real one.
* `Gather`: two gathers, two job names that are cut to one label and a third
  with a label of its own, two pods and a process without one; the answers have
  pods with one and two containers, a UID listed twice, a quantity that does not
  parse and an empty one. The label of processes without a job name does not come
  up in this instance. A third gather adds no new pair of writers of the counter.
* `SelfIO`: three threads, two walks, two units of I/O each: a thread can exit
  and another start at any point of a walk and between two.
* `WebStore`: two clients, two spellings of one URL and one that is refused,
  three initial files, one crash.
* `ReportPage`: logs of up to three lines, enough for a section that ends twice
  or starts twice; two frames shown instead of five, so that one is cut off;
  `MaxInt64` scaled to 9 with an epoch above it; attempts that answer at once,
  after 20 seconds or not at all. Timeouts and the backoff are the real ones.
  Forms around every check of the page, each with the plain environment;
  each variable of the environment with the forms it acts on.
* `Services`, Linux: two configurations and three releases; every command may fail;
  invocations, interruptions, reboots and changes of the package's status are
  unbounded. Windows and console: two requests in flight; everything else is
  finite, and starts, stops, installs and uninstalls are unbounded.

### Fairness

`WebStore`: weak fairness of a handler's own steps (a runnable goroutine is
scheduled, a file operation returns) and strong fairness of taking the mutex
(`sync.Mutex` hands the lock to a waiter of more than 1 ms). `Services` has the
fairness of `WindowsService`: weak fairness of the steps of `run` and of `main` or `Execute` (the timeout of
`Shutdown` is such a step), of a ticker's panic, and of an administrator's
command once it was started; strong fairness of the SCM dropping a marked entry,
which other commands' handles can delay but not prevent. Requests and scrapes may
last for ever, and nobody need send a stop request; nothing is assumed of an
administrator on Linux, of dpkg or of systemd. No other run needs fairness.

## 4. Proofs

Every safety property of a passing run is a theorem, for all values of the
constants that satisfy the modules' assumptions; so are the two refinements.
What the invariants add to the property, and why:

### Scraper and store (`ScraperProofs`)

For any set of pids, any retention and any choice of failing reads:

* `TypeCorrect`, `ExportedNewest`. `ExportedIsNewest` is not inductive.
  `StoreInv` adds `Control` (what the scraper's locals hold at each control
  point) and `OneStampPerPid` (a pid has at most one sample per timestamp, across
  all its timelines, and the samples of a pid that is still to be recorded are
  older than the scrape under way). `Record` adds a sample with a fresh
  timestamp and points `activeKeys` at it; `FinishScrape` only drops and marks
  samples and clears the keys of those it marks.
* `LiveNeverMarked`. `LiveInv` adds `Births` (create times that were read are
  birth times of the past) and `Unlisted` (during a scrape, no sample of a pid
  missing from the listing is of the process that holds the pid now). So a
  process `MarkInactive` marks has ended, whatever runs under its pid.
* `RetentionKept`, `StaleSuperseded`, `AppendOnly`. `HistoryInv` adds to
  `StoreInv` that a timeline left active under another key is older than another
  timeline of the pid, or has expired and goes at the end of the scrape under
  way: the second case is the scrape that outlasts the retention.
* `BaselineOwn`, for handles whose create time was read when they were opened.
  `HandleOwn` says that the name and the CPU baseline such a handle caches are of
  its own process, or that process has ended (`Dead`): then the next `IsRunning`
  sees another create time and the handle is evicted. A process that has ended
  does not come back (`DeadStays`), since births grow.
* `ForeignOnce`, for the same handles. `ForeignInv` adds that the process of a
  sample with foreign parts has ended, and that the iteration under way for its
  pid has another process's handle. So no second sample is made for it.
* `Refinement`: `Spec => ImplementsActiveSeries`. Each action maps to one of
  `ActiveSeries` or a stutter: listing is `NewScrape`, `Record` is `Publish` or,
  when the scrape outlasted the retention, `Withdraw`; `FinishScrape` is
  `Withdraw`. It rests on `StoreInv`.

### Labels (`LabelBoundProofs`, `EnvironLabelProofs`)

For every configuration file, label and value: `LabelTypeCorrect`,
`AcceptedApply`, `EmittedFits`, `CutWholeRunes`, from `LabelInv`, which says that
every entry of the table is between the floor and the ceiling however it was
built. `TruncateOK` is the lemma about the cut.

For every environment and all caps: `EnvironBounded`, `FlagExact`,
`OmittedTooLong`, from `EnvironInv`; `SkippedTooLong` says that what was left out
did not fit the label as it was then, and the label only grows.

### Gather (`GatherProofs`)

For any sets of samples, any answers of the kubelet, any number of containers
and of overlapping gathers:

* `OneSeriesPerLabel`, `KnownExported`, `RequestsOwn`, from `RequestInv`: the
  store holds what `Replace` made of the latest answer that parsed
  (`ParsedAnswer`, with `PodTotal` for the sum over a pod's containers), every
  gather under way knows that answer, the entries of `byJob` are kept by their
  label and are what one answer it knows says of the pod of a process of that
  label (`OwnPod`), and a process that was visited has an
  entry if every answer lists its pod.
* `CutsCounted`, from `CutsInv`: the counter is at least the sum of the cuts
  of any gathers, and what a collector has counted or emitted does not
  change once it has ended. The sum over a set of gathers changes by one when one
  of them counts a cut (`SumBump`).

### Per-thread I/O (`SelfIOProofs`)

For any number of threads: `NoLiveTask`, from `LeaderInv`: while a walk is under
way the leader is still to be visited, open or read, or the process is gone.
`SumComplete` says which threads a published sum has and that each value is
between the thread's account at the listing and now; `SumBracketed` sums that up
with `SumMonotone`.

### Deployment and services (`ServiceProofs`)

For every set of configurations and every choice of failing commands:
`InstallHolds`, `UpdateEffective`, `UninstallClean`, from `DeployInv`, which says
what each kind of invocation has achieved at each of its commands (for an
uninstall: achieved, or what it went past), and that a
unit file is missing only when the service is off or a failed `disable --now` was
ignored; without that a second uninstall, whose disable fails for want of the
file, would not be covered.

For any number of requests in flight: `ErrorExits`, `StoppedReturned`,
`IntervalRuns`, from `LifeInv`: `errCh` holds the result of `run` from the moment
it returns, and no entry has an interval of zero.

The theorems are about `DeploySpec` and `Spec`; `EitherSystem` says that
`ServicesSpec`, which the run checks, implies both.

### URL list (`WebProofs`)

For any number of clients, requests and crashes:

* `StoreImplementsUrlList`: `Spec => ImplementsUrlList`. `Begin`, `Reply` and
  `Crash` are `Ask`, `Done` and `Forget`; a load that needs no write and `Rename`
  are `TakeEffect`, every failure is `Fail`, the other steps stutter. `WebInv` says that whoever is past the
  mutex holds it and that the list it is about to write is the effect of its
  request on the list that is stored *now*: nobody else writes meanwhile.
  `RemovedMembers` is the lemma about `Remove`'s loop.
* `StoreKeepsDistinct`: `Spec => (NoDuplicates => []NoDuplicates)`. The premise is
  about the first state only. A file edited by hand may hold a URL twice; the
  server neither adds to that nor repairs it, since only `Remove` looks for
  doubles. The run starts from files without doubles.
* `MutexNotLeaked`: whoever holds the mutex is an add or a remove between `Lock`
  and `Unlock`, the part of `Answered` that needs no fairness.

### Report command and page (`WebProofs`)

For logs of any length, any environment, any timing of the answers and any limits:

* `WindowHolds`, `PhasesHold`, `FramesHold`, from `LogInv`. The window is unset
  (0) until the first section, a start that waits for its end is the last line of
  its section so far, a finished phase runs from a start line to the next line of
  its section, an end, and has the epochs of these two lines (`Ends`), `frameByNum` maps every frame number of the log to the
  first frame that has it. `TopIsLowest` derives the frames shown; that a finite
  set of numbers has an ascending enumeration is `SortedEnumeration`.
* `ExitZeroHolds`, `FleetTablesFlagged`, from `OutputInv` and `FleetInv`: which
  sections have been written when a stage is reached, no error before the end,
  and, before the first table of all nodes, the text that says why (`Note`): the
  warning when no node was found, the note in the header when there were several.
  The second comes from the same node lookup, which finds a finite set of nodes.
* `WindowIsQueried`, `FailureExplained`, from `PageInv`: while the child runs its
  configuration is that of a form that was accepted and of the environment.
  Without `JOBREPORT_URL` the window it queries is the one asked for
  (`AskedWindow`), and a window the form gave ends in an error only after a query
  has failed. With it, the job section is written first and what comes first
  stays first (`FirstStays`). An answer is only made of an output that
  `OutputInv` describes.

### Assumptions and limits

The assumptions are the named `ASSUME`s of the modules: the dummy values are
distinct from the real ones, bounds are numbers, a rune is at most four bytes
long, a value starts with one and is shorter than two gigabytes, the leader is
one of the threads, a set of samples has one per pid (`ExportedIsNewest`), an
answer of the kubelet is a list of pods with lists of containers
(`AnswersAssumption`), a line of a log holds what the patterns capture: digits,
or a field that `parseJobLog` knows (`LinesAssumption`), artifact labels are not
names of other fields that are joined or overwritten (`LabelsAssumption`), and
the nodes a job may have run on are a finite set without the pattern for all of
them (`NodesAssumption`). TLC evaluates them all.

`FoldTheorems` holds the inductions. The library's induction rules take an
operator as a parameter, which the installed provers cannot instantiate; here the
induction is stated of a set of numbers or of subsets (`NatSetInduction`,
`SubsetInduction`), which they can. With it `FoldExists` gives the function that
`MapThenFoldSet` chooses, on which sums (`MapThenSumSet`) and `FoldLeft` rest. In
the same way tlapm expands neither `SelectSeq` nor `SortSeq`; `Removed` is
therefore the fold that `Remove`'s loop is, and `SortFrames` chooses the ascending
sequence.

Left to TLC: the liveness properties `Answered`, `StopEndsProcess`,
`ListenerFailureEnds` and `StoppedServiceIsRemoved`, since fairness is out of the
prover's reach, and the four properties the code violates:
`NewcomerInheritsNothing`, `InstallRunsConfig`, `ErrorTextIsShown` and
`ExitIsTolerated`.

## 5. Not modelled

* The text of things: YAML and JSON syntax, flags, the unit file, HTML, the
  regular expressions of `parseJobLog`, `extractMeta` and the cgroup path, PromQL,
  rendered tables, `normalizeSubstrings`, the digest and salt of a truncation
  marker (its length is modelled, its value is not).
* The kubelet client's token, address and TLS settings, read once at the start.
* `IsSecretKey`, `IsSecretValue` and `shannonEntropy`: predicates on text, one
  of them in floating point. `EnvironLabel` takes their verdict as an input.
* `CheckDependencies`, the JSON handlers and the dashboard, which only read, and
  the metrics whose values are copied from a sample.
* The Windows and macOS stubs of `SelfIO`, which return constants.

## 6. Plan

Done, in this order: store and scraper, their refinement and proofs; label
contract; environ label; URL list; gather; deployment; lifecycle; the Windows
service with its installation; the report engine and its page; the kubelet's
answers; per-thread I/O; proofs of deployment, lifecycle, per-thread I/O and of
the scraper's history; inductions over sets, sums and folds; proofs of the
gather, the URL list and its refinement, the job log, the report and its page,
and of the one foreign sample; the status of
the package, and systemd and the SCM under one switch.

Possible next: an abstract specification of the report (a sequence of sections
that ends complete or with an error) implemented by `JobReport`, and of the
counter of cuts implemented by `Gather`; the safety halves of the service's
liveness properties.
