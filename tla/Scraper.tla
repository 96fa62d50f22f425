------------------------------ MODULE Scraper -------------------------------
(***************************************************************************)
(* main.go: startScraper, scrape and liveProcess, the only writer of the   *)
(* HistoryStore, running against a world of processes that start, exit and *)
(* reuse pids between any two reads of /proc.                              *)
(*                                                                         *)
(* Time passes during a scrape.  A process lives at least one clock unit,  *)
(* so (pid, birth) names one process; two scrapes start at different times *)
(* (the ticker's interval is longer than the clock's resolution).          *)
(***************************************************************************)
EXTENDS HistoryStore

CONSTANTS
    NoPid,     \* no loop iteration is under way
    MaxTime,   \* bound: the clock stops here
    Fallible   \* the reads that may fail although the process is there

\* The reads of an iteration, in the order scrape makes them.
InIteration == {"Name", "CreateTime", "Cmdline", "Percent", "Times", "MemoryInfo",
                "IOCounters", "SelfIO", "Environ", "PodUID"}

ReadOps == {"Pids", "NewProcess"} \union InIteration

ASSUME FallibleAssumption == Fallible \subseteq ReadOps
ASSUME NoPidAssumption == NoPid \notin Pids
ASSUME MaxTimeAssumption == MaxTime \in Nat

VARIABLES
    proc,        \* proc[p]: birth of the process that holds pid p, or Nobody
    procCache,   \* procCache[p]: the cached *process.Process, or NoHandle
    pc,          \* control point of the scraper goroutine: "idle", "loop", or its next read
    cur,         \* pid of the loop iteration (NoPid between iterations)
    todo,        \* pids of the listing not yet visited
    activePids,  \* the listing of the scrape under way
    scrapeNow,   \* the scrape's `now`
    draft,       \* locals of the iteration: createTime and what was read so far
    ended        \* when the last scrape returned, 0 if it could not list the pids

scrapeVars == <<procCache, pc, cur, todo, activePids, scrapeNow, draft, ended>>
vars == <<now, processes, activeKeys, proc, scrapeVars>>

CanFail(op) == op \in Fallible

(***************************************************************************)
(* A gopsutil handle: the create time and the name are cached on it after  *)
(* the first successful read, base is the process Percent last measured.   *)
(* pinned is history: the create time was read when the handle was opened, *)
(* so that IsRunning compares with it from then on.                        *)
(***************************************************************************)
NoHandle == [ct |-> Nobody, pinned |-> FALSE, name |-> Nobody, base |-> Nobody, open |-> FALSE]
Handle(ct, base) ==
    [ct |-> ct, pinned |-> ct # Nobody, name |-> Nobody, base |-> base, open |-> TRUE]
HandleType == [ct : Nat, pinned : BOOLEAN, name : Nat, base : Nat, open : BOOLEAN]

NoDraft == [ct |-> Nobody, ctRead |-> FALSE, cpu |-> Nobody, base |-> Nobody, mixed |-> FALSE]
DraftType == [ct : Nat, ctRead : BOOLEAN, cpu : Nat, base : Nat, mixed : BOOLEAN]

TypeOK ==
    /\ HistoryTypeOK
    /\ proc \in [Pids -> Nat]
    /\ procCache \in [Pids -> HandleType]
    /\ pc \in {"idle", "loop"} \union InIteration
    /\ cur \in Pids \union {NoPid}
    /\ todo \subseteq Pids
    /\ activePids \subseteq Pids
    /\ scrapeNow \in Nat
    /\ draft \in DraftType
    /\ ended \in Nat

\* The clock starts at 1: 0 is the scrapeNow of a program that has not scraped.
Init ==
    /\ now = 1
    /\ NewHistoryStore
    /\ proc \in [Pids -> {Nobody, 1}]
    /\ procCache = [p \in Pids |-> NoHandle]
    /\ pc = "idle"
    /\ cur = NoPid
    /\ todo = {}
    /\ activePids = {}
    /\ scrapeNow = 0
    /\ draft = NoDraft
    /\ ended = 0

-----------------------------------------------------------------------------
(* The world *)

Tick ==
    /\ now < MaxTime
    /\ now' = now + 1
    /\ UNCHANGED <<storeVars, proc, scrapeVars>>

Spawn(p) ==
    /\ proc[p] = Nobody
    /\ proc' = [proc EXCEPT ![p] = now]
    /\ UNCHANGED <<now, storeVars, scrapeVars>>

Exit(p) ==
    /\ proc[p] # Nobody
    /\ proc[p] < now
    /\ proc' = [proc EXCEPT ![p] = Nobody]
    /\ UNCHANGED <<now, storeVars, scrapeVars>>

-----------------------------------------------------------------------------
(* scrape *)

\* process.Pids() fails: nothing else is done.
PidsFail ==
    /\ pc = "idle"
    /\ CanFail("Pids")
    /\ ended' = 0
    /\ UNCHANGED <<now, storeVars, proc, procCache, pc, cur, todo, activePids, scrapeNow, draft>>

ListPids ==
    /\ pc = "idle"
    /\ now > scrapeNow
    /\ pc' = "loop"
    /\ activePids' = {p \in Pids : proc[p] # Nobody}
    /\ todo' = activePids'
    /\ scrapeNow' = now
    /\ UNCHANGED <<now, storeVars, proc, procCache, cur, draft, ended>>

\* Mutation: only the existence of the pid is checked.
IsRunning_PidExists(p) == procCache[p].open /\ proc[p] # Nobody

\* gopsutil's IsRunning: a create time not cached yet is read now.
IsRunning(p) ==
    /\ procCache[p].open
    /\ proc[p] # Nobody
    /\ procCache[p].ct \in {Nobody, proc[p]}

\* liveProcess returns the cached handle.
ReuseHandle(p) ==
    /\ pc = "loop"
    /\ p \in todo
    /\ IsRunning(p)
    /\ pc' = "Name"
    /\ cur' = p
    /\ todo' = todo \ {p}
    /\ procCache' = [procCache EXCEPT ![p].ct = IF @ = Nobody THEN proc[p] ELSE @]
    /\ UNCHANGED <<now, storeVars, proc, activePids, scrapeNow, draft, ended>>

\* Mutation: the new handle inherits the CPU baseline of the evicted one.
OpenHandle_KeepsBaseline(p) ==
    /\ pc = "loop"
    /\ p \in todo
    /\ ~IsRunning(p) \/ CanFail("CreateTime") \/ CanFail("NewProcess")
    /\ proc[p] # Nobody
    /\ pc' = "Name"
    /\ cur' = p
    /\ todo' = todo \ {p}
    /\ procCache' = [procCache EXCEPT ![p] = Handle(proc[p], procCache[p].base)]
    /\ UNCHANGED <<now, storeVars, proc, activePids, scrapeNow, draft, ended>>

\* liveProcess evicts a cached handle that is not running (or whose check
\* fails) and opens a new one; NewProcess ignores a create time it cannot read.
OpenHandle(p) ==
    /\ pc = "loop"
    /\ p \in todo
    /\ ~IsRunning(p) \/ CanFail("CreateTime") \/ CanFail("NewProcess")
    /\ proc[p] # Nobody
    /\ pc' = "Name"
    /\ cur' = p
    /\ todo' = todo \ {p}
    /\ \E ct \in {proc[p]} \union {Nobody : f \in Fallible \intersect {"CreateTime"}} :
         procCache' = [procCache EXCEPT ![p] = Handle(ct, Nobody)]
    /\ UNCHANGED <<now, storeVars, proc, activePids, scrapeNow, draft, ended>>

\* Mutation: a pid that cannot be opened is taken off the listing.
NoProcess_Unlists(p) ==
    /\ pc = "loop"
    /\ p \in todo
    /\ proc[p] = Nobody \/ CanFail("NewProcess")
    /\ procCache' = [procCache EXCEPT ![p] = NoHandle]
    /\ todo' = todo \ {p}
    /\ activePids' = activePids \ {p}
    /\ UNCHANGED <<now, storeVars, proc, pc, cur, scrapeNow, draft, ended>>

\* liveProcess returns an error: evicted, and the loop continues.
NoProcess(p) ==
    /\ pc = "loop"
    /\ p \in todo
    /\ proc[p] = Nobody \/ CanFail("NewProcess")
    /\ procCache' = [procCache EXCEPT ![p] = NoHandle]
    /\ todo' = todo \ {p}
    /\ UNCHANGED <<now, storeVars, proc, pc, cur, activePids, scrapeNow, draft, ended>>

\* What reading a part of /proc/<cur> may return: the data of the process that
\* holds the pid now, or nothing.
Outcomes(op) == {proc[cur]} \union {Nobody : f \in Fallible \intersect {op}}

\* Name: cached on the handle; an unreadable name ends the iteration.
ReadName ==
    /\ pc = "Name"
    /\ \E n \in IF procCache[cur].name # Nobody THEN {procCache[cur].name} ELSE Outcomes("Name") :
         /\ procCache' = [procCache EXCEPT ![cur].name = n]
         /\ IF n = Nobody THEN pc' = "loop" /\ cur' = NoPid
                          ELSE pc' = "CreateTime" /\ cur' = cur
    /\ UNCHANGED <<now, storeVars, proc, todo, activePids, scrapeNow, draft, ended>>

\* Mutation: no fallback for a create time that cannot be read.
ReadCreateTime_NoFallback ==
    /\ pc = "CreateTime"
    /\ \E ct \in IF procCache[cur].ct # Nobody THEN {procCache[cur].ct} ELSE Outcomes("CreateTime") :
         /\ procCache' = [procCache EXCEPT ![cur].ct = ct]
         /\ draft' = [NoDraft EXCEPT !.ct = ct, !.ctRead = (ct # Nobody)]
    /\ pc' = "Cmdline"
    /\ UNCHANGED <<now, storeVars, proc, cur, todo, activePids, scrapeNow, ended>>

\* CreateTime: cached on the handle, else read, else the fallback to now.
ReadCreateTime ==
    /\ pc = "CreateTime"
    /\ \E ct \in IF procCache[cur].ct # Nobody THEN {procCache[cur].ct} ELSE Outcomes("CreateTime") :
         /\ procCache' = [procCache EXCEPT ![cur].ct = ct]
         /\ draft' = IF ct = Nobody THEN [NoDraft EXCEPT !.ct = scrapeNow]
                                ELSE [NoDraft EXCEPT !.ct = ct, !.ctRead = TRUE]
    /\ pc' = "Cmdline"
    /\ UNCHANGED <<now, storeVars, proc, cur, todo, activePids, scrapeNow, ended>>

\* Whether the sample under way has a part of another process than the one
\* it will be filed under, after a read that returned o.
Mixed(o) == draft.mixed \/ o \notin {Nobody, draft.ct}

\* A read whose failure leaves the zero value.
ReadPart(op, next) ==
    /\ pc = op
    /\ \E o \in Outcomes(op) : draft' = [draft EXCEPT !.mixed = Mixed(o)]
    /\ pc' = next
    /\ UNCHANGED <<now, storeVars, proc, procCache, cur, todo, activePids, scrapeNow, ended>>

ReadCmdline == ReadPart("Cmdline", "Percent")

\* Percent measures against the times it read last, and replaces them; when
\* they cannot be read there is no percentage.
ReadPercent ==
    /\ pc = "Percent"
    /\ \E o \in Outcomes("Percent") :
         IF o = Nobody
         THEN UNCHANGED <<draft, procCache>>
         ELSE /\ draft' = [draft EXCEPT !.cpu = o, !.base = procCache[cur].base]
              /\ procCache' = [procCache EXCEPT ![cur].base = o]
    /\ pc' = "Times"
    /\ UNCHANGED <<now, storeVars, proc, cur, todo, activePids, scrapeNow, ended>>

ReadTimes == ReadPart("Times", "MemoryInfo")
ReadMemoryInfo == ReadPart("MemoryInfo", "IOCounters")
ReadIOCounters == ReadPart("IOCounters", "SelfIO")
ReadSelfIO == ReadPart("SelfIO", "Environ")
ReadEnviron == ReadPart("Environ", "PodUID")

ReadParts ==
    \/ ReadCmdline \/ ReadTimes \/ ReadMemoryInfo
    \/ ReadIOCounters \/ ReadSelfIO \/ ReadEnviron

\* The sample of the iteration; o is whose pod UID was read.
Sample(ts, o) ==
    [ts |-> ts, pid |-> cur, ct |-> draft.ct, ctRead |-> draft.ctRead,
     pinned |-> procCache[cur].pinned, name |-> procCache[cur].name,
     cpu |-> draft.cpu, base |-> draft.base,
     mixed |-> Mixed(o), active |-> TRUE]

\* Mutation: each sample is stamped when it is taken, not with the scrape's time.
Record_OwnClock ==
    /\ pc = "PodUID"
    /\ \E o \in Outcomes("PodUID") : AddSample(Sample(now, o))
    /\ pc' = "loop"
    /\ cur' = NoPid
    /\ draft' = NoDraft
    /\ UNCHANGED <<now, proc, procCache, todo, activePids, scrapeNow, ended>>

\* ProcessPodUID, then AddSample.
Record ==
    /\ pc = "PodUID"
    /\ \E o \in Outcomes("PodUID") : AddSample(Sample(scrapeNow, o))
    /\ pc' = "loop"
    /\ cur' = NoPid
    /\ draft' = NoDraft
    /\ UNCHANGED <<now, proc, procCache, todo, activePids, scrapeNow, ended>>

\* MarkInactive and the purge of procCache.
FinishScrape ==
    /\ pc = "loop"
    /\ todo = {}
    /\ MarkInactive(activePids)
    /\ procCache' = [p \in Pids |-> IF p \in activePids THEN procCache[p] ELSE NoHandle]
    /\ pc' = "idle"
    /\ activePids' = {}
    /\ ended' = now
    /\ UNCHANGED <<now, proc, cur, todo, scrapeNow, draft>>

\* The model's horizon: the clock has reached its bound between two scrapes.
Horizon ==
    /\ now = MaxTime
    /\ pc = "idle"
    /\ UNCHANGED vars

Next ==
    \/ Tick
    \/ \E p \in Pids : Spawn(p) \/ Exit(p)
    \/ PidsFail
    \/ ListPids
    \/ \E p \in Pids : ReuseHandle(p) \/ OpenHandle(p) \/ NoProcess(p)
    \/ ReadName
    \/ ReadCreateTime
    \/ ReadParts
    \/ ReadPercent
    \/ Record
    \/ FinishScrape
    \/ Horizon

Spec == Init /\ [][Next]_vars

-----------------------------------------------------------------------------
(* Properties *)

\* What GetActiveProcesses exports for a pid is active and is the newest
\* sample the store holds of that pid, whichever timeline that is in; so
\* /metrics never publishes two series for one pid (history.go:88-100).
ExportedIsNewest ==
    \A s \in GetActiveProcesses :
        /\ s.active
        /\ \A u \in QueryHistoryByPid(s.pid) : u = s \/ u.ts < s.ts

\* A process that is still running never has a sample marked inactive: the
\* listing a scrape starts from may be stale when MarkInactive uses it, but
\* only processes born after it are missing from it (main.go:547).
LiveNeverInactive ==
    \A p \in Pids : \A s \in QueryHistoryByPid(p) :
        (s.ctRead /\ ~s.active) => proc[p] # s.ct

\* After a scrape, a timeline that still ends in an active sample without
\* being its pid's active key has a newer timeline of the same pid: pid reuse
\* is the only way a process escapes MarkInactive (history.go:62, 72-81).
StaleActiveIsSuperseded ==
    pc = "idle" =>
        \A s \in processes :
            (s.active /\ IsLast(s, Timeline(s.pid, s.ct)) /\ activeKeys[s.pid] # s.ct)
                => \E u \in QueryHistoryByPid(s.pid) : u.ct # s.ct /\ u.ts > s.ts

\* When a scrape that could list the pids returns, every sample that is kept is
\* within the retention, whatever scrapes before it could not (and pruned
\* nothing) and however long it took (history.go:38, 159-176; main.go:433).
WithinRetention ==
    pc = "idle" =>
        \A p \in Pids : \A s \in QueryHistoryByPid(p) : s.ts > ended - Retention

\* Part of the sample was read of another process than the one it is filed
\* under.
Foreign(s) == s.mixed \/ {s.name, s.cpu, s.base} \ {Nobody, s.ct} # {}

\* A process whose create time could be read when its handle was opened is
\* mixed up with another one in at most one sample: a pid reused between
\* liveProcess's check and any of the reads is noticed by the next check
\* (main.go:412-429).
ForeignAtMostOnce ==
    \A s, t \in processes :
        (/\ s.pinned /\ t.pinned /\ Foreign(s) /\ Foreign(t)
         /\ s.pid = t.pid /\ s.ct = t.ct) => s = t

\* A CPU percentage taken through such a handle is measured against the
\* process's own earlier times: neither the evicted handle nor a process that
\* took the pid over in the middle of the reads leaves a baseline behind
\* (main.go:412-429, 466).
OwnBaseline == \A s \in processes : s.pinned => s.base \in {Nobody, s.ct}

\* "Without this, the newcomer inherits the old process's CPU Percent baseline
\* and cached create time" (main.go:414-415): with liveProcess's check a
\* percentage computed from a process's times is never measured against those
\* of the process that held the pid before.
NewcomerInheritsNothing ==
    \A s \in processes : (s.ctRead /\ s.cpu = s.ct) => s.base \in {Nobody, s.ct}

-----------------------------------------------------------------------------
(* Refinement: what readers of GetActiveProcesses see *)

\* Timestamp of what is published for p, 0 for nothing.
Published(p) ==
    LET samples == Timeline(p, activeKeys[p])
        last == {s \in samples : IsLast(s, samples)}
    IN  IF last = {} THEN 0 ELSE (CHOOSE s \in last : TRUE).ts

AS == INSTANCE ActiveSeries WITH
        stamp <- scrapeNow,
        series <- [p \in Pids |-> Published(p)]

\* The scraper and the store implement the promise of ActiveSeries: a pid's
\* published sample is only replaced by one of the current scrape, and never
\* reappears once withdrawn (main.go:441-547, history.go:56-100).
ImplementsActiveSeries == AS!SeriesSpec

\* Samples are history: a step keeps a sample, drops it, or marks it inactive;
\* it never revives or rewrites one, and adds at most one, of this scrape.
HistoryIsAppendOnly ==
    [][ /\ \A s \in processes' \ processes :
             \/ s.ts = scrapeNow /\ s.active
             \/ ~s.active /\ [s EXCEPT !.active = TRUE] \in processes
        /\ \A s, t \in processes' \ processes : (s.active /\ t.active) => s = t ]_vars
=============================================================================
