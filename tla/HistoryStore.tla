---------------------------- MODULE HistoryStore ----------------------------
(***************************************************************************)
(* exporter/history.go: the in-memory history of process samples.          *)
(*                                                                         *)
(* The Go store keeps a map from the key "pid-createtime" to a slice of    *)
(* samples, and a map from a pid to its current key.  Every sample is      *)
(* filed under the key made of its own PID and CreateTime, and a timeline  *)
(* that becomes empty is deleted, so the first map is the set of samples   *)
(* it holds: Timeline recovers a slice, whose order is the order of the    *)
(* Timestamps.  activeKeys[p] is the create-time half of the key string of *)
(* pid p, or NoKey when the map has no entry for p.                        *)
(*                                                                         *)
(* Each method holds hs.mu for its whole body, so each is one step.        *)
(***************************************************************************)
EXTENDS Integers

CONSTANTS
    Pids,       \* process ids the kernel hands out
    Retention   \* the 10 minutes of history, in clock units

ASSUME RetentionAssumption == Retention \in Nat

VARIABLES
    now,        \* time.Now()
    processes,  \* all samples of hs.processes
    activeKeys  \* hs.activeKeys

storeVars == <<processes, activeKeys>>

NoKey == 0

(***************************************************************************)
(* A process is identified by its birth, the kernel's start time.  Nobody  *)
(* stands for data that could not be read (the Go zero value).  name and   *)
(* cpu say whose data the sample carries: the process that held the pid    *)
(* when its name, and when the CPU times of its percentage, were read.     *)
(* base is the process whose CPU times the percentage is measured against  *)
(* (Nobody: none yet).  mixed tells that one of the other parts was read   *)
(* of a process that was not born at ct.  ctRead tells a CreateTime that   *)
(* was read from the fallback value.  pinned is history, see module        *)
(* Scraper.                                                                *)
(***************************************************************************)
Nobody == 0

ProcessSample ==
    [ts : Nat, pid : Pids, ct : Nat \ {NoKey}, ctRead : BOOLEAN, pinned : BOOLEAN,
     name : Nat, cpu : Nat, base : Nat, mixed : BOOLEAN, active : BOOLEAN]

HistoryTypeOK ==
    /\ now \in Nat
    /\ processes \subseteq ProcessSample
    /\ activeKeys \in [Pids -> Nat]

NewHistoryStore ==
    /\ processes = {}
    /\ activeKeys = [p \in Pids |-> NoKey]

Timeline(p, ct) == {s \in processes : s.pid = p /\ s.ct = ct}

\* Mutation: the first element is taken for the last.
IsLast_First(s, samples) == s \in samples /\ \A u \in samples : u.ts >= s.ts

\* s is the last element of the slice samples
IsLast(s, samples) == s \in samples /\ \A u \in samples : u.ts <= s.ts

-----------------------------------------------------------------------------
Fresh(s) == s.ts > now - Retention

\* Mutation: the whole store is pruned, but only of inactive samples.
pruneAll_KeepsActive(samples) == {s \in samples : Fresh(s) \/ s.active}

pruneExpiredSamples(samples, p, ct) ==
    {s \in samples : (s.pid = p /\ s.ct = ct) => Fresh(s)}

pruneAll(samples) == {s \in samples : Fresh(s)}

\* Mutation: the pid keeps the key it already has.
AddSample_KeepsKey(sample) ==
    /\ processes' = pruneExpiredSamples(processes \union {sample}, sample.pid, sample.ct)
    /\ activeKeys' = [activeKeys EXCEPT ![sample.pid] = IF @ = NoKey THEN sample.ct ELSE @]

AddSample(sample) ==
    /\ processes' = pruneExpiredSamples(processes \union {sample}, sample.pid, sample.ct)
    /\ activeKeys' = [activeKeys EXCEPT ![sample.pid] = sample.ct]

\* The last sample of an exited process is rewritten with IsActive = false.
Flip(s, activePids) ==
    IF /\ s.pid \notin activePids
       /\ s.ct = activeKeys[s.pid]
       /\ IsLast(s, Timeline(s.pid, s.ct))
    THEN [s EXCEPT !.active = FALSE]
    ELSE s

\* Mutation: the key of an exited process is dropped, its sample stays active.
MarkInactive_OnlyKeys(activePids) ==
    /\ processes' = pruneAll(processes)
    /\ activeKeys' = [p \in Pids |-> IF p \in activePids THEN activeKeys[p] ELSE NoKey]

MarkInactive(activePids) ==
    /\ processes' = pruneAll({Flip(s, activePids) : s \in processes})
    /\ activeKeys' = [p \in Pids |-> IF p \in activePids THEN activeKeys[p] ELSE NoKey]

\* The last sample of every active key; a key whose timeline was pruned away
\* contributes nothing.
GetActiveProcesses ==
    {s \in processes : activeKeys[s.pid] = s.ct /\ IsLast(s, Timeline(s.pid, s.ct))}

\* QueryHistory("pid", p), as the set of the samples of all timelines returned.
QueryHistoryByPid(p) == {s \in processes : s.pid = p}

\* QueryHistory("name", v): whole timelines whose last sample's Name contains
\* v ignoring case.  matching is the set of processes with such a name.
QueryHistoryByName(matching) ==
    {s \in processes : \E u \in processes : /\ IsLast(u, Timeline(s.pid, s.ct))
                                            /\ u.name \in matching}
=============================================================================
