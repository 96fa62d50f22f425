------------------------------- MODULE SelfIO -------------------------------
(* Per-thread I/O accounting: SelfIO (exporter/procio_linux.go) sums the io   *)
(* files of a process's threads while those threads do I/O, start and exit,   *)
(* and scrape (main.go:498-501) publishes the sum, or zero when it failed, as *)
(* the self-io counters of the process. The four counters of IOStats are read *)
(* from the same file and added alike, so one stands for all.                 *)
EXTENDS Naturals, FiniteSets, FiniteSetsExt

CONSTANTS
    Threads,  \* thread ids of the process; an id is not reused
    Leader,   \* the thread whose id is the pid
    MaxIO,    \* bound: bytes one thread does
    MaxWalks, \* bound: scrapes of the process
    None      \* no file is open

ASSUME LeaderAssumption == Leader \in Threads /\ None \notin Threads
ASSUME BoundAssumption == MaxIO \in Nat /\ MaxWalks \in Nat

VARIABLES
    born,      \* threads started so far
    live,      \* threads the kernel still has a task for
    done,      \* done[t]: the kernel's account of thread t
    pc,        \* where the walk of /proc/<pid>/task is
    entries,   \* listed threads still to be visited
    open,      \* the thread whose io file is open
    got,       \* got[t]: what was read of t in this walk, for t \in DOMAIN got
    result,    \* outcome of the last walk
    published, \* the value of the last sample
    walks,     \* number of walks begun
    listed,    \* threads the walk in progress, or the last one, listed
    before,    \* done at the moment of that listing
    denied     \* whether that walk met an error that is not a thread's exit

kernel == <<born, live, done>>
walk == <<pc, entries, open, got, result, published>>
ghosts == <<walks, listed, before, denied>>
vars == <<kernel, walk, ghosts>>

Empty == [t \in {} |-> 0]

Total(f, S) == MapThenSumSet(LAMBDA t : f[t], S)

Init ==
    /\ born = {Leader} /\ live = {Leader}
    /\ done = [t \in Threads |-> 0]
    /\ pc = "idle" /\ entries = {} /\ open = None /\ got = Empty
    /\ result = "none" /\ published = 0
    /\ walks = 0 /\ listed = {} /\ before = done /\ denied = FALSE

(***************************************************************************)
(* The kernel's side: the task of the leader outlives the other threads.   *)
(***************************************************************************)
Clone(t) ==
    /\ live # {} /\ t \notin born
    /\ born' = born \union {t} /\ live' = live \union {t}
    /\ UNCHANGED <<done, walk, ghosts>>

DoIO(t) ==
    /\ t \in live /\ done[t] < MaxIO
    /\ done' = [done EXCEPT ![t] = @ + 1]
    /\ UNCHANGED <<born, live, walk, ghosts>>

ThreadExit(t) ==
    /\ t \in live /\ (t = Leader => live = {Leader})
    /\ live' = live \ {t}
    /\ UNCHANGED <<born, done, walk, ghosts>>

(***************************************************************************)
(* SelfIO                                                                  *)
(***************************************************************************)
Publish(r, v) ==
    /\ pc' = "idle" /\ entries' = {} /\ open' = None
    /\ result' = r /\ published' = v

\* os.ReadDir of the task directory: all threads of this moment.
ReadDir ==
    /\ pc = "idle" /\ walks < MaxWalks /\ live # {}
    /\ pc' = "walk" /\ entries' = live /\ got' = Empty
    /\ walks' = walks + 1
    /\ listed' = live /\ before' = done /\ denied' = FALSE
    /\ UNCHANGED <<kernel, open, result, published>>

\* The directory is gone with the process, or may not be read.
ReadDirFails ==
    /\ pc = "idle" /\ walks < MaxWalks
    /\ Publish("failed", 0)
    /\ walks' = walks + 1
    /\ listed' = live /\ before' = done /\ denied' = (live # {})
    /\ UNCHANGED <<kernel, got>>

\* os.Open of one io file. The names are sorted as text, which is any order
\* of the threads' ages.
Open(t) ==
    /\ pc = "walk" /\ open = None /\ t \in entries /\ t \in live
    /\ open' = t /\ entries' = entries \ {t}
    /\ UNCHANGED <<kernel, pc, got, result, published, ghosts>>

\* ENOENT, the only error that is skipped.
OpenGone(t) ==
    /\ pc = "walk" /\ open = None /\ t \in entries /\ t \notin live
    /\ entries' = entries \ {t}
    /\ UNCHANGED <<kernel, pc, open, got, result, published, ghosts>>

\* Any error would be skipped, not only a missing file.
Refuse_Skips(t) ==
    /\ entries' = entries \ {t} /\ open' = None
    /\ UNCHANGED <<pc, got, result, published>>

\* An error that is not os.ErrNotExist ends the walk.
Refuse(t) == Publish("failed", 0) /\ UNCHANGED got

\* EACCES from the open or from the read, a counter that does not parse, a
\* line too long for the scanner.
IOFails(t) ==
    /\ pc = "walk" /\ t \in live /\ (open = t \/ (open = None /\ t \in entries))
    /\ Refuse(t)
    /\ denied' = TRUE
    /\ UNCHANGED <<kernel, walks, listed, before>>

\* The file was opened and its thread exits before the read: the kernel
\* answers ESRCH, which is not os.ErrNotExist.
ReadGone ==
    /\ open # None /\ open \notin live
    /\ Refuse(open)
    /\ UNCHANGED <<kernel, ghosts>>

\* total.add(st)
Add(t) ==
    [u \in DOMAIN got \union {t} |-> IF u = t THEN done[t] ELSE got[u]]

Read ==
    /\ open # None /\ open \in live
    /\ got' = Add(open)
    /\ open' = None
    /\ UNCHANGED <<kernel, pc, entries, result, published, ghosts>>

\* A process that did no I/O would count as gone.
IsLive_Busy == Total(got, DOMAIN got) > 0

\* live: some thread was read.
IsLive == DOMAIN got # {}

Return ==
    /\ pc = "walk" /\ open = None /\ entries = {}
    /\ IF IsLive THEN Publish("ok", Total(got, DOMAIN got))
                 ELSE Publish("ErrNoLiveTask", 0)
    /\ UNCHANGED <<kernel, got, ghosts>>

Next ==
    \/ \E t \in Threads : Clone(t) \/ DoIO(t) \/ ThreadExit(t)
    \/ ReadDir \/ ReadDirFails
    \/ \E t \in Threads : Open(t) \/ OpenGone(t) \/ IOFails(t)
    \/ ReadGone \/ Read \/ Return

Spec == Init /\ [][Next]_vars

-----------------------------------------------------------------------------
\* A sum that is returned is never that of an arbitrary subset of the threads
\* (procio_linux.go:46-48): it holds at least what every listed thread that is
\* still there had done when the walk began, and at most what the listed
\* threads have done by now. So the published counter can only go down when a
\* thread exits or a walk fails.
SumIsBracketed ==
    result = "ok" /\ pc = "idle" =>
        /\ published >= Total(before, listed \intersect live)
        /\ published <= Total(done, listed)

\* ErrNoLiveTask is returned only for a process that is gone
\* (procio.go:7-9): threads that start during the walk cannot hide it.
NoLiveTaskMeansGone == result = "ErrNoLiveTask" => live = {}

\* A thread that exits mid-walk is expected (procio_linux.go:46): as long as
\* nothing else goes wrong and the process is there, the walk gives a sum.
ExitIsTolerated == result = "failed" /\ pc = "idle" /\ ~denied => live = {}
=============================================================================
