---------------------------- MODULE SelfIOProofs ----------------------------
(***************************************************************************)
(* For every number of threads and every interleaving of their I/O, starts *)
(* and exits with a walk: ErrNoLiveTask means that the process is gone,    *)
(* and a walk that returns a sum has read every listed thread that is      *)
(* still there, at a value between the listing and now, so that the sum    *)
(* lies between what those threads had done at the listing and what all    *)
(* listed threads have done by now.                                        *)
(***************************************************************************)
EXTENDS SelfIO, FoldTheorems

\* The leader's task is the last to go; while a walk is under way the leader
\* is still to be visited, open or read, or the process is gone.
LeaderInv ==
    /\ Leader \notin live => live = {}
    /\ result = "ErrNoLiveTask" => live = {}
    /\ pc = "walk" => \/ Leader \in entries \union {open} \union DOMAIN got
                      \/ live = {}

USE DEF Publish, Refuse, IsLive, Add, Empty

\* The invariant holds of a process with one thread and no walk.
LEMMA LeaderInit == Init => LeaderInv
BY LeaderAssumption DEF Init, LeaderInv

\* Every step of the kernel and of the walk preserves the invariant.
LEMMA LeaderNext == LeaderInv /\ [Next]_vars => LeaderInv'
<1> SUFFICES ASSUME LeaderInv, [Next]_vars PROVE LeaderInv'
    OBVIOUS
<1> USE LeaderAssumption DEF LeaderInv
<1>1. ASSUME NEW t \in Threads, Clone(t) PROVE LeaderInv'
    BY <1>1 DEF Clone, walk
<1>2. ASSUME NEW t \in Threads, DoIO(t) PROVE LeaderInv'
    BY <1>2 DEF DoIO, walk
<1>3. ASSUME NEW t \in Threads, ThreadExit(t) PROVE LeaderInv'
    BY <1>3 DEF ThreadExit, walk
<1>4. CASE ReadDir
    BY <1>4 DEF ReadDir, kernel
<1>5. CASE ReadDirFails
    BY <1>5 DEF ReadDirFails, kernel
<1>6. ASSUME NEW t \in Threads, Open(t) PROVE LeaderInv'
    BY <1>6 DEF Open, kernel
<1>7. ASSUME NEW t \in Threads, OpenGone(t) PROVE LeaderInv'
    BY <1>7 DEF OpenGone, kernel
<1>8. ASSUME NEW t \in Threads, IOFails(t) PROVE LeaderInv'
    BY <1>8 DEF IOFails, kernel
<1>9. CASE ReadGone
    BY <1>9 DEF ReadGone, kernel
<1>10. CASE Read
    <2>1. DOMAIN got' = DOMAIN got \union {open}
        BY <1>10 DEF Read
    <2> QED
        BY <1>10, <2>1 DEF Read, kernel
<1>11. CASE Return
    BY <1>11 DEF Return, kernel
<1>12. CASE UNCHANGED vars
    BY <1>12 DEF vars, kernel, walk
<1> QED
    BY <1>1, <1>2, <1>3, <1>4, <1>5, <1>6, <1>7, <1>8, <1>9, <1>10, <1>11, <1>12 DEF Next

\* SelfIO returns ErrNoLiveTask only for a process that has no thread left,
\* also when threads start while the listed ones exit (procio_linux.go:42-60).
THEOREM NoLiveTask == Spec => []NoLiveTaskMeansGone
<1>1. LeaderInv => NoLiveTaskMeansGone
    BY DEF LeaderInv, NoLiveTaskMeansGone
<1> QED
    BY LeaderInit, LeaderNext, <1>1, PTL DEF Spec

-----------------------------------------------------------------------------
\* A walk under way, or one whose sum was published.
Counting == pc = "walk" \/ (pc = "idle" /\ result = "ok")

\* What has been read of a thread lies between its account at the listing and
\* its account now.
ReadsBracketed ==
    \A t \in DOMAIN got : /\ t \in listed /\ got[t] \in Nat
                          /\ before[t] <= got[t] /\ got[t] <= done[t]

\* No listed thread that is still there is passed over.
NoneSkipped == listed \intersect live \subseteq entries \union {open} \union DOMAIN got

WalkInv ==
    /\ done \in [Threads -> Nat] /\ before \in [Threads -> Nat]
    /\ \A t \in Threads : before[t] <= done[t]
    /\ IsFiniteSet(born)
    /\ listed \subseteq born /\ live \subseteq born /\ born \subseteq Threads
    /\ entries \subseteq listed /\ open \in listed \union {None}
    /\ pc = "walk" \/ (pc = "idle" /\ entries = {} /\ open = None)
    /\ Counting => ReadsBracketed /\ NoneSkipped
    /\ pc = "idle" /\ result = "ok" => published = Total(got, DOMAIN got)

\* A sum that is published is that of the values read, one for every listed
\* thread that is still there, each between the thread's account when the walk
\* began and its account now.
SumIsComplete ==
    pc = "idle" /\ result = "ok" =>
        /\ published = Total(got, DOMAIN got)
        /\ listed \intersect live \subseteq DOMAIN got
        /\ \A t \in DOMAIN got : t \in listed /\ before[t] <= got[t] /\ got[t] <= done[t]

\* The invariant holds before the first walk.
LEMMA WalkInit == Init => WalkInv
<1>1. IsFiniteSet({Leader})
    BY FS_Singleton
<1> QED
    BY <1>1, LeaderAssumption DEF Init, WalkInv, Counting

\* Every step preserves it: accounts only grow, an id is not reused, and a
\* listed thread leaves the walk only by being read or by being gone.
LEMMA WalkNext == WalkInv /\ [Next]_vars => WalkInv'
<1> SUFFICES ASSUME WalkInv, [Next]_vars PROVE WalkInv'
    OBVIOUS
<1> USE LeaderAssumption, BoundAssumption DEF WalkInv, Counting, ReadsBracketed, NoneSkipped
<1>1. ASSUME NEW t \in Threads, Clone(t) PROVE WalkInv'
    <2>1. IsFiniteSet(born')
        BY <1>1, FS_AddElement DEF Clone
    <2> QED
        BY <1>1, <2>1 DEF Clone, walk, ghosts
<1>2. ASSUME NEW t \in Threads, DoIO(t) PROVE WalkInv'
    BY <1>2 DEF DoIO, walk, ghosts
<1>3. ASSUME NEW t \in Threads, ThreadExit(t) PROVE WalkInv'
    BY <1>3 DEF ThreadExit, walk, ghosts
<1>4. CASE ReadDir
    BY <1>4 DEF ReadDir, kernel
<1>5. CASE ReadDirFails
    BY <1>5 DEF ReadDirFails, kernel
<1>6. ASSUME NEW t \in Threads, Open(t) PROVE WalkInv'
    BY <1>6 DEF Open, kernel, ghosts
<1>7. ASSUME NEW t \in Threads, OpenGone(t) PROVE WalkInv'
    BY <1>7 DEF OpenGone, kernel, ghosts
<1>8. ASSUME NEW t \in Threads, IOFails(t) PROVE WalkInv'
    BY <1>8 DEF IOFails, kernel
<1>9. CASE ReadGone
    BY <1>9 DEF ReadGone, kernel, ghosts
<1>10. CASE Read
    <2>1. /\ DOMAIN got' = DOMAIN got \union {open}
          /\ \A u \in DOMAIN got' : got'[u] = IF u = open THEN done[open] ELSE got[u]
        BY <1>10 DEF Read
    <2> QED
        BY <1>10, <2>1 DEF Read, kernel, ghosts
<1>11. CASE Return
    BY <1>11 DEF Return, kernel, ghosts
<1>12. CASE UNCHANGED vars
    BY <1>12 DEF vars, kernel, walk, ghosts
<1> QED
    BY <1>1, <1>2, <1>3, <1>4, <1>5, <1>6, <1>7, <1>8, <1>9, <1>10, <1>11, <1>12 DEF Next

\* The sum scrape publishes is never that of an arbitrary subset of the threads
\* (procio_linux.go:46-48).
THEOREM SumComplete == Spec => []SumIsComplete
<1>1. WalkInv => SumIsComplete
    BY LeaderAssumption DEF WalkInv, Counting, ReadsBracketed, NoneSkipped, SumIsComplete
<1> QED
    BY WalkInit, WalkNext, <1>1, PTL DEF Spec

\* The published sum is at least what every listed thread that is still there
\* had done when the walk began, and at most what the listed threads have done
\* by now: the counter scrape publishes can only go down when a thread exits or
\* a walk fails (procio_linux.go:46-48, main.go:498-501).
THEOREM SumBracketed == Spec => []SumIsBracketed
<1>1. WalkInv => SumIsBracketed
    <2> SUFFICES ASSUME WalkInv, result = "ok", pc = "idle"
                 PROVE  /\ published >= Total(before, listed \intersect live)
                        /\ published <= Total(done, listed)
        BY DEF SumIsBracketed
    <2> DEFINE D == DOMAIN got
               L == listed \intersect live
    <2>1. published = SumOver(got, D)
        BY DEF WalkInv, Total, SumOver
    <2>2. /\ D \in SUBSET listed /\ listed \in SUBSET Threads
          /\ \A t \in D : got[t] \in Nat /\ before[t] <= got[t] /\ got[t] <= done[t]
        BY DEF WalkInv, Counting, ReadsBracketed
    <2>3. L \in SUBSET D
        BY LeaderAssumption DEF WalkInv, Counting, NoneSkipped
    <2>4. IsFiniteSet(listed) /\ IsFiniteSet(D)
        BY <2>2, FS_Subset DEF WalkInv
    <2>5. \A t \in Threads : done[t] \in Nat /\ before[t] \in Nat
        BY DEF WalkInv
    <2>6. IntValued(before, L) /\ IntValued(got, D) /\ IntValued(done, listed)
        BY <2>2, <2>5 DEF IntValued
    <2> HIDE DEF D, L
    <2>7. SumOver(before, L) <= SumOver(got, D)
        <3>1. (\A t \in D : 0 <= got[t]) /\ (\A t \in L : before[t] <= got[t])
            BY <2>2, <2>3
        <3> QED
            BY <2>3, <2>4, <2>6, <3>1, SumMonotone
    <2>8. SumOver(got, D) <= SumOver(done, listed)
        <3>1. (\A t \in listed : 0 <= done[t]) /\ (\A t \in D : got[t] <= done[t])
            BY <2>2, <2>5
        <3> QED
            BY <2>2, <2>4, <2>6, <3>1, SumMonotone
    <2>9. SumOver(got, D) \in Int
        BY <2>4, <2>6, SumPick
    <2>10. SumOver(before, L) = Total(before, L) /\ SumOver(done, listed) = Total(done, listed)
        BY DEF SumOver, Total
    <2>11. SumOver(before, L) \in Int
        <3>1. IsFiniteSet(L)
            BY <2>3, <2>4, FS_Subset
        <3> QED
            BY <3>1, <2>6, SumPick
    <2> QED
        BY <2>1, <2>7, <2>8, <2>9, <2>10, <2>11 DEF L
<1> QED
    BY WalkInit, WalkNext, <1>1, PTL DEF Spec
=============================================================================
