---------------------------- MODULE GatherProofs ----------------------------
(***************************************************************************)
(* Overlapping scrapes of /metrics, for any sets of samples, any answers   *)
(* of the kubelet and any number of scrapes: the series of one scrape are  *)
(* distinct, no known job is missing, the requests are those of the job's  *)
(* own pod in one answer, and no cut is lost from the counter.             *)
(***************************************************************************)
EXTENDS Gather, FoldTheorems

-----------------------------------------------------------------------------
(* parsePodList *)

\* The quantities of an answer that passes parsePodListOK are numbers.
LEMMA QuantityTypes ==
    ASSUME NEW q, q.num \in Int
    PROVE  /\ ParseCPUOK(q) => ParseCPUQuantity(q) \in Int
           /\ ParseMemoryOK(q) => ParseMemoryQuantity(q) \in Int
<1>1. ParseCPUOK(q) => ParseCPUQuantity(q) \in Int
    BY DEF ParseCPUOK, ParseCPUQuantity
<1>2. \A x \in DOMAIN memSuffixes : memSuffixes[x][1] ^ memSuffixes[x][2] \in Int
    BY DEF memSuffixes
<1>3. ParseMemoryOK(q) => ParseMemoryQuantity(q) \in Int
    BY <1>2 DEF ParseMemoryOK, ParseMemoryQuantity
<1> QED
    BY <1>1, <1>3
Container(c) ==
    /\ c.cpu.num \in Int /\ c.memory.num \in Int
    /\ ParseCPUOK(c.cpu) /\ ParseMemoryOK(c.memory)

\* The loop over the containers of a pod adds up their requests.
LEMMA PodTotal ==
    ASSUME NEW item, NEW n \in Nat, DOMAIN item.containers = 1..n,
           \A i \in 1..n : Container(item.containers[i])
    PROVE  FoldLeft(AddContainer, KubePodInfo(item.uid, 0, 0), item.containers) = TotalRequest(item)
<1> DEFINE cs == item.containers
           D == DOMAIN cs
           base == KubePodInfo(item.uid, 0, 0)
           cpu == [c \in D |-> ParseCPUQuantity(cs[c].cpu)]
           mem == [c \in D |-> ParseMemoryQuantity(cs[c].memory)]
           Eqn(g) == g = [s \in SUBSET D |->
               IF s = {} THEN base ELSE AddContainer(g[s \ {Max(s)}], cs[Max(s)])]
           iter == CHOOSE g : Eqn(g)
<1>1. FoldLeft(AddContainer, base, cs) = iter[D]
    BY DEF FoldLeft, MapThenFoldSet
<1>2. \A i \in 1..n : cpu[i] \in Int /\ mem[i] \in Int
    BY QuantityTypes DEF Container
<1>3. \E g : Eqn(g)
    <2> DEFINE V == [UID : {item.uid}, CPURequest : Int, MemRequest : Int]
               c == [s \in SUBSET D |-> Max(s)]
               step == [i \in D |-> [v \in V |-> AddContainer(v, cs[i])]]
    <2>1. IsFiniteSet(D)
        BY FiniteIndices
    <2>2. base \in V
        BY DEF KubePodInfo
    <2>3. Chooses(c, D)
        BY MaxOfIndices DEF Chooses
    <2>4. StepsIn(step, D, V)
        BY <1>2 DEF StepsIn, AddContainer, KubePodInfo
    <2>5. PICK g \in [SUBSET D -> V] : IsFold(g, D, base, c, step)
        <3> HIDE DEF V, c, step, base, D
        <3> QED
            BY <2>1, <2>2, <2>3, <2>4, FoldExists
    <2>6. ASSUME NEW s \in SUBSET D, s # {}
          PROVE  step[c[s]][g[s \ {c[s]}]] = AddContainer(g[s \ {Max(s)}], cs[Max(s)])
        <3>1. Max(s) \in D
            BY <2>6, MaxOfIndices
        <3>2. c[s] = Max(s)
            OBVIOUS
        <3>3. g[s \ {Max(s)}] \in V
            BY <2>5
        <3> HIDE DEF V, c
        <3> QED
            BY <3>1, <3>2, <3>3
    <2> HIDE DEF step, c, base, D
    <2>7. Eqn(g)
        BY <2>5, <2>6 DEF IsFold
    <2> QED
        BY <2>7
<1>4. Eqn(iter)
    BY <1>3, Zenon
<1> HIDE DEF iter
<1>5. iter[{}] = base
    BY <1>4
<1>6. ASSUME NEW k \in 1..n
      PROVE  iter[1..k] = AddContainer(iter[1..(k - 1)], cs[k])
    <2>1. 1..k \in SUBSET D /\ 1..k # {}
        OBVIOUS
    <2>2. iter[1..k] = AddContainer(iter[(1..k) \ {Max(1..k)}], cs[Max(1..k)])
        BY <2>1, <1>4
    <2>3. Max(1..k) = k /\ (1..k) \ {k} = 1..(k - 1)
        BY MaxOfPrefix
    <2> QED
        BY <2>2, <2>3
<1> DEFINE Q == {k \in Nat : k <= n =>
                     iter[1..k] = KubePodInfo(item.uid, SumOver(cpu, 1..k), SumOver(mem, 1..k))}
<1>7. Q = Nat
    <2>1. 0 \in Q
        <3>1. 1..0 = {}
            OBVIOUS
        <3>2. SumOver(cpu, {}) = 0 /\ SumOver(mem, {}) = 0
            BY SumEmpty
        <3> HIDE DEF cpu, mem
        <3> QED
            BY <3>1, <3>2, <1>5
    <2>2. ASSUME NEW k \in Q PROVE k + 1 \in Q
        <3> SUFFICES ASSUME k + 1 <= n
                     PROVE  iter[1..(k + 1)] = KubePodInfo(item.uid, SumOver(cpu, 1..(k + 1)), SumOver(mem, 1..(k + 1)))
            OBVIOUS
        <3> k \in Nat
            OBVIOUS
        <3>1. iter[1..k] = KubePodInfo(item.uid, SumOver(cpu, 1..k), SumOver(mem, 1..k))
            OBVIOUS
        <3>2. iter[1..(k + 1)] = AddContainer(iter[1..k], cs[k + 1])
            <4>1. k + 1 \in 1..n /\ (k + 1) - 1 = k
                OBVIOUS
            <4> QED
                BY <4>1, <1>6
        <3>3. IsFiniteSet(1..(k + 1)) /\ k + 1 \in 1..(k + 1) /\ (1..(k + 1)) \ {k + 1} = 1..k
            BY k + 1 \in Nat, FiniteIndices
        <3>4. IntValued(cpu, 1..(k + 1)) /\ IntValued(mem, 1..(k + 1))
            BY <1>2 DEF IntValued
        <3>5. cpu[k + 1] = ParseCPUQuantity(cs[k + 1].cpu) /\ mem[k + 1] = ParseMemoryQuantity(cs[k + 1].memory)
            OBVIOUS
        <3>6. cpu[k + 1] \in Int /\ mem[k + 1] \in Int
            BY <1>2
        <3> HIDE DEF cpu, mem
        <3>7. SumOver(cpu, 1..(k + 1)) = cpu[k + 1] + SumOver(cpu, 1..k)
            BY <3>3, <3>4, SumRemove
        <3>8. SumOver(mem, 1..(k + 1)) = mem[k + 1] + SumOver(mem, 1..k)
            BY <3>3, <3>4, SumRemove
        <3>9. SumOver(cpu, 1..k) \in Int /\ SumOver(mem, 1..k) \in Int
            <4>1. IsFiniteSet(1..k) /\ IntValued(cpu, 1..k) /\ IntValued(mem, 1..k)
                BY <3>4, FiniteIndices DEF IntValued
            <4> QED
                BY <4>1, SumPick
        <3> QED
            BY <3>1, <3>2, <3>5, <3>6, <3>7, <3>8, <3>9 DEF AddContainer, KubePodInfo
    <2>3. Q \in SUBSET Nat
        OBVIOUS
    <2> HIDE DEF Q
    <2> QED
        BY <2>1, <2>2, <2>3, NatSetInduction
<1>8. iter[1..n] = KubePodInfo(item.uid, SumOver(cpu, 1..n), SumOver(mem, 1..n))
    BY <1>7
<1>9. TotalRequest(item) = KubePodInfo(item.uid, SumOver(cpu, D), SumOver(mem, D))
    BY DEF TotalRequest, SumOver
<1> QED
    BY <1>1, <1>8, <1>9
\* What Replace stores for an answer that parses: one entry for each UID it
\* lists, the total of the last pod listed under it.
LEMMA ParsedAnswer ==
    ASSUME NEW items \in DOMAIN Parsed
    PROVE  /\ DOMAIN Parsed[items] = UIDs(items)
           /\ \A u \in UIDs(items) : Parsed[items][u] = Requests[items][u]
<1>1. items \in Answers /\ parsePodListOK(items) /\ IsPodList(items)
    BY AnswersAssumption DEF Parsed
<1>2. PICK n \in Nat : DOMAIN items = 1..n
    BY <1>1 DEF IsPodList
<1> DEFINE pods == parsePodList(items)
<1>3. ASSUME NEW i \in 1..n PROVE pods[i] = TotalRequest(items[i])
    <2> DEFINE cs == items[i].containers
    <2>1. PICK m \in Nat : DOMAIN cs = 1..m
        BY <1>1, <1>2 DEF IsPodList
    <2>2. \A c \in 1..m : Container(cs[c])
        BY <1>1, <1>2, <2>1 DEF IsPodList, parsePodListOK, Container
    <2>3. FoldLeft(AddContainer, KubePodInfo(items[i].uid, 0, 0), cs) = TotalRequest(items[i])
        BY <2>1, <2>2, PodTotal
    <2> QED
        BY <1>2, <2>3 DEF parsePodList
<1>4. DOMAIN pods = 1..n
    BY <1>2 DEF parsePodList
<1>5. \A i \in 1..n : pods[i].UID = items[i].uid
    <2>1. ASSUME NEW item PROVE TotalRequest(item).UID = item.uid
        <3> DEFINE cpu == [c \in DOMAIN item.containers |-> ParseCPUQuantity(item.containers[c].cpu)]
                   mem == [c \in DOMAIN item.containers |-> ParseMemoryQuantity(item.containers[c].memory)]
        <3>1. TotalRequest(item) = KubePodInfo(item.uid, SumOver(cpu, DOMAIN item.containers),
                                               SumOver(mem, DOMAIN item.containers))
            BY DEF TotalRequest, SumOver
        <3> QED
            BY <3>1 DEF KubePodInfo
    <2> QED
        BY <1>3, <2>1
<1>6. Parsed[items] = Snapshot(pods)
    BY DEF Parsed
<1>7. DOMAIN Snapshot(pods) = {pods[i].UID : i \in 1..n}
    BY <1>4 DEF Snapshot
<1>8. DOMAIN Parsed[items] = UIDs(items)
    BY <1>2, <1>5, <1>6, <1>7 DEF UIDs
<1>9. ASSUME NEW u \in UIDs(items) PROVE Parsed[items][u] = Requests[items][u]
    <2> DEFINE same == {i \in 1..n : items[i].uid = u}
    <2>1. same # {} /\ same \in SUBSET (1..n)
        BY <1>2 DEF UIDs
    <2>2. Max(same) \in 1..n
        BY <2>1, MaxOfIndices
    <2>3. same = {i \in DOMAIN pods : pods[i].UID = u} /\ same = {i \in DOMAIN items : items[i].uid = u}
        BY <1>2, <1>4, <1>5
    <2>4. Snapshot(pods)[u] = pods[Max(same)]
        BY <1>4, <1>6, <1>8, <2>3 DEF Snapshot
    <2>5. Requests[items] = [v \in UIDs(items) |-> TotalRequest(items[Max({i \in DOMAIN items : items[i].uid = v})])]
        BY DEF Requests
    <2>6. Requests[items][u] = TotalRequest(items[Max(same)])
        BY <2>3, <2>5
    <2> QED
        BY <1>3, <1>6, <2>2, <2>4, <2>6
<1> QED
    BY <1>8, <1>9

-----------------------------------------------------------------------------
(* The requests of the jobs *)

Stages == {"off", "run", "done"}

\* The store holds what Replace made of the latest answer, and every scrape
\* under way knows that answer.
StoreInv ==
    /\ latest \in DOMAIN Parsed \union {<<>>}
    /\ DOMAIN kube = UIDs(latest)
    /\ \A u \in DOMAIN kube : kube[u] = Requests[latest][u]
    /\ \A g \in Gathers : kubeState[g] = "run" => latest \in answers[g]

\* The entry was taken from an answer of the scrape for the pod of a process of
\* its job.
OwnPod(g, e) ==
    \E s \in wanted[g] :
        /\ s.uid # NoUID /\ Label(s.job) = e.label
        /\ \E a \in answers[g] : s.uid \in UIDs(a) /\ e.info = Requests[a][s.uid]

\* The entries of byJob: kept by their label, one for each.
EntriesInv ==
    \A g \in Gathers :
        /\ kubeState[g] = "off" => byJob[g] = {}
        /\ kubeTodo[g] \subseteq wanted[g]
        /\ \A e \in byJob[g] : e.key = e.label /\ OwnPod(g, e)
        /\ \A e, f \in byJob[g] : e.key = f.key => e = f

\* A process KubeCollector has visited has an entry, if all answers of the
\* scrape list its pod.
VisitedInv ==
    \A g \in Gathers : kubeState[g] # "off" =>
        /\ kubeState[g] = "done" => kubeTodo[g] = {}
        /\ \A s \in wanted[g] \ kubeTodo[g] :
             (s.uid # NoUID /\ Label(s.job) # NoJob /\ \A a \in answers[g] : s.uid \in UIDs(a))
                 => \E e \in byJob[g] : e.label = Label(s.job)

RequestInv ==
    /\ procState \in [Gathers -> Stages] /\ kubeState \in [Gathers -> Stages]
    /\ DOMAIN kubeTodo = Gathers /\ DOMAIN wanted = Gathers /\ DOMAIN byJob = Gathers
    /\ DOMAIN answers = Gathers
    /\ StoreInv /\ EntriesInv /\ VisitedInv

\* Nothing is known and nothing is exported at first.
LEMMA RequestInit == Init => RequestInv
BY DEF Init, RequestInv, StoreInv, EntriesInv, VisitedInv, Started, Stages, UIDs, Requests, OwnPod

\* An entry stays its pod's while the scrape's processes are the same and its
\* answers only grow.
LEMMA OwnPodStays ==
    ASSUME NEW g \in Gathers, NEW e, OwnPod(g, e), wanted'[g] = wanted[g],
           answers[g] \subseteq answers'[g]
    PROVE  OwnPod(g, e)'
BY DEF OwnPod

\* Every step of the writers and of the collectors preserves the invariant.
LEMMA RequestNext == RequestInv /\ [Next]_vars => RequestInv'
<1> SUFFICES ASSUME RequestInv, [Next]_vars PROVE RequestInv'
    OBVIOUS
<1> USE DEF RequestInv, StoreInv, EntriesInv, VisitedInv, Started, Stages, procVars, kubeVars
<1>1. CASE Scrape
    BY <1>1, OwnPodStays DEF Scrape
<1>2. ASSUME NEW items \in Answers, Replace(items) PROVE RequestInv'
    <2>1. /\ DOMAIN Parsed[items] = UIDs(items)
          /\ \A u \in UIDs(items) : Parsed[items][u] = Requests[items][u]
        BY <1>2, ParsedAnswer DEF Replace
    <2> QED
        BY <1>2, <2>1, OwnPodStays DEF Replace
<1>3. CASE PollFails
    BY <1>3, OwnPodStays DEF PollFails, vars
<1>4. ASSUME NEW g \in Gathers, ProcBegin(g) PROVE RequestInv'
    BY <1>4, OwnPodStays DEF ProcBegin, Begin
<1>5. ASSUME NEW g \in Gathers, ProcEnd(g) PROVE RequestInv'
    BY <1>5, OwnPodStays DEF ProcEnd
<1>6. ASSUME NEW g \in Gathers, KubeBegin(g) PROVE RequestInv'
    BY <1>6, OwnPodStays DEF KubeBegin, Begin
<1>7. ASSUME NEW g \in Gathers, KubeEnd(g) PROVE RequestInv'
    BY <1>7, OwnPodStays DEF KubeEnd
<1>8. ASSUME NEW g \in Gathers, NEW s \in procTodo[g], ProcEmit(g, s) PROVE RequestInv'
    BY <1>8, OwnPodStays DEF ProcEmit
<1>9. ASSUME NEW g \in Gathers, NEW s \in kubeTodo[g], KubeVisit(g, s) PROVE RequestInv'
    <2> DEFINE k == Label(s.job)
               new == [key |-> k, label |-> k, info |-> kube[s.uid]]
               exported == s.uid # NoUID /\ k # NoJob /\ s.uid \in DOMAIN kube
    <2>1. /\ kubeState[g] = "run" /\ kubeTodo' = [kubeTodo EXCEPT ![g] = @ \ {s}]
          /\ UNCHANGED <<kube, procState, kubeState, wanted, latest, answers>>
        BY <1>9 DEF KubeVisit
    <2>2. StoreInv'
        BY <2>1
    <2>3. latest \in answers[g] /\ s \in wanted[g]
        BY <2>1
    <2>4. CASE exported
        <3>1. byJob' = [byJob EXCEPT ![g] = {e \in @ : e.key # k} \union {new}]
            BY <1>9, <2>4 DEF KubeVisit, JobKey
        <3>2. new.key = k /\ new.label = k /\ new.info = Requests[latest][s.uid] /\ s.uid \in UIDs(latest)
            BY <2>4
        <3>5. OwnPod(g, new)
            BY <2>3, <2>4, <3>2 DEF OwnPod
        <3> HIDE DEF new, k
        <3>3. EntriesInv'
            <4>1. \A h \in Gathers : \A e : OwnPod(h, e) => OwnPod(h, e)'
                BY <2>1, OwnPodStays
            <4> QED
                BY <2>1, <3>1, <3>2, <3>5, <4>1
        <3>4. VisitedInv'
            BY <2>1, <3>1, <3>2 DEF k
        <3> QED
            BY <2>1, <2>2, <3>1, <3>3, <3>4
    <2>5. CASE ~exported
        <3>1. byJob' = byJob
            BY <1>9, <2>5 DEF KubeVisit
        <3>2. EntriesInv'
            BY <2>1, <3>1, OwnPodStays
        <3>3. VisitedInv'
            BY <2>1, <2>3, <2>5, <3>1
        <3> QED
            BY <2>1, <2>2, <3>1, <3>2, <3>3
    <2> QED
        BY <2>4, <2>5
<1>10. CASE UNCHANGED vars
    BY <1>10, OwnPodStays DEF vars
<1> QED
    BY <1>1, <1>2, <1>3, <1>4, <1>5, <1>6, <1>7, <1>8, <1>9, <1>10 DEF Next

LEMMA RequestHolds == Spec => []RequestInv
BY RequestInit, RequestNext, PTL DEF Spec

\* However many processes share a job or differ only in bytes that sanitizing
\* replaces, a gather emits one kuber_* metric for each label
\* (kube_collector.go:93, 105-106).
THEOREM OneSeriesPerLabel == Spec => []NoDuplicateSeries
<1>1. RequestInv => NoDuplicateSeries
    BY DEF RequestInv, EntriesInv, NoDuplicateSeries
<1> QED
    BY RequestHolds, <1>1, PTL

\* A job whose pod every answer of the scrape lists is exported, whatever polls
\* fail and however the lookups interleave with Replace (main.go:394-399,
\* kube.go:225-233).
THEOREM KnownExported == Spec => []KnownJobsExported
<1>1. RequestInv => KnownJobsExported
    BY DEF RequestInv, VisitedInv, KnownJobsExported
<1> QED
    BY RequestHolds, <1>1, PTL

\* The requests exported for a job are the totals of the pod of one of its
\* processes in one answer, the newest that parsed before KubeCollector began
\* or one that parsed while it ran, for pods with any number of containers; no
\* bound is shown on the answer's age (kube.go:127-150, 225-241).
THEOREM RequestsOwn == Spec => []RequestsOfOwnPod
<1>1. RequestInv => RequestsOfOwnPod
    BY DEF RequestInv, EntriesInv, OwnPod, RequestsOfOwnPod
<1> QED
    BY RequestHolds, <1>1, PTL

-----------------------------------------------------------------------------
(* The truncation counter *)

\* The counter has counted the cuts of any scrapes, the scrapes that were over
\* when one began stay as they are, and so does what a collector that has
\* ended counted and emitted.
CutsInv ==
    /\ procState \in [Gathers -> Stages] /\ kubeState \in [Gathers -> Stages]
    /\ truncations \in Nat
    /\ procCuts \in [Gathers -> Nat] /\ kubeCuts \in [Gathers -> Nat]
    /\ shown \in [Gathers -> Nat] /\ before \in [Gathers -> SUBSET Gathers]
    /\ IsFiniteSet({g \in Gathers : Started(g)})
    /\ \A S \in SUBSET Gathers : IsFiniteSet(S) => SumOver(Cuts, S) <= truncations
    /\ \A g \in Gathers : /\ IsFiniteSet(before[g]) /\ g \notin before[g]
                          /\ \A h \in before[g] : Over(h)
                          /\ procState[g] = "done" => shown[g] >= procCuts[g] + SumOver(Cuts, before[g])

\* No scrape has begun.
LEMMA CutsInit == Init => CutsInv
<1> SUFFICES ASSUME Init PROVE CutsInv
    OBVIOUS
<1>1. {g \in Gathers : Started(g)} = {}
    BY DEF Init, Started
<1>2. ASSUME NEW S \in SUBSET Gathers, IsFiniteSet(S) PROVE SumOver(Cuts, S) <= truncations
    <2> DEFINE zero == [g \in Gathers |-> 0]
               Q == {s \in SUBSET S : SumOver(zero, s) = 0}
    <2>1. Cuts = zero
        BY DEF Init, Cuts
    <2>2. ASSUME NEW s \in SUBSET S, \A x \in s : s \ {x} \in Q PROVE s \in Q
        <3>1. CASE s = {}
            BY <3>1, SumEmpty
        <3>2. CASE s # {}
            <4>1. PICK x \in s : TRUE
                BY <3>2
            <4>2. IsFiniteSet(s) /\ IntValued(zero, s)
                BY <1>2, FS_Subset DEF IntValued
            <4>3. SumOver(zero, s) = zero[x] + SumOver(zero, s \ {x})
                BY <4>1, <4>2, SumRemove
            <4> QED
                BY <4>1, <4>3, <2>2
        <3> QED
            BY <3>1, <3>2
    <2>3. Inductive(Q, S)
        BY <2>2 DEF Inductive
    <2> HIDE DEF Q
    <2>4. Q = SUBSET S
        BY <1>2, <2>3, SubsetInduction
    <2> QED
        BY <2>1, <2>4 DEF Q, Init
<1> QED
    BY <1>1, <1>2, FS_EmptySet DEF Init, CutsInv, Stages

\* A cut is counted where it is made: one more cut of a scrape, one more on the
\* counter.
LEMMA CutIsCounted ==
    ASSUME CutsInv, NEW g \in Gathers,
           truncations' = truncations + 1,
           Cuts' = [Cuts EXCEPT ![g] = @ + 1],
           NEW S \in SUBSET Gathers, IsFiniteSet(S)
    PROVE  /\ SumOver(Cuts', S) <= truncations'
           /\ g \notin S => SumOver(Cuts', S) = SumOver(Cuts, S)
<1> DEFINE w == Cuts
           v == [Cuts EXCEPT ![g] = @ + 1]
<1>1. w \in [Gathers -> Nat]
    BY DEF CutsInv, Cuts
<1>2. IntValued(w, S) /\ IntValued(v, S)
    BY <1>1 DEF IntValued
<1>3. v[g] = w[g] + 1 /\ \A x \in S : x # g => v[x] = w[x]
    BY <1>1
<1>4. SumOver(w, S) <= truncations
    BY DEF CutsInv
<1>5. SumOver(w, S) \in Int /\ truncations \in Int
    <2>1. SumOver(w, S) \in Int
        BY <1>2, SumPick
    <2> QED
        BY <2>1 DEF CutsInv
<1> HIDE DEF w, v
<1>6. SumOver(v, S) <= SumOver(w, S) + 1
    BY <1>2, <1>3, SumBump
<1>7. SumOver(v, S) \in Int
    BY <1>2, SumPick
<1>8. g \notin S => SumOver(v, S) = SumOver(w, S)
    <2> SUFFICES ASSUME g \notin S PROVE SumOver(w, S) = SumOver(v, S)
        OBVIOUS
    <2>1. \A x \in S : w[x] = v[x]
        BY <1>3
    <2> QED
        BY <1>2, <2>1, SumEqual
<1> QED
    BY <1>4, <1>5, <1>6, <1>7, <1>8 DEF w, v
\* A step that begins a collector of g, or ends KubeCollector, and cuts nothing.
LEMMA CutsStage ==
    ASSUME CutsInv, NEW g \in Gathers,
           procState' \in [Gathers -> Stages], kubeState' \in [Gathers -> Stages],
           \A h \in Gathers : h # g => procState'[h] = procState[h] /\ kubeState'[h] = kubeState[h],
           Over(g) => Over(g)', procState'[g] = "done" => procState[g] = "done",
           UNCHANGED <<truncations, procCuts, kubeCuts, shown>>,
           \/ Started(g) /\ UNCHANGED before
           \/ ~Started(g) /\ before' = [before EXCEPT ![g] = {h \in Gathers : Over(h)}]
    PROVE  CutsInv'
<1> USE DEF CutsInv
<1>1. Cuts' = Cuts
    BY DEF Cuts
<1>2. IsFiniteSet({h \in Gathers : Started(h)}')
    <2> DEFINE A == {h \in Gathers : Started(h)}
    <2>1. {h \in Gathers : Started(h)}' \in SUBSET (A \union {g})
        BY DEF Started
    <2>2. IsFiniteSet(A \union {g})
        BY FS_AddElement
    <2> HIDE DEF A
    <2> QED
        BY <2>1, <2>2, FS_Subset
<1>3. \A h \in Gathers : Over(h) => Over(h)'
    BY DEF Over
<1>4. CASE Started(g) /\ UNCHANGED before
    BY <1>1, <1>2, <1>3, <1>4
<1>5. CASE ~Started(g) /\ before' = [before EXCEPT ![g] = {h \in Gathers : Over(h)}]
    <2> DEFINE O == {h \in Gathers : Over(h)}
    <2>1. O \in SUBSET {h \in Gathers : Started(h)} /\ g \notin O
        BY <1>5 DEF Over, Started
    <2>2. IsFiniteSet(O)
        BY <2>1, FS_Subset
    <2>3. procState'[g] # "done"
        BY <1>5 DEF Started
    <2>4. \A h \in Gathers : before'[h] = IF h = g THEN O ELSE before[h]
        BY <1>5
    <2>5. before' \in [Gathers -> SUBSET Gathers]
        BY <1>5
    <2> QED
        BY <1>1, <1>2, <1>3, <2>1, <2>2, <2>3, <2>4, <2>5
<1> QED
    BY <1>4, <1>5

\* A step that cuts one label value of g.
LEMMA CutsCut ==
    ASSUME CutsInv, NEW g \in Gathers, ~Over(g),
           truncations' = truncations + 1,
           \/ /\ procState[g] = "run"
              /\ procCuts' = [procCuts EXCEPT ![g] = @ + 1]
              /\ UNCHANGED kubeCuts
           \/ /\ kubeCuts' = [kubeCuts EXCEPT ![g] = @ + 1]
              /\ UNCHANGED procCuts,
           UNCHANGED <<procState, kubeState, shown, before>>
    PROVE  CutsInv'
<1>1. Cuts' = [Cuts EXCEPT ![g] = @ + 1]
    <2>1. ASSUME NEW h \in Gathers
          PROVE  procCuts'[h] + kubeCuts'[h] = procCuts[h] + kubeCuts[h] + IF h = g THEN 1 ELSE 0
        BY DEF CutsInv
    <2>2. \A h \in Gathers : procCuts[h] + kubeCuts[h] \in Nat
        BY DEF CutsInv
    <2>3. \A h \in Gathers : procCuts'[h] + kubeCuts'[h]
              = IF h = g THEN procCuts[h] + kubeCuts[h] + 1 ELSE procCuts[h] + kubeCuts[h]
        BY <2>1, <2>2
    <2>4. Cuts' = [h \in Gathers |-> procCuts'[h] + kubeCuts'[h]]
        BY DEF Cuts
    <2>5. [Cuts EXCEPT ![g] = @ + 1]
              = [h \in Gathers |-> IF h = g THEN procCuts[h] + kubeCuts[h] + 1 ELSE procCuts[h] + kubeCuts[h]]
        BY DEF Cuts
    <2> QED
        BY <2>3, <2>4, <2>5
<1>2. \A S \in SUBSET Gathers : IsFiniteSet(S) =>
          /\ SumOver(Cuts', S) <= truncations'
          /\ g \notin S => SumOver(Cuts', S) = SumOver(Cuts, S)
    BY <1>1, CutIsCounted
<1>3. \A h \in Gathers : before[h] \in SUBSET Gathers /\ g \notin before[h]
    BY DEF CutsInv
<1>4. \A h \in Gathers : SumOver(Cuts', before[h]) = SumOver(Cuts, before[h])
    BY <1>2, <1>3 DEF CutsInv
<1>5. \A h \in Gathers : procState[h] = "done" => procCuts'[h] = procCuts[h]
    BY DEF CutsInv, Stages
<1>6. truncations' \in Nat /\ procCuts' \in [Gathers -> Nat] /\ kubeCuts' \in [Gathers -> Nat]
    BY DEF CutsInv
<1> QED
    BY <1>2, <1>4, <1>5, <1>6 DEF CutsInv, Over, Started

\* Every step of the writers and of the collectors preserves the invariant.
LEMMA CutsNext == CutsInv /\ [Next]_vars => CutsInv'
<1> SUFFICES ASSUME CutsInv, [Next]_vars PROVE CutsInv'
    OBVIOUS
<1> USE DEF procVars, kubeVars
<1>1. CASE UNCHANGED <<truncations, procVars, kubeVars, before>>
    BY <1>1 DEF CutsInv, Started, Over, Cuts
<1>2. CASE Scrape
    BY <1>1, <1>2 DEF Scrape
<1>3. ASSUME NEW items \in Answers, Replace(items) PROVE CutsInv'
    BY <1>1, <1>3 DEF Replace
<1>4. CASE PollFails
    BY <1>1, <1>4 DEF PollFails, vars
<1>5. ASSUME NEW g \in Gathers, ProcBegin(g) PROVE CutsInv'
    BY <1>5, CutsStage DEF ProcBegin, Begin, CutsInv, Stages, Over
<1>6. ASSUME NEW g \in Gathers, ProcEnd(g) PROVE CutsInv'
    <2> DEFINE B == before[g] \union {g}
    <2>1. /\ IsFiniteSet(B) /\ B \in SUBSET Gathers /\ g \in B /\ B \ {g} = before[g]
          /\ IsFiniteSet(before[g])
        BY FS_AddElement DEF CutsInv
    <2>2. IntValued(Cuts, B) /\ IntValued(Cuts, before[g])
        BY <2>1 DEF CutsInv, Cuts, IntValued
    <2>3. SumOver(Cuts, B) <= truncations
        BY <2>1 DEF CutsInv
    <2> HIDE DEF B
    <2>4. SumOver(Cuts, B) = Cuts[g] + SumOver(Cuts, before[g])
        BY <2>1, <2>2, SumRemove
    <2>5. SumOver(Cuts, before[g]) \in Int
        BY <2>1, <2>2, SumPick
    <2>6. /\ Cuts[g] = procCuts[g] + kubeCuts[g] /\ procCuts[g] \in Nat /\ kubeCuts[g] \in Nat
          /\ truncations \in Nat
        BY DEF Cuts, CutsInv
    <2>7. truncations >= procCuts[g] + SumOver(Cuts, before[g])
        BY <2>3, <2>4, <2>5, <2>6
    <2>8. Cuts' = Cuts
        BY <1>6 DEF ProcEnd, Cuts
    <2>9. /\ shown' = [shown EXCEPT ![g] = truncations]
          /\ procState' = [procState EXCEPT ![g] = "done"] /\ procState[g] = "run"
          /\ UNCHANGED <<truncations, procCuts, kubeCuts, kubeState, before>>
        BY <1>6 DEF ProcEnd
    <2>10. \A h \in Gathers : Over(h) => Over(h)'
        BY <2>9 DEF Over, CutsInv
    <2>11. {h \in Gathers : Started(h)}' = {h \in Gathers : Started(h)}
        BY <2>9 DEF Started, CutsInv
    <2> QED
        BY <2>7, <2>8, <2>9, <2>10, <2>11 DEF CutsInv, Stages
<1>7. ASSUME NEW g \in Gathers, KubeBegin(g) PROVE CutsInv'
    BY <1>7, CutsStage DEF KubeBegin, Begin, CutsInv, Stages, Over
<1>8. ASSUME NEW g \in Gathers, KubeEnd(g) PROVE CutsInv'
    BY <1>8, CutsStage DEF KubeEnd, CutsInv, Stages, Over, Started
<1>9. ASSUME NEW g \in Gathers, NEW s \in procTodo[g], ProcEmit(g, s) PROVE CutsInv'
    <2>1. CASE IsCut(s.job)
        BY <1>9, <2>1, CutsCut DEF ProcEmit, Over
    <2>2. CASE ~IsCut(s.job)
        BY <1>9, <2>2 DEF ProcEmit, CutsInv, Started, Over, Cuts
    <2> QED
        BY <2>1, <2>2
<1>10. ASSUME NEW g \in Gathers, NEW s \in kubeTodo[g], KubeVisit(g, s) PROVE CutsInv'
    <2>1. CASE s.uid # NoUID /\ IsCut(s.job)
        BY <1>10, <2>1, CutsCut DEF KubeVisit, Over
    <2>2. CASE ~(s.uid # NoUID /\ IsCut(s.job))
        BY <1>10, <2>2 DEF KubeVisit, CutsInv, Started, Over, Cuts
    <2> QED
        BY <2>1, <2>2
<1>11. CASE UNCHANGED vars
    BY <1>1, <1>11 DEF vars
<1> QED
    BY <1>2, <1>3, <1>4, <1>5, <1>6, <1>7, <1>8, <1>9, <1>10, <1>11 DEF Next

\* The counter a scrape emits has its own ProcessCollector's cuts and all cuts
\* of the scrapes that were over when it began, for any number of scrapes that
\* overlap (collector.go:426-429).
THEOREM CutsCounted == Spec => []CutsAreCounted
<1>1. CutsInv => CutsAreCounted
    BY DEF CutsInv, CutsAreCounted, CutsOf, SumOver
<1> QED
    BY CutsInit, CutsNext, <1>1, PTL DEF Spec
=============================================================================
