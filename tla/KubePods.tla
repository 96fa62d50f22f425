------------------------------ MODULE KubePods ------------------------------
(***************************************************************************)
(* exporter/kube.go: the quantities of a kubelet /pods answer, parsePodList *)
(* and the map KubeStore.Replace makes of its result.                      *)
(*                                                                         *)
(* A quantity is a number and a suffix: "absent" for an empty string,      *)
(* "plain" for none, "garbage" for text whose number does not parse.  CPU  *)
(* is counted in millicores, memory in bytes.                              *)
(***************************************************************************)
EXTENDS Integers, Sequences, FiniteSetsExt, SequencesExt

\* A JSON list of pods, each with a list of containers that request a number of
\* units of each resource.
IsPodList(items) ==
    /\ items \in Seq(Range(items))
    /\ \A i \in DOMAIN items :
         LET cs == items[i].containers
         IN  /\ cs \in Seq(Range(cs))
             /\ \A c \in DOMAIN cs : cs[c].cpu.num \in Int /\ cs[c].memory.num \in Int

Quantity(num, suffix) == [num |-> num, suffix |-> suffix]

\* ParseCPUQuantity: a plain number of cores or a number of millicores.
ParseCPUOK(q) == q.suffix \in {"absent", "plain", "m"}
ParseCPUQuantity(q) ==
    CASE q.suffix = "absent" -> 0
      [] q.suffix = "plain"  -> q.num * 1000
      [] q.suffix = "m"      -> q.num

\* memSuffixes: base and exponent of each multiplier.  There is no "m".
memSuffixes ==
    [Ki |-> <<2, 10>>, Mi |-> <<2, 20>>, Gi |-> <<2, 30>>, Ti |-> <<2, 40>>,
     Pi |-> <<2, 50>>, Ei |-> <<2, 60>>, k |-> <<10, 3>>, M |-> <<10, 6>>,
     G |-> <<10, 9>>, T |-> <<10, 12>>, P |-> <<10, 15>>, E |-> <<10, 18>>]

ParseMemoryOK(q) == q.suffix \in {"absent", "plain"} \union DOMAIN memSuffixes
ParseMemoryQuantity(q) ==
    CASE q.suffix = "absent" -> 0
      [] q.suffix = "plain"  -> q.num
      [] OTHER               -> q.num * memSuffixes[q.suffix][1] ^ memSuffixes[q.suffix][2]

\* One quantity that does not parse fails the whole list.
parsePodListOK(items) ==
    \A i \in DOMAIN items : \A c \in DOMAIN items[i].containers :
        ParseCPUOK(items[i].containers[c].cpu) /\ ParseMemoryOK(items[i].containers[c].memory)

KubePodInfo(uid, cpu, mem) == [UID |-> uid, CPURequest |-> cpu, MemRequest |-> mem]

\* Mutation: a pod's request is that of its last container.
AddContainer_Assigns(info, c) ==
    KubePodInfo(info.UID, ParseCPUQuantity(c.cpu), ParseMemoryQuantity(c.memory))

AddContainer(info, c) ==
    KubePodInfo(info.UID, info.CPURequest + ParseCPUQuantity(c.cpu),
                info.MemRequest + ParseMemoryQuantity(c.memory))

parsePodList(items) ==
    [i \in DOMAIN items |->
        FoldLeft(AddContainer, KubePodInfo(items[i].uid, 0, 0), items[i].containers)]

\* Replace: the last entry of a UID wins.
Snapshot(pods) ==
    [u \in {pods[i].UID : i \in DOMAIN pods} |->
        pods[Max({i \in DOMAIN pods : pods[i].UID = u})]]

-----------------------------------------------------------------------------
\* Reference: what a pod of an answer requests, the sum over its containers.
TotalRequest(item) ==
    LET cpu == [c \in DOMAIN item.containers |-> ParseCPUQuantity(item.containers[c].cpu)]
        mem == [c \in DOMAIN item.containers |-> ParseMemoryQuantity(item.containers[c].memory)]
        Total(w) == MapThenSumSet(LAMBDA c : w[c], DOMAIN item.containers)
    IN  KubePodInfo(item.uid, Total(cpu), Total(mem))
=============================================================================
