------------------------------ MODULE MCGather ------------------------------
(* Instance of Gather for TLC. *)
EXTENDS Gather, TLC

CONSTANTS long1, long2, short, cut, u1, u2

\* long1 and long2 differ in a byte that sanitizing replaces; short is its own
\* label.
MCLabel(job) == IF job = short THEN short ELSE cut
MCIsCut(job) == job \in {long1, long2}

Sample(pid, job, uid) == [pid |-> pid, job |-> job, uid |-> uid]

MCActiveSets ==
    {{Sample(1, long1, u1), Sample(2, long2, u2)},
     {Sample(3, short, u2), Sample(4, long1, NoUID)}}

Container(cpu, memory) == [cpu |-> cpu, memory |-> memory]
Pod(uid, containers) == [uid |-> uid, containers |-> containers]
Absent == Quantity(0, "absent")

\* A pod with two containers, one of them without requests; a UID listed
\* twice; and a memory quantity in thousandths, which Kubernetes may write.
MCAnswers ==
    {<<Pod(u1, <<Container(Quantity(500, "m"), Quantity(2, "Ki")), Container(Absent, Absent)>>)>>,
     <<Pod(u1, <<Container(Absent, Absent)>>), Pod(u1, <<Container(Quantity(2, "plain"), Quantity(1, "k"))>>),
       Pod(u2, <<Container(Quantity(1, "m"), Quantity(3, "plain"))>>)>>,
     <<Pod(u1, <<Container(Absent, Quantity(5000, "m"))>>)>>}

Symmetry == Permutations(Gathers)
=============================================================================
