------------------------------- MODULE JobLog -------------------------------
(***************************************************************************)
(* internal/jobreport/logparse.go: parseJobLog, the scanner that recovers  *)
(* a job's window, phases, crash frames and identity from its log.         *)
(*                                                                         *)
(* The patterns of one line are tried one after the other and none looks   *)
(* at what another found, so a line that matches several is modelled as    *)
(* that many lines.  The log is job output: its lines come in any order.   *)
(***************************************************************************)
EXTENDS Integers, Sequences, FiniteSets, SequencesExt

CONSTANTS
    Lines,       \* the lines a log may hold
    MaxLines,    \* bound: length of a log
    MaxInt64,    \* what ParseInt returns for digits out of range
    TopFrames,   \* frames shown: 5 in the code
    Labels,      \* file names of artifacts, the keys of Artifacts
    None         \* a field that is still the empty string

FirstWins == {"Executor", "Pod", "Project", "CoreCmdline", "JobID"} \union Labels
LastWins == {"Runner", "FailMsg", "Pipeline", "JobSlug"}
Collected == {"KilledNames", "KillPIDs"}

SectionLines == {ln \in Lines : ln.kind = "section"}
FrameLines == {ln \in Lines : ln.kind = "frame"}
FieldLines == {ln \in Lines : ln.kind = "field"}

\* What the patterns capture: digits, and the words of the alternatives.
ASSUME LinesAssumption ==
    \A ln \in Lines :
        \/ ln.kind = "section" /\ ln.mark \in {"start", "end"} /\ ln.ep \in Nat
        \/ ln.kind = "frame" /\ ln.num \in Nat
        \/ ln.kind = "field" /\ ln.field \in FirstWins \union LastWins \union Collected

\* A label ends in ".zip" or ".db", no name of a field does.
ASSUME LabelsAssumption == Labels \intersect (LastWins \union Collected) = {}

ASSUME LogBoundsAssumption == MaxLines \in Nat /\ MaxInt64 \in Nat /\ TopFrames \in Nat

VARIABLES
    log,         \* the lines scanned so far
    job,         \* JobInfo
    phaseStart,  \* section starts that wait for their end: name -> epoch
    frameByNum   \* first frame seen of each number

logVars == <<log, job, phaseStart, frameByNum>>

\* var j JobInfo, with the job id the artifact URL carries (or none).
NewJobInfo(urlID) ==
    [StartEpoch |-> 0, EndEpoch |-> 0, Phases |-> {}, CrashFrames |-> <<>>,
     once |-> [[f \in FirstWins |-> None] EXCEPT !["JobID"] = urlID],
     last |-> [f \in LastWins |-> None],
     all  |-> [f \in Collected |-> {}]]

NewLog(urlID) ==
    /\ log = <<>>
    /\ job = NewJobInfo(urlID)
    /\ phaseStart = <<>>
    /\ frameByNum = <<>>

\* strconv.ParseInt and strconv.Atoi with their range error ignored.
ParseInt(digits) == IF digits > MaxInt64 THEN MaxInt64 ELSE digits

\* Mutation: the first section is taken for the earliest one.
ExtendStart_First(start, ep) == IF start = 0 THEN ep ELSE start

\* 0 stands for "no section seen yet".
ExtendStart(start, ep) == IF start = 0 \/ ep < start THEN ep ELSE start

\* Mutation: the start of a phase is not forgotten once it is paired.
Unpair_Keeps(name) == phaseStart

\* delete(phaseStart, name)
Unpair(name) == [n \in DOMAIN phaseStart \ {name} |-> phaseStart[n]]

\* Phases is a list of appended records; the line number tells equal ones apart.
ReadSection(ln) ==
    LET ep == ParseInt(ln.ep)
        paired == ln.mark = "end" /\ ln.name \in DOMAIN phaseStart
    IN  /\ job' = [job EXCEPT
             !.StartEpoch = ExtendStart(@, ep),
             !.EndEpoch = IF ep > @ THEN ep ELSE @,
             !.Phases = @ \union
                 IF paired THEN {[name |-> ln.name, start |-> phaseStart[ln.name],
                                  end |-> ep, line |-> Len(log) + 1]}
                           ELSE {}]
        /\ phaseStart' =
             CASE ln.mark = "start" -> [n \in DOMAIN phaseStart \union {ln.name} |->
                                           IF n = ln.name THEN ep ELSE phaseStart[n]]
               [] paired            -> Unpair(ln.name)
               [] OTHER             -> phaseStart
        /\ UNCHANGED frameByNum

\* Only the first frame of a number is kept.
ReadFrame(ln) ==
    LET num == ParseInt(ln.num)
    IN  /\ frameByNum' = [n \in DOMAIN frameByNum \union {num} |->
                             IF n \in DOMAIN frameByNum THEN frameByNum[n] ELSE ln.text]
        /\ UNCHANGED <<job, phaseStart>>

\* Fields the first match sets for good, the URL of an artifact's label among
\* them, fields every match overwrites, and lists of distinct matches.
ReadField(ln) ==
    /\ job' = CASE ln.field \in FirstWins -> [job EXCEPT !.once[ln.field] = IF @ = None THEN ln.val ELSE @]
                [] ln.field \in LastWins  -> [job EXCEPT !.last[ln.field] = ln.val]
                [] ln.field \in Collected -> [job EXCEPT !.all[ln.field] = @ \union {ln.val}]
    /\ UNCHANGED <<phaseStart, frameByNum>>

ScanLine ==
    /\ Len(log) < MaxLines
    /\ \/ \E ln \in SectionLines : ReadSection(ln) /\ log' = Append(log, ln)
       \/ \E ln \in FrameLines : ReadFrame(ln) /\ log' = Append(log, ln)
       \/ \E ln \in FieldLines : ReadField(ln) /\ log' = Append(log, ln)

\* Mutation: the frames are shown in the order of the log.
SortFrames_LogOrder(nums) ==
    SetToSortSeq(nums, LAMBDA m, n :
        \E i, k \in DOMAIN log :
            /\ i < k
            /\ log[i].kind = "frame" /\ ParseInt(log[i].num) = m
            /\ log[k].kind = "frame" /\ ParseInt(log[k].num) = n)

\* sort.Ints(frameNums)
SortFrames(nums) ==
    CHOOSE s \in [1..Cardinality(nums) -> nums] : \A i, k \in DOMAIN s : i < k => s[i] < s[k]

\* After the last line: the frames with the lowest numbers.
TopOfStack ==
    LET nums == SortFrames(DOMAIN frameByNum)
        shown == SubSeq(nums, 1, IF Len(nums) < TopFrames THEN Len(nums) ELSE TopFrames)
    IN  [i \in DOMAIN shown |-> [num |-> shown[i], text |-> frameByNum[shown[i]]]]

-----------------------------------------------------------------------------
(* Properties *)

Sections == {i \in DOMAIN log : log[i].kind = "section"}
Epochs == {ParseInt(log[i].ep) : i \in Sections}

\* The window of a log without an epoch 0 is the hull of its section epochs,
\* in whatever order they come; with one, it is still ordered and its end is
\* the latest epoch, so no query asks for a negative range (logparse.go:170-175).
WindowIsHull ==
    /\ job.StartEpoch <= job.EndEpoch
    /\ \A e \in Epochs : e <= job.EndEpoch
    /\ job.StartEpoch \in Epochs \union {0}
    /\ 0 \notin Epochs => \A e \in Epochs : job.StartEpoch <= e

\* A phase runs from a start line to the next line of its section, which is an
\* end line, and has the epochs of the two (logparse.go:167-181): no other start
\* or end of the section lies between them, so no two phases share a start.
PhasesPaired ==
    \A p \in job.Phases :
        /\ p.line \in Sections
        /\ log[p.line].mark = "end" /\ log[p.line].name = p.name /\ ParseInt(log[p.line].ep) = p.end
        /\ \E i \in Sections :
             /\ i < p.line
             /\ log[i].mark = "start" /\ log[i].name = p.name /\ ParseInt(log[i].ep) = p.start
             /\ \A k \in Sections : (i < k /\ k < p.line) => log[k].name # p.name

\* The frames shown are the lowest numbers of the log in ascending order, each
\* as the log first has it, however many backtraces are mixed in it
\* (logparse.go:195-201, 216-223).
FramesAreLowest ==
    LET frames == {i \in DOMAIN log : log[i].kind = "frame"}
        num(i) == ParseInt(log[i].num)
        shown == job.CrashFrames
    IN  shown # <<>> =>
        /\ \A i, k \in DOMAIN shown : i < k => shown[i].num < shown[k].num
        /\ \A i \in DOMAIN shown : \E f \in frames :
             /\ shown[i] = [num |-> num(f), text |-> log[f].text]
             /\ \A g \in frames : num(g) = num(f) => f <= g
        /\ \A f \in frames :
             \/ \E i \in DOMAIN shown : shown[i].num = num(f)
             \/ Len(shown) = TopFrames /\ shown[TopFrames].num < num(f)
=============================================================================
