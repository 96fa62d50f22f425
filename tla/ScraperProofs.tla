---------------------------- MODULE ScraperProofs ---------------------------
(***************************************************************************)
(* Theorems about Scraper for every set of pids, retention, clock bound    *)
(* and set of fallible reads.                                              *)
(***************************************************************************)
EXTENDS Scraper, TLAPS

\* The iteration has a create time, read or not, and reads the other parts.
Reading == InIteration \ {"Name", "CreateTime"}

\* The scraper's locals fit its control point.
Control ==
    /\ now >= 1
    /\ scrapeNow <= now
    /\ pc # "idle" => scrapeNow >= 1
    /\ pc \in InIteration => cur \in activePids /\ cur \notin todo
    /\ pc \in Reading => draft.ct # NoKey
    /\ todo \subseteq activePids

\* A scrape stamps at most one sample of a pid, and none of a pid it still has
\* to visit.
OneStampPerPid ==
    /\ \A s \in processes : s.ts <= scrapeNow
    /\ \A s, t \in processes : (s.pid = t.pid /\ s.ts = t.ts) => s = t
    /\ \A s \in processes :
         (s.pid \in todo \/ (pc \in InIteration /\ s.pid = cur)) => s.ts < scrapeNow

StoreInv == TypeOK /\ Control /\ OneStampPerPid /\ ExportedIsNewest

-----------------------------------------------------------------------------
(* Lemmas about the store's operators *)

\* What Flip leaves alone.
LEMMA FlipKeeps ==
    ASSUME NEW s \in ProcessSample, NEW S
    PROVE  /\ Flip(s, S) \in ProcessSample
           /\ Flip(s, S).pid = s.pid /\ Flip(s, S).ct = s.ct /\ Flip(s, S).ts = s.ts
           /\ Flip(s, S).ctRead = s.ctRead
           /\ s.pid \in S => Flip(s, S) = s
BY DEF Flip, ProcessSample, IsLast

\* MarkInactive's samples are samples of the store that are fresh, marked or not.
LEMMA MarkInactiveSamples ==
    ASSUME NEW S, HistoryTypeOK, MarkInactive(S), NEW s \in processes'
    PROVE  \E u \in processes : s = Flip(u, S) /\ Fresh(u)
<1>1. PICK u \in processes : s = Flip(u, S) /\ Fresh(s)
  BY DEF MarkInactive, pruneAll
<1>2. u \in ProcessSample
  BY DEF HistoryTypeOK
<1>3. s.ts = u.ts
  BY <1>1, <1>2, FlipKeeps
<1> QED
  BY <1>1, <1>3 DEF Fresh

\* AddSample's samples are old ones and the new one.
LEMMA AddSampleSamples ==
    ASSUME NEW x, AddSample(x)
    PROVE  /\ \A s \in processes' : s \in processes \/ s = x
           /\ \A s \in processes' : (s.pid = x.pid /\ s.ct = x.ct) => Fresh(s)
           /\ Fresh(x) => x \in processes'
BY DEF AddSample, pruneExpiredSamples

-----------------------------------------------------------------------------
LEMMA InitStore == Init => StoreInv
<1> SUFFICES ASSUME Init PROVE StoreInv
  OBVIOUS
<1> USE DEF Init, NewHistoryStore
<1>1. TypeOK
  BY NoPidAssumption DEF TypeOK, HistoryTypeOK, HandleType, NoHandle, DraftType, NoDraft,
     Nobody, NoKey, ProcessSample, InIteration
<1>2. Control
  BY DEF Reading, Control, InIteration
<1>3. OneStampPerPid
  BY DEF OneStampPerPid
<1>4. ExportedIsNewest
  BY DEF ExportedIsNewest, GetActiveProcesses
<1> QED
  BY <1>1, <1>2, <1>3, <1>4 DEF StoreInv

-----------------------------------------------------------------------------
(* One lemma per kind of step *)

\* Steps that leave the store alone, the listing included.
LEMMA QuietSteps ==
    ASSUME StoreInv, UNCHANGED storeVars, TypeOK', Control',
           scrapeNow <= scrapeNow',
           \A p \in Pids : (p \in todo' \/ (pc' \in InIteration /\ p = cur')) =>
               \/ scrapeNow < scrapeNow'
               \/ p \in todo \/ (pc \in InIteration /\ p = cur)
    PROVE  StoreInv'
<1> USE DEF StoreInv, storeVars
<1>1. OneStampPerPid'
  BY DEF OneStampPerPid, TypeOK, HistoryTypeOK, ProcessSample
<1>2. ExportedIsNewest'
  BY DEF ExportedIsNewest, GetActiveProcesses, QueryHistoryByPid, IsLast, Timeline
<1> QED
  BY <1>1, <1>2

\* The reads other than Name, CreateTime and Percent: only the locals change.
LEMMA PartStep ==
    ASSUME ReadParts
    PROVE  /\ pc \in Reading \ {"Percent", "PodUID"} /\ pc' \in Reading \ {"Cmdline", "Times"}
           /\ pc' = "Percent" <=> pc = "Cmdline"
           /\ UNCHANGED <<now, storeVars, proc, procCache, cur, todo, activePids, scrapeNow, ended>>
           /\ \E o \in {Nobody, proc[cur]} : draft' = [draft EXCEPT !.mixed = Mixed(o)]
BY DEF ReadParts, ReadCmdline, ReadTimes, ReadMemoryInfo, ReadIOCounters, ReadSelfIO, ReadEnviron,
       ReadPart, Reading, InIteration, Outcomes

LEMMA SampleType ==
    ASSUME TypeOK, Control, pc \in Reading, NEW o
    PROVE  Sample(scrapeNow, o) \in ProcessSample
<1>1. cur \in Pids /\ draft \in DraftType /\ draft.ct # NoKey /\ scrapeNow \in Nat
      /\ procCache[cur] \in HandleType
  BY DEF TypeOK, Control, Reading
<1>2. Mixed(o) \in BOOLEAN
  BY <1>1 DEF Mixed, DraftType
<1> QED
  BY <1>1, <1>2 DEF Sample, ProcessSample, DraftType, HandleType

LEMMA TypeStep == TypeOK /\ Control /\ [Next]_vars => TypeOK' /\ Control'
<1> SUFFICES ASSUME TypeOK, Control, [Next]_vars PROVE TypeOK' /\ Control'
  OBVIOUS
<1> USE NoPidAssumption DEF TypeOK, HistoryTypeOK, Control, Nobody, NoKey, InIteration, Reading
<1>1. CASE Tick
  BY <1>1 DEF Tick, storeVars, scrapeVars
<1>2. ASSUME NEW p \in Pids, Spawn(p) \/ Exit(p) PROVE TypeOK' /\ Control'
  BY <1>2 DEF Spawn, Exit, storeVars, scrapeVars
<1>3. CASE PidsFail
  BY <1>3 DEF PidsFail, storeVars
<1>4. CASE ListPids
  BY <1>4 DEF ListPids, storeVars
<1>5. ASSUME NEW p \in Pids, ReuseHandle(p) PROVE TypeOK' /\ Control'
  <2>1. procCache' \in [Pids -> HandleType]
    BY <1>5 DEF ReuseHandle, HandleType
  <2> QED
    BY <1>5, <2>1 DEF ReuseHandle, storeVars
<1>6. ASSUME NEW p \in Pids, OpenHandle(p) PROVE TypeOK' /\ Control'
  <2>1. procCache' \in [Pids -> HandleType]
    BY <1>6 DEF OpenHandle, HandleType, Handle
  <2> QED
    BY <1>6, <2>1 DEF OpenHandle, storeVars
<1>7. ASSUME NEW p \in Pids, NoProcess(p) PROVE TypeOK' /\ Control'
  <2>1. procCache' \in [Pids -> HandleType]
    BY <1>7 DEF NoProcess, HandleType, NoHandle
  <2> QED
    BY <1>7, <2>1 DEF NoProcess, storeVars
<1>8. CASE ReadName
  <2>1. cur \in Pids
    BY <1>8 DEF ReadName
  <2>2. procCache' \in [Pids -> HandleType]
    BY <1>8, <2>1 DEF ReadName, HandleType, Outcomes
  <2> QED
    BY <1>8, <2>1, <2>2 DEF ReadName, storeVars
<1>9. CASE ReadCreateTime
  <2>1. cur \in Pids /\ scrapeNow >= 1
    BY <1>9 DEF ReadCreateTime
  <2>2. PICK ct \in IF procCache[cur].ct # Nobody THEN {procCache[cur].ct} ELSE Outcomes("CreateTime") :
          /\ procCache' = [procCache EXCEPT ![cur].ct = ct]
          /\ draft' = IF ct = Nobody THEN [NoDraft EXCEPT !.ct = scrapeNow]
                                ELSE [NoDraft EXCEPT !.ct = ct, !.ctRead = TRUE]
    BY <1>9 DEF ReadCreateTime
  <2>3. ct \in Nat
    BY <2>1, <2>2 DEF HandleType, Outcomes
  <2>4. procCache' \in [Pids -> HandleType]
    BY <2>1, <2>2, <2>3 DEF HandleType
  <2>5. draft' \in DraftType /\ draft'.ct # NoKey
    <3>1. CASE ct = Nobody
      <4>1. draft' = [ct |-> scrapeNow, ctRead |-> FALSE, cpu |-> Nobody, base |-> Nobody, mixed |-> FALSE]
        BY <2>2, <3>1 DEF NoDraft
      <4> QED
        BY <2>1, <4>1 DEF DraftType
    <3>2. CASE ct # Nobody
      <4>1. draft' = [ct |-> ct, ctRead |-> TRUE, cpu |-> Nobody, base |-> Nobody, mixed |-> FALSE]
        BY <2>2, <3>2 DEF NoDraft
      <4> QED
        BY <2>3, <3>2, <4>1 DEF DraftType
    <3> QED
      BY <3>1, <3>2
  <2> QED
    BY <1>9, <2>1, <2>4, <2>5 DEF ReadCreateTime, storeVars
<1>10. CASE ReadParts
  <2>1. PICK o : draft' = [draft EXCEPT !.mixed = Mixed(o)]
    BY <1>10, PartStep
  <2>2. draft' \in DraftType /\ draft'.ct = draft.ct
    BY <2>1 DEF DraftType, Mixed
  <2> QED
    BY <1>10, <2>2, PartStep DEF Reading, storeVars
<1>11. CASE ReadPercent
  <2>1. cur \in Pids /\ pc = "Percent" /\ pc' = "Times"
    BY <1>11 DEF ReadPercent
  <2>2. PICK o \in Outcomes("Percent") :
          IF o = Nobody
          THEN UNCHANGED <<draft, procCache>>
          ELSE /\ draft' = [draft EXCEPT !.cpu = o, !.base = procCache[cur].base]
               /\ procCache' = [procCache EXCEPT ![cur].base = o]
    BY <1>11 DEF ReadPercent
  <2>3. o \in Nat
    BY <2>1 DEF Outcomes
  <2>4. procCache' \in [Pids -> HandleType]
    BY <2>1, <2>2, <2>3 DEF HandleType
  <2>5. draft' \in DraftType /\ draft'.ct = draft.ct
    BY <2>1, <2>2, <2>3 DEF DraftType, HandleType
  <2> QED
    BY <1>11, <2>1, <2>4, <2>5 DEF ReadPercent, Reading, storeVars
<1>12. CASE Record
  <2>1. cur \in Pids
    BY <1>12 DEF Record
  <2>2. PICK o \in Outcomes("PodUID") : AddSample(Sample(scrapeNow, o))
    BY <1>12 DEF Record
  <2>3. Sample(scrapeNow, o) \in ProcessSample
    BY <1>12, SampleType DEF Record, Reading
  <2>4. Sample(scrapeNow, o).pid = cur /\ Sample(scrapeNow, o).ct = draft.ct
    BY DEF Sample
  <2>5. processes' \subseteq ProcessSample
    BY <2>2, <2>3, AddSampleSamples
  <2>6. activeKeys' \in [Pids -> Nat]
    BY <2>1, <2>2, <2>4 DEF AddSample, DraftType
  <2>7. draft' \in DraftType
    BY <1>12 DEF Record, NoDraft, DraftType
  <2> QED
    BY <1>12, <2>5, <2>6, <2>7 DEF Record, Reading
<1>13. CASE FinishScrape
  <2>1. MarkInactive(activePids)
    BY <1>13 DEF FinishScrape
  <2>2. processes' \subseteq ProcessSample
    BY <2>1, MarkInactiveSamples, FlipKeeps
  <2>3. activeKeys' \in [Pids -> Nat]
    BY <2>1 DEF MarkInactive
  <2>4. procCache' \in [Pids -> HandleType]
    BY <1>13 DEF FinishScrape, NoHandle, HandleType
  <2> QED
    BY <1>13, <2>2, <2>3, <2>4 DEF FinishScrape
<1>14. CASE UNCHANGED vars
  BY <1>14 DEF vars, scrapeVars
<1> QED
  BY <1>1, <1>2, <1>3, <1>4, <1>5, <1>6, <1>7, <1>8, <1>9, <1>10, <1>11, <1>12, <1>13, <1>14
     DEF Next, Horizon

\* What Record adds.
LEMMA RecordAdds ==
    ASSUME TypeOK, Control, Record
    PROVE  \E x \in ProcessSample :
             /\ x.ts = scrapeNow /\ x.pid = cur /\ x.ct = draft.ct /\ x.ctRead = draft.ctRead
             /\ x.active
             /\ AddSample(x)
<1>1. PICK o \in Outcomes("PodUID") : AddSample(Sample(scrapeNow, o))
  BY DEF Record
<1>2. Sample(scrapeNow, o) \in ProcessSample
  BY SampleType DEF Record, Reading, InIteration
<1> QED
  BY <1>1, <1>2 DEF Sample

LEMMA RecordStep == StoreInv /\ TypeOK' /\ Control' /\ Record => StoreInv'
<1> SUFFICES ASSUME StoreInv, TypeOK', Control', Record PROVE StoreInv'
  OBVIOUS
<1> USE DEF StoreInv
<1>1. PICK x \in ProcessSample :
        /\ x.ts = scrapeNow /\ x.pid = cur /\ x.active
        /\ AddSample(x)
  BY RecordAdds
<1>2. /\ \A s \in processes' : s \in processes \/ s = x
      /\ \A s \in processes' : (s.pid = x.pid /\ s.ct = x.ct) => Fresh(s)
      /\ Fresh(x) => x \in processes'
  BY <1>1, AddSampleSamples
<1>3. /\ pc = "PodUID" /\ pc \in InIteration /\ pc' = "loop" /\ pc' \notin InIteration
      /\ cur \in Pids /\ cur \notin todo /\ todo' = todo /\ scrapeNow' = scrapeNow
      /\ scrapeNow \in Nat /\ now \in Nat
  BY DEF Record, InIteration, Control, TypeOK, HistoryTypeOK
<1>4. \A s \in processes :
        /\ s \in ProcessSample /\ s.ts \in Nat
        /\ s.pid = cur => s.ts < scrapeNow
  BY <1>3 DEF OneStampPerPid, TypeOK, HistoryTypeOK, ProcessSample
<1>5. OneStampPerPid'
  BY <1>1, <1>2, <1>3, <1>4 DEF OneStampPerPid
<1>6. ASSUME NEW s \in GetActiveProcesses'
      PROVE  s.active /\ \A u \in QueryHistoryByPid(s.pid)' : u = s \/ u.ts < s.ts
  <2>1. s \in processes' /\ activeKeys'[s.pid] = s.ct /\ IsLast(s, Timeline(s.pid, s.ct)')
    BY <1>6 DEF GetActiveProcesses, IsLast, Timeline
  <2>2. CASE s.pid = cur
    <3>1. s.ct = x.ct
      BY <1>1, <1>3, <2>1, <2>2 DEF AddSample, TypeOK, HistoryTypeOK
    <3>2. Fresh(s)
      BY <1>1, <1>2, <2>1, <2>2, <3>1
    <3>3. x \in processes'
      BY <1>1, <1>2, <1>3, <1>4, <2>1, <2>2, <3>2, RetentionAssumption DEF Fresh
    <3>4. s = x
      BY <1>1, <1>2, <1>3, <1>4, <2>1, <2>2, <3>1, <3>3 DEF IsLast, Timeline
    <3> QED
      BY <1>1, <1>2, <1>4, <2>2, <3>4 DEF QueryHistoryByPid
  <2>3. CASE s.pid # cur
    <3>1. \A u : u.pid = s.pid => (u \in processes' <=> u \in processes)
      BY <1>1, <2>3 DEF AddSample, pruneExpiredSamples
    <3>2. activeKeys[s.pid] = s.ct
      BY <1>1, <1>3, <2>1, <2>3 DEF AddSample, TypeOK, HistoryTypeOK
    <3>3. s \in GetActiveProcesses
      BY <2>1, <3>1, <3>2 DEF GetActiveProcesses, IsLast, Timeline
    <3> QED
      BY <3>1, <3>3 DEF ExportedIsNewest, QueryHistoryByPid
  <2> QED
    BY <2>2, <2>3
<1>7. ExportedIsNewest'
  BY <1>6 DEF ExportedIsNewest
<1> QED
  BY <1>5, <1>7

\* What is exported after a scrape was exported just before its end.
LEMMA FinishExports ==
    ASSUME StoreInv, FinishScrape, NEW s \in GetActiveProcesses'
    PROVE  /\ s \in GetActiveProcesses
           /\ \A w \in processes' : w.pid = s.pid => w \in processes
<1> USE DEF StoreInv
<1>1. MarkInactive(activePids) /\ HistoryTypeOK
  BY DEF FinishScrape, TypeOK
<1>2. \A t \in processes' : \E u \in processes : t = Flip(u, activePids) /\ Fresh(u)
  BY <1>1, MarkInactiveSamples
<1>3. \A u \in processes :
        /\ u \in ProcessSample
        /\ Flip(u, activePids).pid = u.pid /\ Flip(u, activePids).ct = u.ct
        /\ u.pid \in activePids => Flip(u, activePids) = u
  BY <1>1, FlipKeeps DEF HistoryTypeOK
<1>4. s \in processes' /\ activeKeys'[s.pid] = s.ct /\ IsLast(s, Timeline(s.pid, s.ct)')
  BY DEF GetActiveProcesses, IsLast, Timeline
<1>5. PICK u0 \in processes : s = Flip(u0, activePids) /\ Fresh(u0)
  BY <1>2, <1>4
<1>6. s.pid \in Pids /\ s.ct # NoKey
  BY <1>3, <1>5 DEF ProcessSample
<1>7. s.pid \in activePids /\ activeKeys[s.pid] = s.ct
  BY <1>1, <1>4, <1>6 DEF MarkInactive
<1>8. s = u0
  BY <1>3, <1>5, <1>7
<1>9. ASSUME NEW w \in Timeline(s.pid, s.ct)
      PROVE  w.ts <= s.ts
  <2>1. w \in processes /\ w.pid = s.pid /\ w.ct = s.ct
    BY <1>9 DEF Timeline
  <2>2. CASE Fresh(w)
    <3>1. w \in processes'
      BY <1>1, <1>3, <1>7, <2>1, <2>2 DEF MarkInactive, pruneAll
    <3> QED
      BY <1>4, <2>1, <3>1 DEF IsLast, Timeline
  <2>3. CASE ~Fresh(w)
    BY <1>1, <1>3, <1>5, <1>8, <2>1, <2>3, RetentionAssumption DEF Fresh, HistoryTypeOK, ProcessSample
  <2> QED
    BY <2>2, <2>3
<1>10. s \in GetActiveProcesses
  BY <1>7, <1>8, <1>9 DEF GetActiveProcesses, IsLast, Timeline
<1>11. \A w \in processes' : w.pid = s.pid => w \in processes
  BY <1>2, <1>3, <1>7
<1> QED
  BY <1>10, <1>11

LEMMA FinishStep == StoreInv /\ TypeOK' /\ Control' /\ FinishScrape => StoreInv'
<1> SUFFICES ASSUME StoreInv, TypeOK', Control', FinishScrape PROVE StoreInv'
  OBVIOUS
<1> USE DEF StoreInv
<1>1. MarkInactive(activePids) /\ HistoryTypeOK
  BY DEF FinishScrape, TypeOK
<1>2. \A s \in processes' : \E u \in processes : s = Flip(u, activePids)
  BY <1>1, MarkInactiveSamples
<1>3. \A u \in processes : Flip(u, activePids).pid = u.pid /\ Flip(u, activePids).ts = u.ts
  BY <1>1, FlipKeeps DEF HistoryTypeOK
<1>4. /\ pc' \notin InIteration /\ todo' = {} /\ scrapeNow' = scrapeNow
  BY DEF FinishScrape, InIteration
<1>5. OneStampPerPid'
  BY <1>2, <1>3, <1>4 DEF OneStampPerPid
<1>6. ExportedIsNewest'
  BY FinishExports DEF ExportedIsNewest, QueryHistoryByPid
<1> QED
  BY <1>5, <1>6

LEMMA StoreStep == StoreInv /\ [Next]_vars => StoreInv'
<1> SUFFICES ASSUME StoreInv, [Next]_vars PROVE StoreInv'
  OBVIOUS
<1>1. TypeOK' /\ Control'
  BY TypeStep DEF StoreInv
<1>2. CASE Record
  BY <1>1, <1>2, RecordStep
<1>3. CASE FinishScrape
  BY <1>1, <1>3, FinishStep
<1>4. CASE ListPids
  <2>1. UNCHANGED storeVars /\ scrapeNow < scrapeNow' /\ scrapeNow \in Nat /\ scrapeNow' \in Nat
    BY <1>4 DEF ListPids, StoreInv, TypeOK, HistoryTypeOK
  <2> QED
    BY <1>1, <2>1, QuietSteps
<1>5. ASSUME ~Record, ~FinishScrape, ~ListPids
      PROVE  StoreInv'
  <2>1. /\ UNCHANGED <<storeVars, scrapeNow>>
        /\ \A p \in Pids : (p \in todo' \/ (pc' \in InIteration /\ p = cur')) =>
               p \in todo \/ (pc \in InIteration /\ p = cur)
    <3> USE DEF storeVars, scrapeVars, InIteration
    <3>1. CASE Tick \/ PidsFail \/ UNCHANGED vars
      BY <3>1 DEF Tick, PidsFail, vars
    <3>2. ASSUME NEW p \in Pids, Spawn(p) \/ Exit(p) PROVE <2>1!1 /\ <2>1!2
      BY <3>2 DEF Spawn, Exit
    <3>3. ASSUME NEW p \in Pids, ReuseHandle(p) \/ OpenHandle(p) \/ NoProcess(p) PROVE <2>1!1 /\ <2>1!2
      BY <3>3 DEF ReuseHandle, OpenHandle, NoProcess
    <3>4. CASE ReadName \/ ReadCreateTime \/ ReadPercent
      BY <3>4 DEF ReadName, ReadCreateTime, ReadPercent
    <3>5. CASE ReadParts
      BY <3>5, PartStep DEF Reading
    <3> QED
      BY <1>5, <3>1, <3>2, <3>3, <3>4, <3>5 DEF Next, Horizon
  <2>2. scrapeNow \in Nat /\ scrapeNow <= scrapeNow'
    BY <2>1 DEF StoreInv, TypeOK
  <2> QED
    BY <1>1, <2>1, <2>2, QuietSteps
<1> QED
  BY <1>2, <1>3, <1>4, <1>5

\* The variables keep their types: in particular a sample is never filed under
\* the key that stands for no key (history.go:60).
THEOREM TypeCorrect == Spec => []TypeOK
<1>1. StoreInv => TypeOK
  BY DEF StoreInv
<1> QED
  BY <1>1, InitStore, StoreStep, PTL DEF Spec

\* What /metrics and /api/processes publish for a pid is active and is the
\* newest sample of that pid in any timeline, so no two series share a pid
\* (history.go:56-100), for any number of pids and any pattern of failures.
THEOREM ExportedNewest == Spec => []ExportedIsNewest
<1>1. StoreInv => ExportedIsNewest
  BY DEF StoreInv
<1> QED
  BY <1>1, InitStore, StoreStep, PTL DEF Spec

-----------------------------------------------------------------------------
(* A running process is never marked inactive *)

\* c is the birth of the process that holds p or of an earlier holder of p.
Past(p, c) == IF proc[p] = Nobody THEN c < now ELSE c <= proc[p]

\* Every create time that was read is the birth of a process of that pid.
Births ==
    /\ \A p \in Pids : proc[p] <= now /\ Past(p, procCache[p].ct)
    /\ \A s \in processes : s.ctRead => Past(s.pid, s.ct)
    /\ (pc \in Reading /\ draft.ctRead) => Past(cur, draft.ct)

\* During a scrape, a pid missing from the listing has no sample of the
\* process that holds it.
Unlisted ==
    pc # "idle" =>
        \A s \in processes : (s.ctRead /\ s.pid \notin activePids) => proc[s.pid] # s.ct

LiveInv == TypeOK /\ Control /\ Births /\ Unlisted /\ LiveNeverInactive

LEMMA InitLive == Init => LiveInv
<1> SUFFICES ASSUME Init PROVE LiveInv
  OBVIOUS
<1>1. TypeOK /\ Control
  BY InitStore DEF StoreInv
<1>2. Births /\ Unlisted /\ LiveNeverInactive
  BY DEF Reading, InIteration, Init, NewHistoryStore, Births, Past, Nobody, NoHandle, Unlisted, LiveNeverInactive,
         QueryHistoryByPid
<1> QED
  BY <1>1, <1>2 DEF LiveInv

\* Time and the world only move a create time further into the past.
LEMMA WorldStep ==
    ASSUME LiveInv, Tick \/ \E p \in Pids : Spawn(p) \/ Exit(p), NEW q \in Pids, NEW c \in Nat,
           Past(q, c)
    PROVE  /\ Past(q, c)'
           /\ c # Nobody /\ proc[q] # c => proc'[q] # c
<1> USE DEF LiveInv, TypeOK, HistoryTypeOK, Births, Past, Nobody
<1>1. CASE Tick
  BY <1>1 DEF Tick
<1>2. ASSUME NEW p \in Pids, Spawn(p) \/ Exit(p)
      PROVE  Past(q, c)' /\ (c # Nobody /\ proc[q] # c => proc'[q] # c)
  BY <1>2 DEF Spawn, Exit
<1> QED
  BY <1>1, <1>2

LEMMA LiveWorld ==
    LiveInv /\ TypeOK' /\ Control' /\ (Tick \/ \E p \in Pids : Spawn(p) \/ Exit(p)) => LiveInv'
<1> SUFFICES ASSUME LiveInv, TypeOK', Control', Tick \/ \E p \in Pids : Spawn(p) \/ Exit(p)
             PROVE  LiveInv'
  OBVIOUS
<1>1. UNCHANGED <<storeVars, scrapeVars>>
  BY DEF Tick, Spawn, Exit
<1>0. /\ processes' = processes /\ procCache' = procCache /\ pc' = pc /\ cur' = cur
      /\ draft' = draft /\ activePids' = activePids
  BY <1>1 DEF storeVars, scrapeVars
<1>2. \A s \in processes : s.pid \in Pids /\ s.ct \in Nat /\ s.ct # Nobody
  BY DEF LiveInv, TypeOK, HistoryTypeOK, ProcessSample, Nobody, NoKey
<1>3. \A p \in Pids : procCache[p].ct \in Nat /\ Past(p, procCache[p].ct)
  BY DEF LiveInv, TypeOK, HandleType, Births
<1>4. \A p \in Pids : proc'[p] <= now'
  BY DEF Tick, Spawn, Exit, LiveInv, TypeOK, HistoryTypeOK, Births, Nobody
<1>5. \A p \in Pids : Past(p, procCache[p].ct)'
  BY <1>1, <1>3, WorldStep DEF scrapeVars, Past
<1>6. \A s \in processes : s.ctRead =>
        /\ Past(s.pid, s.ct)'
        /\ proc[s.pid] # s.ct => proc'[s.pid] # s.ct
  BY <1>1, <1>2, WorldStep DEF LiveInv, Births, storeVars, Past
<1>7. (pc \in Reading /\ draft.ctRead) => Past(cur, draft.ct)'
  BY <1>1, WorldStep DEF Reading, LiveInv, Births, TypeOK, DraftType, Control, InIteration, scrapeVars, Past
<1>8. Births'
  BY <1>0, <1>4, <1>5, <1>6, <1>7 DEF Births, Past
<1>9. Unlisted'
  BY <1>0, <1>6 DEF LiveInv, Unlisted
<1>10. LiveNeverInactive'
  BY <1>0, <1>2, <1>6 DEF LiveInv, LiveNeverInactive, QueryHistoryByPid
<1> QED
  BY <1>8, <1>9, <1>10 DEF LiveInv

\* Steps of the scraper that leave the store and the world alone.
LEMMA LiveQuiet ==
    ASSUME LiveInv, TypeOK', Control', UNCHANGED <<now, storeVars, proc>>,
           pc' # "idle" => UNCHANGED activePids /\ pc # "idle",
           \A p \in Pids : Past(p, procCache'[p].ct),
           (pc' \in Reading /\ draft'.ctRead) => Past(cur', draft'.ct)
    PROVE  LiveInv'
<1> USE DEF LiveInv, storeVars
<1>1. Births'
  BY DEF Births, Past
<1>2. Unlisted'
  BY DEF Unlisted
<1>3. LiveNeverInactive'
  BY DEF LiveNeverInactive, QueryHistoryByPid
<1> QED
  BY <1>1, <1>2, <1>3

\* What a read of the create time may return.
LEMMA OutcomePast ==
    ASSUME LiveInv, NEW p \in Pids
    PROVE  Past(p, proc[p]) /\ Past(p, Nobody)
BY DEF LiveInv, Past, TypeOK, HistoryTypeOK, Control, Nobody

LEMMA LiveStep == LiveInv /\ [Next]_vars => LiveInv'
<1> SUFFICES ASSUME LiveInv, [Next]_vars PROVE LiveInv'
  OBVIOUS
<1>1. TypeOK' /\ Control'
  BY TypeStep DEF LiveInv
<1>2. CASE Tick
  BY <1>1, <1>2, LiveWorld
<1>3. ASSUME NEW p \in Pids, Spawn(p) \/ Exit(p) PROVE LiveInv'
  BY <1>1, <1>3, LiveWorld
<1>a. \A p \in Pids : Past(p, procCache[p].ct)
  BY DEF LiveInv, Births
<1>b. procCache \in [Pids -> HandleType]
  BY DEF LiveInv, TypeOK
<1>4. CASE PidsFail
  BY <1>1, <1>4, <1>a, LiveQuiet DEF PidsFail, LiveInv, Births
<1>5. CASE ListPids
  <2>1. UNCHANGED <<now, storeVars, proc, procCache>> /\ pc' = "loop"
    BY <1>5 DEF ListPids
  <2>2. Births' /\ LiveNeverInactive'
    BY <2>1 DEF Reading, InIteration, LiveInv, Births, Past, storeVars, LiveNeverInactive, QueryHistoryByPid
  <2>3. \A s \in processes : s.pid \in Pids /\ s.ct # Nobody
    BY DEF LiveInv, TypeOK, HistoryTypeOK, ProcessSample, Nobody, NoKey
  <2>4. Unlisted'
    BY <1>5, <2>1, <2>3 DEF ListPids, Unlisted, storeVars
  <2> QED
    BY <1>1, <2>2, <2>4 DEF LiveInv
<1>6. ASSUME NEW p \in Pids, ReuseHandle(p) PROVE LiveInv'
  <2>1. \A q \in Pids : procCache'[q].ct \in {procCache[q].ct, proc[q]}
    BY <1>6, <1>b DEF ReuseHandle, HandleType
  <2>2. \A q \in Pids : Past(q, procCache'[q].ct)
    BY <1>a, <2>1, OutcomePast
  <2> QED
    BY <1>1, <1>6, <2>2, LiveQuiet DEF Reading, InIteration, ReuseHandle
<1>7. ASSUME NEW p \in Pids, OpenHandle(p) PROVE LiveInv'
  <2>1. \A q \in Pids : procCache'[q].ct \in {procCache[q].ct, proc[q], Nobody}
    BY <1>7, <1>b DEF OpenHandle, Handle
  <2>2. \A q \in Pids : Past(q, procCache'[q].ct)
    BY <1>a, <2>1, OutcomePast
  <2> QED
    BY <1>1, <1>7, <2>2, LiveQuiet DEF Reading, InIteration, OpenHandle
<1>8. ASSUME NEW p \in Pids, NoProcess(p) PROVE LiveInv'
  <2>1. \A q \in Pids : procCache'[q].ct \in {procCache[q].ct, Nobody}
    BY <1>8, <1>b DEF NoProcess, NoHandle
  <2>2. \A q \in Pids : Past(q, procCache'[q].ct)
    BY <1>a, <2>1, OutcomePast
  <2> QED
    BY <1>1, <1>8, <2>2, LiveQuiet DEF Reading, InIteration, NoProcess
<1>9. CASE ReadName
  <2>1. \A q \in Pids : procCache'[q].ct = procCache[q].ct
    BY <1>9, <1>b DEF ReadName, HandleType
  <2>2. pc' \in {"loop", "CreateTime"} /\ UNCHANGED <<now, storeVars, proc, activePids>> /\ pc = "Name"
    BY <1>9 DEF ReadName
  <2> QED
    BY <1>1, <1>a, <2>1, <2>2, LiveQuiet DEF Reading, InIteration
<1>10. CASE ReadCreateTime
  <2>0. cur \in Pids
    BY <1>10 DEF ReadCreateTime, LiveInv, TypeOK, Control, InIteration
  <2>1. PICK ct \in IF procCache[cur].ct # Nobody THEN {procCache[cur].ct} ELSE Outcomes("CreateTime") :
          /\ procCache' = [procCache EXCEPT ![cur].ct = ct]
          /\ draft' = IF ct = Nobody THEN [NoDraft EXCEPT !.ct = scrapeNow]
                                ELSE [NoDraft EXCEPT !.ct = ct, !.ctRead = TRUE]
    BY <1>10 DEF ReadCreateTime
  <2>2. ct \in {procCache[cur].ct, proc[cur], Nobody}
    BY <2>1 DEF Outcomes
  <2>3. Past(cur, ct)
    BY <1>a, <2>0, <2>2, OutcomePast
  <2>4. \A q \in Pids : procCache'[q].ct = IF q = cur THEN ct ELSE procCache[q].ct
    BY <1>b, <2>0, <2>1 DEF HandleType
  <2>5. \A q \in Pids : Past(q, procCache'[q].ct)
    BY <1>a, <2>3, <2>4
  <2>6. draft'.ctRead => draft'.ct = ct
    BY <2>1 DEF NoDraft
  <2> QED
    BY <1>1, <1>10, <2>3, <2>5, <2>6, LiveQuiet DEF ReadCreateTime
<1>11. CASE ReadParts
  <2>1. PICK o : draft' = [draft EXCEPT !.mixed = Mixed(o)]
    BY <1>11, PartStep
  <2>2. draft'.ct = draft.ct /\ draft'.ctRead = draft.ctRead
    BY <2>1 DEF LiveInv, TypeOK, DraftType
  <2>3. draft.ctRead => Past(cur, draft.ct)
    BY <1>11, PartStep DEF LiveInv, Births
  <2> QED
    BY <1>1, <1>11, <1>a, <2>2, <2>3, PartStep, LiveQuiet DEF Reading, InIteration
<1>12. CASE ReadPercent
  <2>0. cur \in Pids
    BY <1>12 DEF ReadPercent, LiveInv, TypeOK, Control, InIteration
  <2>1. \A q \in Pids : procCache'[q].ct = procCache[q].ct
    BY <1>12, <1>b DEF ReadPercent, HandleType
  <2>2. draft'.ct = draft.ct /\ draft'.ctRead = draft.ctRead
    BY <1>12 DEF ReadPercent, LiveInv, TypeOK, DraftType
  <2>3. draft.ctRead => Past(cur, draft.ct)
    BY <1>12 DEF ReadPercent, LiveInv, Births, Reading, InIteration
  <2> QED
    BY <1>1, <1>12, <1>a, <2>1, <2>2, <2>3, LiveQuiet DEF ReadPercent
<1>13. CASE Record
  <2>1. PICK x \in ProcessSample :
          /\ x.pid = cur /\ x.ct = draft.ct /\ x.ctRead = draft.ctRead /\ x.active
          /\ AddSample(x)
    BY <1>13, RecordAdds DEF LiveInv
  <2>2. \A s \in processes' : s \in processes \/ s = x
    BY <2>1, AddSampleSamples
  <2>3. /\ UNCHANGED <<now, proc, procCache, activePids>> /\ pc = "PodUID" /\ pc' = "loop"
        /\ cur \in activePids
    BY <1>13 DEF Record, LiveInv, Control, InIteration
  <2>4. x.ctRead => Past(x.pid, x.ct)
    BY <2>1, <2>3 DEF Reading, InIteration, LiveInv, Births
  <2>5. Births'
    BY <2>2, <2>3, <2>4 DEF Reading, InIteration, LiveInv, Births, Past
  <2>6. Unlisted'
    BY <2>1, <2>2, <2>3 DEF LiveInv, Unlisted
  <2>7. LiveNeverInactive'
    BY <2>1, <2>2, <2>3 DEF LiveInv, LiveNeverInactive, QueryHistoryByPid
  <2> QED
    BY <1>1, <2>5, <2>6, <2>7 DEF LiveInv
<1>14. CASE FinishScrape
  <2>1. MarkInactive(activePids) /\ HistoryTypeOK
    BY <1>14 DEF FinishScrape, LiveInv, TypeOK
  <2>2. /\ UNCHANGED <<now, proc>> /\ pc = "loop" /\ pc' = "idle"
        /\ \A p \in Pids : procCache'[p].ct \in {procCache[p].ct, Nobody}
    BY <1>14 DEF FinishScrape, NoHandle
  <2>3. ASSUME NEW s \in processes', s.ctRead
        PROVE  /\ Past(s.pid, s.ct) /\ s.pid \in Pids
               /\ ~s.active => proc[s.pid] # s.ct
    <3>1. PICK u \in processes : s = Flip(u, activePids)
      BY <2>1, MarkInactiveSamples
    <3>2. /\ u \in ProcessSample /\ s.pid = u.pid /\ s.ct = u.ct /\ s.ctRead = u.ctRead
          /\ u.pid \in activePids => s = u
      BY <2>1, <3>1, FlipKeeps DEF HistoryTypeOK
    <3>3. s.pid \in Pids /\ Past(s.pid, s.ct)
      BY <2>3, <3>2 DEF LiveInv, Births, ProcessSample
    <3>4. s.pid \notin activePids => proc[s.pid] # s.ct
      BY <2>2, <2>3, <3>2 DEF LiveInv, Unlisted
    <3>5. s.pid \in activePids /\ ~s.active => proc[s.pid] # s.ct
      BY <2>3, <3>2, <3>3 DEF LiveInv, LiveNeverInactive, QueryHistoryByPid
    <3> QED
      BY <3>3, <3>4, <3>5
  <2>4. \A p \in Pids : Past(p, procCache'[p].ct)
    BY <1>a, <2>2, OutcomePast
  <2>5. Births'
    BY <2>2, <2>3, <2>4 DEF Reading, InIteration, LiveInv, Births, Past
  <2>6. Unlisted' /\ LiveNeverInactive'
    BY <2>2, <2>3 DEF Unlisted, LiveNeverInactive, QueryHistoryByPid
  <2> QED
    BY <1>1, <2>5, <2>6 DEF LiveInv
<1>15. CASE UNCHANGED vars
  BY <1>1, <1>15 DEF vars, scrapeVars, LiveInv, Births, Past, Unlisted, LiveNeverInactive,
     QueryHistoryByPid
<1> QED
  BY <1>2, <1>3, <1>4, <1>5, <1>6, <1>7, <1>8, <1>9, <1>10, <1>11, <1>12, <1>13, <1>14, <1>15
     DEF Next, Horizon

\* No sample of a process that is still running is ever marked inactive,
\* although MarkInactive works from a listing that may be stale by then
\* (main.go:432-547), for any number of pids and any pattern of failures.
THEOREM LiveNeverMarked == Spec => []LiveNeverInactive
<1>1. LiveInv => LiveNeverInactive
  BY DEF LiveInv
<1> QED
  BY <1>1, InitLive, LiveStep, PTL DEF Spec

-----------------------------------------------------------------------------
(* The history: what is kept, how it changes, what stays marked active *)

\* A scrape stamps its samples with a time of the clock.
Stamped == \A s \in processes : s.ts >= 1

\* A timeline that ends in an active sample although its pid has another key,
\* or none, is older than another timeline of the pid, or has expired and goes
\* at the end of the scrape under way.
StaleKnown ==
    \A s \in processes :
        (s.active /\ IsLast(s, Timeline(s.pid, s.ct)) /\ activeKeys[s.pid] # s.ct)
            => \/ \E u \in processes : u.pid = s.pid /\ u.ct # s.ct /\ u.ts > s.ts
               \/ pc # "idle" /\ ~Fresh(s)

HistoryInv == StoreInv /\ Stamped /\ WithinRetention /\ StaleKnown

\* A store without samples.
LEMMA InitHistory == Init => HistoryInv
BY InitStore DEF Init, NewHistoryStore, HistoryInv, Stamped, WithinRetention, StaleKnown,
   QueryHistoryByPid

\* A step that leaves the store alone, ends no scrape, and at most lets time
\* pass or fails to list the pids.
LEMMA HistoryQuiet ==
    ASSUME HistoryInv, StoreInv', UNCHANGED storeVars, now <= now',
           pc' = "idle" => pc = "idle" /\ ended' \in {ended, 0}
    PROVE  HistoryInv'
<1> USE DEF HistoryInv, storeVars
<1>1. /\ now \in Nat /\ now' \in Nat /\ ended \in Nat
      /\ \A s \in processes : s.ts \in Nat /\ s.pid \in Pids
  BY DEF StoreInv, TypeOK, HistoryTypeOK, ProcessSample
<1>2. Stamped'
  BY DEF Stamped
<1>3. WithinRetention'
  BY <1>1, RetentionAssumption DEF WithinRetention, QueryHistoryByPid, Stamped
<1>4. StaleKnown'
  BY <1>1, RetentionAssumption DEF StaleKnown, IsLast, Timeline, Fresh
<1> QED
  BY <1>2, <1>3, <1>4

\* The new sample supersedes the other timelines of its pid, or has expired and
\* they with it.
LEMMA HistoryRecord == HistoryInv /\ StoreInv' /\ Record => HistoryInv'
<1> SUFFICES ASSUME HistoryInv, StoreInv', Record PROVE HistoryInv'
  OBVIOUS
<1>1. TypeOK /\ Control /\ OneStampPerPid
  BY DEF HistoryInv, StoreInv
<1>2. PICK x \in ProcessSample :
        /\ x.ts = scrapeNow /\ x.pid = cur /\ x.active
        /\ AddSample(x)
  BY <1>1, RecordAdds
<1>3. /\ \A s \in processes' : s \in processes \/ s = x
      /\ Fresh(x) => x \in processes'
  BY <1>2, AddSampleSamples
<1>4. /\ pc = "PodUID" /\ pc' = "loop" /\ now' = now /\ now \in Nat /\ cur \in Pids
      /\ scrapeNow \in Nat /\ scrapeNow >= 1
      /\ \A s \in processes : s \in ProcessSample /\ s.ts \in Nat /\ (s.pid = cur => s.ts < scrapeNow)
  BY <1>1 DEF Record, TypeOK, HistoryTypeOK, Control, OneStampPerPid, InIteration, ProcessSample
<1>5. Stamped'
  BY <1>2, <1>3, <1>4 DEF HistoryInv, Stamped
<1>6. WithinRetention'
  BY <1>4 DEF WithinRetention
<1>7. ASSUME NEW s \in processes', s.active, IsLast(s, Timeline(s.pid, s.ct)'),
             activeKeys'[s.pid] # s.ct
      PROVE  \/ \E u \in processes' : u.pid = s.pid /\ u.ct # s.ct /\ u.ts > s.ts
             \/ ~Fresh(s)
  <2>1. CASE s.pid = cur
    <3>1. s.ct # x.ct
      BY <1>1, <1>2, <1>4, <1>7, <2>1 DEF AddSample, TypeOK, HistoryTypeOK
    <3>2. s \in processes /\ s.ts < x.ts
      BY <1>2, <1>3, <1>4, <2>1, <3>1
    <3>3. CASE Fresh(x)
      BY <1>2, <1>3, <2>1, <3>1, <3>2, <3>3
    <3>4. CASE ~Fresh(x)
      BY <1>2, <1>4, <3>2, <3>4, RetentionAssumption DEF Fresh
    <3> QED
      BY <3>3, <3>4
  <2>2. CASE s.pid # cur
    <3>1. \A u : u.pid = s.pid => (u \in processes' <=> u \in processes)
      BY <1>2, <2>2 DEF AddSample, pruneExpiredSamples
    <3>2. activeKeys[s.pid] # s.ct
      BY <1>1, <1>2, <1>3, <1>4, <1>7, <2>2 DEF AddSample, TypeOK, HistoryTypeOK, ProcessSample
    <3>3. s \in processes /\ IsLast(s, Timeline(s.pid, s.ct))
      BY <1>7, <3>1 DEF IsLast, Timeline
    <3> QED
      BY <1>7, <3>1, <3>2, <3>3 DEF HistoryInv, StaleKnown
  <2> QED
    BY <2>1, <2>2
<1>8. StaleKnown'
  BY <1>4, <1>7 DEF StaleKnown, IsLast, Timeline, Fresh
<1> QED
  BY <1>5, <1>6, <1>8 DEF HistoryInv

\* The last sample of the key that is dropped is marked; a timeline that is
\* superseded stays so, since the newer sample expires later.
LEMMA HistoryFinish == HistoryInv /\ StoreInv' /\ FinishScrape => HistoryInv'
<1> SUFFICES ASSUME HistoryInv, StoreInv', FinishScrape PROVE HistoryInv'
  OBVIOUS
<1>1. /\ MarkInactive(activePids) /\ HistoryTypeOK
      /\ pc' = "idle" /\ ended' = now /\ now' = now /\ now \in Nat
  BY DEF FinishScrape, HistoryInv, StoreInv, TypeOK, HistoryTypeOK
<1>2. \A s \in processes' : \E u \in processes : s = Flip(u, activePids) /\ Fresh(u)
  BY <1>1, MarkInactiveSamples
<1>3. \A u \in processes :
        /\ u \in ProcessSample /\ u.ts \in Nat /\ u.pid \in Pids
        /\ Flip(u, activePids).pid = u.pid /\ Flip(u, activePids).ct = u.ct
        /\ Flip(u, activePids).ts = u.ts
  BY <1>1, FlipKeeps DEF HistoryTypeOK, ProcessSample
<1>4. \A u \in processes : Fresh(u) => Flip(u, activePids) \in processes'
  BY <1>1, <1>3 DEF MarkInactive, pruneAll, Fresh
<1>5. Stamped'
  BY <1>2, <1>3 DEF HistoryInv, Stamped
<1>6. WithinRetention'
  BY <1>1, <1>2, <1>3 DEF WithinRetention, QueryHistoryByPid, Fresh
<1>7. ASSUME NEW s \in processes', s.active, IsLast(s, Timeline(s.pid, s.ct)'),
             activeKeys'[s.pid] # s.ct
      PROVE  \E u \in processes' : u.pid = s.pid /\ u.ct # s.ct /\ u.ts > s.ts
  <2>1. PICK w \in processes : s = Flip(w, activePids) /\ Fresh(w)
    BY <1>2
  <2>2. s.pid = w.pid /\ s.ct = w.ct /\ s.ts = w.ts
    BY <1>3, <2>1
  <2>3. IsLast(w, Timeline(w.pid, w.ct))
    <3> SUFFICES ASSUME NEW v \in processes, v.pid = w.pid, v.ct = w.ct, v.ts > w.ts PROVE FALSE
      BY <1>3 DEF IsLast, Timeline
    <3>1. Fresh(v)
      BY <1>1, <1>3, <2>1, RetentionAssumption DEF Fresh
    <3>2. Flip(v, activePids) \in Timeline(s.pid, s.ct)'
      BY <1>3, <1>4, <2>2, <3>1 DEF Timeline
    <3> QED
      BY <1>3, <1>7, <2>2, <3>2 DEF IsLast
  <2>4. w.active
    BY <1>7, <2>1, <1>3 DEF Flip, ProcessSample
  <2>5. activeKeys[w.pid] # w.ct
    <3>1. CASE w.pid \in activePids
      BY <1>1, <1>3, <1>7, <2>2, <3>1 DEF MarkInactive
    <3>2. CASE w.pid \notin activePids
      <4>1. activeKeys[w.pid] = w.ct => s = [w EXCEPT !.active = FALSE]
        BY <2>1, <2>3, <3>2 DEF Flip
      <4> QED
        BY <1>3, <1>7, <4>1 DEF ProcessSample
    <3> QED
      BY <3>1, <3>2
  <2>6. PICK u \in processes : u.pid = w.pid /\ u.ct # w.ct /\ u.ts > w.ts
    BY <2>1, <2>3, <2>4, <2>5 DEF HistoryInv, StaleKnown
  <2>7. Fresh(u)
    BY <1>1, <1>3, <2>1, <2>6, RetentionAssumption DEF Fresh
  <2> QED
    BY <1>3, <1>4, <2>2, <2>6, <2>7
<1>8. StaleKnown'
  BY <1>7 DEF StaleKnown, IsLast, Timeline
<1> QED
  BY <1>5, <1>6, <1>8 DEF HistoryInv

\* All other steps leave the store alone.
LEMMA OnlyWriters ==
    ASSUME [Next]_vars, ~Record, ~FinishScrape, TypeOK
    PROVE  /\ UNCHANGED storeVars /\ now <= now'
           /\ pc' = "idle" => pc = "idle" /\ ended' \in {ended, 0}
<1> USE DEF TypeOK, HistoryTypeOK, storeVars, scrapeVars
<1>1. CASE Tick \/ PidsFail \/ ListPids \/ UNCHANGED vars
  BY <1>1 DEF Tick, PidsFail, ListPids, vars
<1>2. ASSUME NEW p \in Pids, Spawn(p) \/ Exit(p)
      PROVE  UNCHANGED <<storeVars, now, pc, ended>>
  BY <1>2 DEF Spawn, Exit
<1>3. ASSUME NEW p \in Pids, ReuseHandle(p) \/ OpenHandle(p) \/ NoProcess(p)
      PROVE  UNCHANGED <<storeVars, now>> /\ pc' # "idle"
  BY <1>3 DEF ReuseHandle, OpenHandle, NoProcess
<1>4. CASE ReadName
  <2>1. UNCHANGED <<storeVars, now>> /\ pc' \in {"loop", "CreateTime"}
    BY <1>4 DEF ReadName
  <2> QED
    BY <2>1
<1>5. CASE ReadCreateTime
  <2>1. UNCHANGED <<storeVars, now>> /\ pc' = "Cmdline"
    BY <1>5 DEF ReadCreateTime
  <2> QED
    BY <2>1
<1>6. CASE ReadPercent
  <2>1. UNCHANGED <<storeVars, now>> /\ pc' = "Times"
    BY <1>6 DEF ReadPercent
  <2> QED
    BY <2>1
<1>7. CASE ReadParts
  BY <1>7, PartStep DEF Reading, InIteration
<1> QED
  BY <1>1, <1>2, <1>3, <1>4, <1>5, <1>6, <1>7 DEF Next, Horizon

\* One case per writer of the store.
LEMMA HistoryStep == HistoryInv /\ [Next]_vars => HistoryInv'
<1> SUFFICES ASSUME HistoryInv, [Next]_vars PROVE HistoryInv'
  OBVIOUS
<1>1. StoreInv' /\ TypeOK
  BY StoreStep DEF HistoryInv, StoreInv
<1>2. CASE Record
  BY <1>1, <1>2, HistoryRecord
<1>3. CASE FinishScrape
  BY <1>1, <1>3, HistoryFinish
<1>4. CASE ~Record /\ ~FinishScrape
  BY <1>1, <1>4, OnlyWriters, HistoryQuiet
<1> QED
  BY <1>2, <1>3, <1>4

\* A scrape that could list the pids leaves nothing older than the retention,
\* however long it took (history.go:159-176).
THEOREM RetentionKept == Spec => []WithinRetention
<1>1. HistoryInv => WithinRetention
  BY DEF HistoryInv
<1> QED
  BY <1>1, InitHistory, HistoryStep, PTL DEF Spec

\* A timeline escapes MarkInactive only when a newer one of the same pid has
\* taken its place (history.go:62, 72-81).
THEOREM StaleSuperseded == Spec => []StaleActiveIsSuperseded
<1>1. HistoryInv => StaleActiveIsSuperseded
  BY DEF HistoryInv, StaleKnown, StaleActiveIsSuperseded, QueryHistoryByPid
<1> QED
  BY <1>1, InitHistory, HistoryStep, PTL DEF Spec

\* What one step may do to the history.
Appends ==
    /\ \A s \in processes' \ processes :
         \/ s.ts = scrapeNow /\ s.active
         \/ ~s.active /\ [s EXCEPT !.active = TRUE] \in processes
    /\ \A s, t \in processes' \ processes : (s.active /\ t.active) => s = t

\* Record adds its sample; FinishScrape only drops and marks.
LEMMA AppendsStep == StoreInv /\ [Next]_vars => [Appends]_vars
<1> SUFFICES ASSUME StoreInv, [Next]_vars PROVE Appends
  OBVIOUS
<1>1. TypeOK /\ Control
  BY DEF StoreInv
<1>2. CASE Record
  <2>1. PICK x \in ProcessSample : x.ts = scrapeNow /\ x.active /\ AddSample(x)
    BY <1>1, <1>2, RecordAdds
  <2>2. \A s \in processes' : s \in processes \/ s = x
    BY <2>1, AddSampleSamples
  <2> QED
    BY <2>1, <2>2 DEF Appends
<1>3. CASE FinishScrape
  <2>1. MarkInactive(activePids) /\ HistoryTypeOK
    BY <1>1, <1>3 DEF FinishScrape, TypeOK
  <2>2. ASSUME NEW s \in processes', s \notin processes
        PROVE  ~s.active /\ [s EXCEPT !.active = TRUE] \in processes
    <3>1. PICK u \in processes : s = Flip(u, activePids)
      BY <2>1, MarkInactiveSamples
    <3>2. u \in ProcessSample /\ s = [u EXCEPT !.active = FALSE]
      BY <2>1, <2>2, <3>1 DEF Flip, HistoryTypeOK
    <3>3. u.active
      BY <2>2, <3>2 DEF ProcessSample
    <3>4. [s EXCEPT !.active = TRUE] = u
      BY <3>2, <3>3 DEF ProcessSample
    <3> QED
      BY <3>2, <3>4 DEF ProcessSample
  <2> QED
    BY <2>2 DEF Appends
<1>4. CASE ~Record /\ ~FinishScrape
  BY <1>1, <1>4, OnlyWriters DEF storeVars, Appends
<1> QED
  BY <1>2, <1>3, <1>4

\* No step rewrites or revives a sample (history.go:56-86).
THEOREM AppendOnly == Spec => HistoryIsAppendOnly
<1>1. [Appends]_vars <=> [ /\ \A s \in processes' \ processes :
                                \/ s.ts = scrapeNow /\ s.active
                                \/ ~s.active /\ [s EXCEPT !.active = TRUE] \in processes
                           /\ \A s, t \in processes' \ processes : (s.active /\ t.active) => s = t ]_vars
  BY DEF Appends
<1> QED
  BY <1>1, InitStore, StoreStep, AppendsStep, PTL DEF Spec, HistoryIsAppendOnly

-----------------------------------------------------------------------------
(* Handles opened with their create time *)

\* The process born at b held pid p and has ended.
Dead(p, b) == IF proc[p] = Nobody THEN b < now ELSE b < proc[p]

\* What a pinned handle caches is of its own process, or that one has ended;
\* what an iteration works with is its own, or the process has ended meanwhile.
HandleOwn ==
    /\ \A p \in Pids :
         LET h == procCache[p]
         IN  h.pinned => /\ h.ct # Nobody
                         /\ {h.name, h.base} \subseteq {Nobody, h.ct} \/ Dead(p, h.ct)
    /\ LET h == procCache[cur]
       IN  /\ (pc \in {"Name", "CreateTime", "Cmdline", "Percent"} /\ h.pinned) =>
                  h.base \in {Nobody, h.ct}
           /\ (pc \in Reading /\ h.pinned) =>
                  /\ draft.ct = h.ct
                  /\ draft.base \in {Nobody, h.ct}
                  /\ (draft.mixed \/ draft.cpu \notin {Nobody, h.ct}) => Dead(cur, h.ct)

OwnInv == LiveInv /\ HandleOwn /\ OwnBaseline

LEMMA InitOwn == Init => OwnInv
BY InitLive DEF Init, NewHistoryStore, OwnInv, HandleOwn, OwnBaseline, NoHandle, Reading, InIteration

\* A process that has ended does not hold its pid again.
LEMMA DeadStays ==
    ASSUME LiveInv, [Next]_vars, NEW p \in Pids, NEW b \in Nat, b # Nobody, Dead(p, b)
    PROVE  Dead(p, b)' /\ proc[p] # b
<1> USE DEF LiveInv, TypeOK, HistoryTypeOK, Births, Dead, Nobody
<1>1. CASE Tick
  BY <1>1 DEF Tick
<1>2. ASSUME NEW q \in Pids, Spawn(q) \/ Exit(q) PROVE Dead(p, b)'
  BY <1>2 DEF Spawn, Exit
<1>3. CASE UNCHANGED <<now, proc>>
  BY <1>3
<1>4. CASE UNCHANGED vars
  BY <1>3, <1>4 DEF vars
<1>5. CASE ReadName \/ ReadCreateTime \/ ReadParts \/ ReadPercent \/ Record \/ FinishScrape
  BY <1>3, <1>5, PartStep DEF ReadName, ReadCreateTime, ReadPercent, Record, FinishScrape
<1>6. CASE PidsFail \/ ListPids \/ \E q \in Pids : ReuseHandle(q) \/ OpenHandle(q) \/ NoProcess(q)
  BY <1>3, <1>6 DEF PidsFail, ListPids, ReuseHandle, OpenHandle, NoProcess
<1>7. proc[p] # b
  OBVIOUS
<1> QED
  BY <1>1, <1>2, <1>4, <1>5, <1>6, <1>7 DEF Next, Horizon

\* A read that returns another process's data finds the handle's own one ended.
LEMMA OtherMeansDead ==
    ASSUME LiveInv, NEW p \in Pids, NEW b \in Nat, Past(p, b), b # Nobody,
           proc[p] \notin {Nobody, b}
    PROVE  Dead(p, b)
BY DEF LiveInv, TypeOK, Past, Dead, Nobody

\* Every step keeps what a pinned handle and the iteration hold their own.
LEMMA HandleStep ==
    ASSUME OwnInv, [Next]_vars
    PROVE  HandleOwn'
<1> USE DEF Nobody
<1>0. LiveInv /\ TypeOK /\ Control /\ HandleOwn
  BY DEF OwnInv, LiveInv
<1>a. procCache \in [Pids -> HandleType] /\ proc \in [Pids -> Nat] /\ draft \in DraftType
  BY <1>0 DEF TypeOK
<1>b. \A p \in Pids : procCache[p].ct \in Nat /\ Past(p, procCache[p].ct)
  BY <1>0, <1>a DEF LiveInv, Births, HandleType
<1>c. pc \in InIteration => cur \in Pids
  BY <1>0 DEF TypeOK, Control
<1>d. ASSUME NEW p \in Pids, NEW b \in Nat, procCache[p].pinned, b = procCache[p].ct, Dead(p, b)
      PROVE  Dead(p, b)'
  BY <1>0, <1>d, DeadStays DEF HandleOwn
<1>1. CASE Tick \/ \E p \in Pids : Spawn(p) \/ Exit(p)
  <2>1. UNCHANGED <<procCache, pc, cur, draft>>
    BY <1>1 DEF Tick, Spawn, Exit, scrapeVars
  <2>2. ASSUME NEW p \in Pids, procCache[p].pinned, Dead(p, procCache[p].ct)
        PROVE  Dead(p, procCache[p].ct)'
    BY <1>b, <1>d, <2>1, <2>2 DEF Dead
  <2>3. pc \in Reading => cur \in Pids
    BY <1>c DEF Reading
  <2> QED
    BY <1>0, <2>1, <2>2, <2>3 DEF HandleOwn
<1>2. CASE PidsFail \/ ListPids \/ UNCHANGED vars
  <2>1. UNCHANGED <<procCache, proc, now>>
    BY <1>2 DEF PidsFail, ListPids, vars, scrapeVars
  <2>2. \/ UNCHANGED <<pc, cur, draft>>
        \/ pc' = "loop"
    BY <1>2 DEF PidsFail, ListPids, vars, scrapeVars
  <2> QED
    BY <1>0, <2>1, <2>2 DEF HandleOwn, Dead, Reading, InIteration
<1>3. ASSUME NEW p \in Pids, ReuseHandle(p) PROVE HandleOwn'
  <2> DEFINE h == procCache[p]
  <2>1. /\ proc[p] # Nobody /\ h.ct \in {Nobody, proc[p]}
        /\ pc' = "Name" /\ cur' = p /\ UNCHANGED <<now, proc>>
    BY <1>3 DEF ReuseHandle, IsRunning
  <2>2. /\ \A q \in Pids \ {p} : procCache'[q] = procCache[q]
        /\ procCache'[p].ct = proc[p]
        /\ procCache'[p].pinned = h.pinned /\ procCache'[p].name = h.name
        /\ procCache'[p].base = h.base
    BY <1>3, <1>a, <2>1 DEF ReuseHandle, HandleType
  <2>3. ~Dead(p, proc[p])
    BY <1>a, <2>1 DEF Dead
  <2>4. h.pinned => h.ct = proc[p] /\ {h.name, h.base} \subseteq {Nobody, h.ct}
    BY <1>0, <2>1, <2>3 DEF HandleOwn
  <2> HIDE DEF h
  <2> QED
    BY <1>0, <2>1, <2>2, <2>4 DEF HandleOwn, Dead, Reading, InIteration
<1>4. ASSUME NEW p \in Pids, OpenHandle(p) PROVE HandleOwn'
  <2>1. pc' = "Name" /\ cur' = p /\ UNCHANGED <<now, proc>>
    BY <1>4 DEF OpenHandle
  <2>2. PICK ct : procCache' = [procCache EXCEPT ![p] = Handle(ct, Nobody)]
    BY <1>4 DEF OpenHandle
  <2>3. /\ \A q \in Pids \ {p} : procCache'[q] = procCache[q]
        /\ procCache'[p] = Handle(ct, Nobody)
    BY <1>a, <2>2
  <2>4. /\ Handle(ct, Nobody).pinned => Handle(ct, Nobody).ct # Nobody
        /\ Handle(ct, Nobody).name = Nobody /\ Handle(ct, Nobody).base = Nobody
    BY DEF Handle
  <2> QED
    BY <1>0, <2>1, <2>3, <2>4 DEF HandleOwn, Dead, Reading, InIteration
<1>5. ASSUME NEW p \in Pids, NoProcess(p) PROVE HandleOwn'
  <2>1. UNCHANGED <<now, proc, pc>> /\ pc = "loop"
    BY <1>5 DEF NoProcess
  <2>2. \A q \in Pids : procCache'[q] \in {procCache[q], NoHandle}
    BY <1>5, <1>a DEF NoProcess
  <2> QED
    BY <1>0, <2>1, <2>2 DEF HandleOwn, NoHandle, Dead, Reading, InIteration
<1>6. CASE ReadName
  <2>1. PICK n \in IF procCache[cur].name # Nobody THEN {procCache[cur].name} ELSE Outcomes("Name") :
          /\ procCache' = [procCache EXCEPT ![cur].name = n]
          /\ IF n = Nobody THEN pc' = "loop" /\ cur' = NoPid
                           ELSE pc' = "CreateTime" /\ cur' = cur
    BY <1>6 DEF ReadName
  <2>2. cur \in Pids /\ pc = "Name" /\ UNCHANGED <<now, proc>>
    BY <1>6, <1>c DEF ReadName, InIteration
  <2>3. /\ \A q \in Pids \ {cur} : procCache'[q] = procCache[q]
        /\ LET h == procCache[cur]
           IN  /\ procCache'[cur].name = n /\ procCache'[cur].ct = h.ct
               /\ procCache'[cur].base = h.base /\ procCache'[cur].pinned = h.pinned
    BY <1>a, <2>1, <2>2 DEF HandleType
  <2>4. n \in {procCache[cur].name, proc[cur], Nobody}
    BY <2>1 DEF Outcomes
  <2>5. procCache[cur].pinned => n \in {Nobody, procCache[cur].ct} \/ Dead(cur, procCache[cur].ct)
    BY <1>0, <1>b, <2>2, <2>4, OtherMeansDead DEF HandleOwn
  <2>6. pc' \in {"loop", "CreateTime"} /\ (pc' = "CreateTime" => cur' = cur)
    BY <2>1
  <2>7. procCache[cur].pinned => procCache[cur].base \in {Nobody, procCache[cur].ct}
    BY <1>0, <2>2 DEF HandleOwn
  <2> QED
    BY <1>0, <2>2, <2>3, <2>5, <2>6, <2>7 DEF HandleOwn, Dead, Reading, InIteration
<1>7. CASE ReadCreateTime
  <2>1. PICK ct \in IF procCache[cur].ct # Nobody THEN {procCache[cur].ct} ELSE Outcomes("CreateTime") :
          /\ procCache' = [procCache EXCEPT ![cur].ct = ct]
          /\ draft' = IF ct = Nobody THEN [NoDraft EXCEPT !.ct = scrapeNow]
                                ELSE [NoDraft EXCEPT !.ct = ct, !.ctRead = TRUE]
    BY <1>7 DEF ReadCreateTime
  <2>2. cur \in Pids /\ pc = "CreateTime" /\ pc' = "Cmdline" /\ UNCHANGED <<now, proc, cur>>
    BY <1>7, <1>c DEF ReadCreateTime, InIteration
  <2>3. /\ \A q \in Pids \ {cur} : procCache'[q] = procCache[q]
        /\ LET h == procCache[cur]
           IN  /\ procCache'[cur].name = h.name /\ procCache'[cur].ct = ct
               /\ procCache'[cur].base = h.base /\ procCache'[cur].pinned = h.pinned
    BY <1>a, <2>1, <2>2 DEF HandleType
  <2>4. procCache[cur].pinned => ct = procCache[cur].ct /\ ct # Nobody
    BY <1>0, <2>1, <2>2 DEF HandleOwn
  <2>5. /\ draft'.base = Nobody /\ draft'.cpu = Nobody /\ draft'.mixed = FALSE
        /\ ct # Nobody => draft'.ct = ct
    BY <2>1 DEF NoDraft
  <2>6. procCache[cur].pinned => procCache[cur].base \in {Nobody, procCache[cur].ct}
    BY <1>0, <2>2 DEF HandleOwn
  <2> QED
    BY <1>0, <2>2, <2>3, <2>4, <2>5, <2>6 DEF HandleOwn, Dead
<1>8. CASE ReadParts
  <2>1. PICK o \in {Nobody, proc[cur]} : draft' = [draft EXCEPT !.mixed = Mixed(o)]
    BY <1>8, PartStep
  <2>2. /\ pc \in Reading /\ pc' \in Reading /\ cur \in Pids /\ UNCHANGED <<now, proc, cur, procCache>>
        /\ pc' \notin {"Name", "CreateTime", "Cmdline"}
        /\ pc' = "Percent" <=> pc = "Cmdline"
    BY <1>8, <1>c, PartStep DEF Reading
  <2>3. /\ draft'.ct = draft.ct /\ draft'.base = draft.base /\ draft'.cpu = draft.cpu
        /\ draft'.mixed = (draft.mixed \/ o \notin {Nobody, draft.ct})
    BY <1>a, <2>1 DEF DraftType, Mixed
  <2>4. ASSUME procCache[cur].pinned, draft'.mixed \/ draft'.cpu \notin {Nobody, procCache[cur].ct}
        PROVE  Dead(cur, procCache[cur].ct)
    BY <1>0, <1>b, <2>1, <2>2, <2>3, <2>4, OtherMeansDead DEF HandleOwn
  <2> QED
    BY <1>0, <2>2, <2>3, <2>4 DEF HandleOwn, Dead
<1>9. CASE ReadPercent
  <2>1. PICK o \in Outcomes("Percent") :
          IF o = Nobody
          THEN UNCHANGED <<draft, procCache>>
          ELSE /\ draft' = [draft EXCEPT !.cpu = o, !.base = procCache[cur].base]
               /\ procCache' = [procCache EXCEPT ![cur].base = o]
    BY <1>9 DEF ReadPercent
  <2>2. cur \in Pids /\ pc = "Percent" /\ pc' = "Times" /\ UNCHANGED <<now, proc, cur>>
    BY <1>9, <1>c DEF ReadPercent, InIteration
  <2>3. pc \in Reading /\ pc' \in Reading
    BY <2>2 DEF Reading, InIteration
  <2>4. CASE o = Nobody
    <3>1. UNCHANGED <<draft, procCache>>
      BY <2>1, <2>4
    <3> QED
      BY <1>0, <2>2, <2>3, <3>1 DEF HandleOwn, Dead
  <2>5. CASE o # Nobody
    <3>1. o = proc[cur]
      BY <2>5 DEF Outcomes
    <3>2. /\ \A q \in Pids \ {cur} : procCache'[q] = procCache[q]
          /\ LET h == procCache[cur]
             IN  /\ procCache'[cur].name = h.name /\ procCache'[cur].ct = h.ct
                 /\ procCache'[cur].base = o /\ procCache'[cur].pinned = h.pinned
      BY <1>a, <2>1, <2>2, <2>5 DEF HandleType
    <3>3. /\ draft'.ct = draft.ct /\ draft'.mixed = draft.mixed
          /\ draft'.cpu = o /\ draft'.base = procCache[cur].base
      BY <1>a, <2>1, <2>5 DEF DraftType
    <3>4. procCache[cur].pinned => o = procCache[cur].ct \/ Dead(cur, procCache[cur].ct)
      BY <1>0, <1>b, <2>2, <2>5, <3>1, OtherMeansDead DEF HandleOwn
    <3>5. procCache[cur].pinned => procCache[cur].base \in {Nobody, procCache[cur].ct}
      BY <1>0, <2>2 DEF HandleOwn
    <3> QED
      BY <1>0, <2>2, <2>3, <3>2, <3>3, <3>4, <3>5 DEF HandleOwn, Dead
  <2> QED
    BY <2>4, <2>5
<1>10. CASE Record
  <2>1. pc' = "loop" /\ UNCHANGED <<now, proc, procCache>>
    BY <1>10 DEF Record
  <2> QED
    BY <1>0, <2>1 DEF HandleOwn, Dead, Reading, InIteration
<1>11. CASE FinishScrape
  <2>1. UNCHANGED <<now, proc>> /\ pc' = "idle"
    BY <1>11 DEF FinishScrape
  <2>2. \A q \in Pids : procCache'[q] \in {procCache[q], NoHandle}
    BY <1>11 DEF FinishScrape
  <2> QED
    BY <1>0, <2>1, <2>2 DEF HandleOwn, NoHandle, Dead, Reading, InIteration
<1> QED
  BY <1>1, <1>2, <1>3, <1>4, <1>5, <1>6, <1>7, <1>8, <1>9, <1>10, <1>11 DEF Next, Horizon

\* The sample Record adds through a pinned handle.
LEMMA RecordOwn ==
    ASSUME OwnInv, Record
    PROVE  /\ cur \in Pids /\ pc \in Reading /\ pc' = "loop" /\ UNCHANGED <<now, proc>>
           /\ \E t : /\ \A s \in processes' : s \in processes \/ s = t
                     /\ t.pid = cur /\ t.pinned = procCache[cur].pinned
                     /\ t.pinned => /\ t.ct = procCache[cur].ct
                                    /\ t.base \in {Nobody, t.ct}
                                    /\ Foreign(t) => Dead(cur, t.ct)
<1> USE DEF Nobody
<1>1. LiveInv /\ TypeOK /\ Control /\ HandleOwn
  BY DEF OwnInv, LiveInv
<1>2. cur \in Pids /\ pc \in Reading /\ pc' = "loop" /\ UNCHANGED <<now, proc>>
  BY <1>1 DEF Record, TypeOK, Control, Reading, InIteration
<1>3. PICK o \in Outcomes("PodUID") : AddSample(Sample(scrapeNow, o))
  BY DEF Record
<1> DEFINE t == Sample(scrapeNow, o)
           h == procCache[cur]
<1>4. \A s \in processes' : s \in processes \/ s = t
  BY <1>3, AddSampleSamples
<1>5. /\ t.pid = cur /\ t.pinned = h.pinned /\ t.ct = draft.ct /\ t.base = draft.base
      /\ t.name = h.name /\ t.cpu = draft.cpu
      /\ t.mixed = (draft.mixed \/ o \notin {Nobody, draft.ct})
  BY DEF Sample, Mixed
<1>6. ASSUME h.pinned
      PROVE  t.ct = h.ct /\ t.base \in {Nobody, t.ct} /\ h.ct \in Nat /\ h.ct # Nobody /\ Past(cur, h.ct)
  BY <1>1, <1>2, <1>5, <1>6 DEF HandleOwn, TypeOK, HandleType, LiveInv, Births
<1> HIDE DEF t
<1>7. ASSUME h.pinned, Foreign(t) PROVE Dead(cur, t.ct)
  <2>1. t.mixed \/ t.name \notin {Nobody, t.ct} \/ t.cpu \notin {Nobody, t.ct}
    BY <1>6, <1>7 DEF Foreign
  <2>2. CASE t.name \notin {Nobody, t.ct}
    BY <1>1, <1>2, <1>5, <1>6, <1>7, <2>2 DEF HandleOwn
  <2>3. CASE draft.mixed \/ draft.cpu \notin {Nobody, h.ct}
    BY <1>1, <1>2, <1>6, <1>7, <2>3 DEF HandleOwn
  <2>4. CASE o \notin {Nobody, draft.ct}
    <3>1. o = proc[cur] /\ draft.ct = h.ct
      BY <1>1, <1>2, <1>3, <1>7, <2>4 DEF Outcomes, HandleOwn
    <3> QED
      BY <1>1, <1>2, <1>6, <1>7, <2>4, <3>1, OtherMeansDead
  <2> QED
    BY <1>5, <1>6, <1>7, <2>1, <2>2, <2>3, <2>4
<1> QED
  BY <1>2, <1>4, <1>5, <1>6, <1>7

\* What the end of a scrape leaves of a sample.
LEMMA FlipOwn ==
    ASSUME HistoryTypeOK, FinishScrape, NEW s \in processes'
    PROVE  \E u \in processes :
             /\ s = Flip(u, activePids)
             /\ s.pid = u.pid /\ s.ct = u.ct /\ s.pinned = u.pinned /\ s.base = u.base
             /\ Foreign(s) <=> Foreign(u)
<1>1. PICK u \in processes : s = Flip(u, activePids)
  BY MarkInactiveSamples DEF FinishScrape
<1>2. /\ s.pid = u.pid /\ s.ct = u.ct /\ s.pinned = u.pinned /\ s.base = u.base
      /\ s.name = u.name /\ s.cpu = u.cpu /\ s.mixed = u.mixed
  BY <1>1 DEF Flip, HistoryTypeOK, ProcessSample
<1>3. Foreign(s) <=> Foreign(u)
  BY <1>2 DEF Foreign
<1> QED
  BY <1>1, <1>2, <1>3

LEMMA OwnStep == OwnInv /\ [Next]_vars => OwnInv'
<1> SUFFICES ASSUME OwnInv, [Next]_vars PROVE OwnInv'
  OBVIOUS
<1>1. LiveInv' /\ HandleOwn'
  BY LiveStep, HandleStep DEF OwnInv
<1>2. OwnBaseline /\ TypeOK /\ HistoryTypeOK
  BY DEF OwnInv, LiveInv, TypeOK
<1>3. CASE Record
  BY <1>1, <1>2, <1>3, RecordOwn DEF OwnBaseline, OwnInv
<1>4. CASE FinishScrape
  BY <1>1, <1>2, <1>4, FlipOwn DEF OwnBaseline, OwnInv
<1>5. CASE ~Record /\ ~FinishScrape
  BY <1>1, <1>2, <1>5, OnlyWriters DEF storeVars, OwnBaseline, OwnInv
<1> QED
  BY <1>1, <1>3, <1>4, <1>5 DEF OwnInv

\* A CPU percentage taken through a handle that was opened with its create time
\* is measured against its own process's earlier times or against nothing, for
\* every pattern of pid reuse and of reads that fail after that
\* (main.go:412-429, 466).
THEOREM BaselineOwn == Spec => []OwnBaseline
<1>1. OwnInv => OwnBaseline
  BY DEF OwnInv
<1> QED
  BY <1>1, InitOwn, OwnStep, PTL DEF Spec

-----------------------------------------------------------------------------
(* Samples with parts of another process *)

\* The process of such a sample has ended, and the iteration under way makes
\* no other sample of it.
ForeignPast ==
    \A s \in processes : (s.pinned /\ Foreign(s)) =>
        /\ Dead(s.pid, s.ct)
        /\ (pc \in InIteration /\ cur = s.pid /\ procCache[cur].pinned) => procCache[cur].ct # s.ct

ForeignInv == OwnInv /\ ForeignPast /\ ForeignAtMostOnce

LEMMA InitForeign == Init => ForeignInv
BY InitOwn DEF Init, NewHistoryStore, ForeignInv, ForeignPast, ForeignAtMostOnce

\* The checks and reads of an iteration: its handle is never the pinned handle
\* of a process that has ended before the check.
LEMMA ForeignReads ==
    ASSUME ForeignInv, [Next]_vars, processes' = processes,
           NEW s \in processes, s.pinned, Foreign(s),
           pc' \in InIteration, cur' = s.pid, procCache'[cur'].pinned
    PROVE  procCache'[cur'].ct # s.ct
<1> USE DEF Nobody
<1>0. LiveInv /\ TypeOK /\ Control /\ HandleOwn /\ ForeignPast
  BY DEF ForeignInv, OwnInv, LiveInv
<1>a. procCache \in [Pids -> HandleType] /\ proc \in [Pids -> Nat]
  BY <1>0 DEF TypeOK
<1>b. s.pid \in Pids /\ s.ct \in Nat /\ s.ct # Nobody
  BY <1>0 DEF TypeOK, HistoryTypeOK, ProcessSample, NoKey
<1>d. proc[s.pid] # s.ct
  BY <1>0, <1>b, DeadStays DEF ForeignPast
<1>1. ASSUME pc \in InIteration, cur' = cur, procCache'[cur].pinned = procCache[cur].pinned,
             procCache[cur].pinned => procCache'[cur].ct = procCache[cur].ct
      PROVE  procCache'[cur'].ct # s.ct
  BY <1>0, <1>1 DEF ForeignPast
<1>2. ASSUME NEW p \in Pids, ReuseHandle(p) PROVE procCache'[cur'].ct # s.ct
  <2>1. /\ p = s.pid /\ IsRunning(p) /\ cur' = p
        /\ procCache' = [procCache EXCEPT ![p].ct = IF @ = Nobody THEN proc[p] ELSE @]
    BY <1>2 DEF ReuseHandle
  <2>2. procCache'[p].ct = proc[p]
    BY <1>a, <2>1 DEF IsRunning, HandleType
  <2> QED
    BY <1>d, <2>1, <2>2
<1>3. ASSUME NEW p \in Pids, OpenHandle(p) PROVE procCache'[cur'].ct # s.ct
  <2>1. p = s.pid /\ cur' = p
    BY <1>3 DEF OpenHandle
  <2>2. PICK ct \in {proc[p], Nobody} : procCache' = [procCache EXCEPT ![p] = Handle(ct, Nobody)]
    BY <1>3 DEF OpenHandle
  <2>3. procCache'[p].ct = ct
    BY <1>a, <2>2 DEF Handle
  <2> QED
    BY <1>b, <1>d, <2>1, <2>2, <2>3
<1>4. CASE ReadName
  <2>1. PICK n : /\ procCache' = [procCache EXCEPT ![cur].name = n]
                 /\ IF n = Nobody THEN pc' = "loop" /\ cur' = NoPid
                                  ELSE pc' = "CreateTime" /\ cur' = cur
    BY <1>4 DEF ReadName
  <2>2. cur' = cur /\ cur = s.pid /\ pc \in InIteration
    BY <1>4, <2>1 DEF ReadName, InIteration
  <2>3. procCache'[cur].ct = procCache[cur].ct /\ procCache'[cur].pinned = procCache[cur].pinned
    BY <1>a, <1>b, <2>1, <2>2 DEF HandleType
  <2> QED
    BY <1>1, <2>2, <2>3
<1>5. CASE ReadCreateTime
  <2>1. PICK ct \in IF procCache[cur].ct # Nobody THEN {procCache[cur].ct} ELSE Outcomes("CreateTime") :
          procCache' = [procCache EXCEPT ![cur].ct = ct]
    BY <1>5 DEF ReadCreateTime
  <2>2. cur' = cur /\ cur = s.pid /\ pc \in InIteration
    BY <1>5 DEF ReadCreateTime, InIteration
  <2>3. procCache'[cur].ct = ct /\ procCache'[cur].pinned = procCache[cur].pinned
    BY <1>a, <1>b, <2>1, <2>2 DEF HandleType
  <2>4. procCache[cur].pinned => procCache[cur].ct # Nobody
    BY <1>0, <1>b, <2>2 DEF HandleOwn
  <2> QED
    BY <1>1, <2>1, <2>2, <2>3, <2>4
<1>6. CASE ReadParts
  BY <1>1, <1>6, PartStep DEF Reading
<1>7. CASE ReadPercent
  <2>1. cur' = cur /\ cur = s.pid /\ pc \in InIteration
    BY <1>7 DEF ReadPercent, InIteration
  <2>2. procCache'[cur].ct = procCache[cur].ct /\ procCache'[cur].pinned = procCache[cur].pinned
    BY <1>a, <1>b, <1>7, <2>1 DEF ReadPercent, HandleType
  <2> QED
    BY <1>1, <2>1, <2>2
<1>8. ASSUME NEW p \in Pids, NoProcess(p) PROVE FALSE
  BY <1>8 DEF NoProcess, InIteration
<1>9. CASE Tick \/ (\E p \in Pids : Spawn(p) \/ Exit(p)) \/ UNCHANGED vars
  BY <1>1, <1>9 DEF Tick, Spawn, Exit, vars, scrapeVars
<1>10. CASE PidsFail \/ ListPids \/ Record \/ FinishScrape
  BY <1>10 DEF PidsFail, ListPids, Record, FinishScrape, InIteration
<1> QED
  BY <1>2, <1>3, <1>4, <1>5, <1>6, <1>7, <1>8, <1>9, <1>10 DEF Next, Horizon

\* Steps that leave the samples alone.
LEMMA ForeignQuiet ==
    ASSUME ForeignInv, [Next]_vars, processes' = processes
    PROVE  ForeignPast' /\ ForeignAtMostOnce'
<1>1. LiveInv /\ \A s \in processes : s.pid \in Pids /\ s.ct \in Nat /\ s.ct # Nobody
  BY DEF ForeignInv, OwnInv, LiveInv, TypeOK, HistoryTypeOK, ProcessSample, Nobody, NoKey
<1>2. \A s \in processes : (s.pinned /\ Foreign(s)) => Dead(s.pid, s.ct)'
  BY <1>1, DeadStays DEF ForeignInv, ForeignPast, Dead
<1>3. \A s \in processes :
        (s.pinned /\ Foreign(s) /\ pc' \in InIteration /\ cur' = s.pid /\ procCache'[cur'].pinned)
            => procCache'[cur'].ct # s.ct
  BY ForeignReads
<1> QED
  BY <1>2, <1>3 DEF ForeignInv, ForeignPast, ForeignAtMostOnce, Foreign

\* The sample Record adds: if it is foreign its process has ended, and no
\* earlier sample of that process was.
LEMMA ForeignRecord ==
    ASSUME ForeignInv, Record
    PROVE  ForeignPast' /\ ForeignAtMostOnce'
<1>0. OwnInv /\ ForeignPast /\ ForeignAtMostOnce
  BY DEF ForeignInv
<1>1. cur \in Pids /\ pc \in InIteration /\ pc' = "loop" /\ UNCHANGED <<now, proc>>
  BY <1>0, RecordOwn DEF Reading
<1>2. PICK t : /\ \A s \in processes' : s \in processes \/ s = t
               /\ t.pid = cur /\ t.pinned = procCache[cur].pinned
               /\ t.pinned => /\ t.ct = procCache[cur].ct
                              /\ Foreign(t) => Dead(cur, t.ct)
  BY <1>0, RecordOwn
<1>3. ASSUME t.pinned, NEW s \in processes, s.pinned, Foreign(s), s.pid = cur PROVE s.ct # t.ct
  BY <1>0, <1>1, <1>2, <1>3 DEF ForeignPast
<1>4. ForeignPast'
  BY <1>0, <1>1, <1>2 DEF ForeignPast, Dead, InIteration, Foreign
<1>5. ForeignAtMostOnce'
  BY <1>0, <1>2, <1>3 DEF ForeignAtMostOnce, Foreign
<1> QED
  BY <1>4, <1>5

\* The end of a scrape changes no sample's parts.
LEMMA ForeignFinish ==
    ASSUME ForeignInv, FinishScrape
    PROVE  ForeignPast' /\ ForeignAtMostOnce'
<1>1. /\ HistoryTypeOK /\ ForeignPast /\ ForeignAtMostOnce
      /\ pc' = "idle" /\ UNCHANGED <<now, proc>>
  BY DEF ForeignInv, OwnInv, LiveInv, TypeOK, FinishScrape
<1>2. ForeignPast'
  BY <1>1, FlipOwn DEF ForeignPast, Dead, InIteration, Foreign
<1>3. ForeignAtMostOnce'
  <2> SUFFICES ASSUME NEW s \in processes', NEW t \in processes', s.pinned, t.pinned,
                      Foreign(s), Foreign(t), s.pid = t.pid, s.ct = t.ct
               PROVE  s = t
    BY DEF ForeignAtMostOnce, Foreign
  <2>1. \A x \in processes' : \E u \in processes :
          /\ x = Flip(u, activePids) /\ x.pid = u.pid /\ x.ct = u.ct /\ x.pinned = u.pinned
          /\ Foreign(x) => Foreign(u)
    BY <1>1, FlipOwn DEF Foreign
  <2>2. PICK u \in processes : /\ s = Flip(u, activePids) /\ s.pid = u.pid /\ s.ct = u.ct
                               /\ s.pinned = u.pinned /\ (Foreign(s) => Foreign(u))
    BY <2>1
  <2>3. PICK v \in processes : /\ t = Flip(v, activePids) /\ t.pid = v.pid /\ t.ct = v.ct
                               /\ t.pinned = v.pinned /\ (Foreign(t) => Foreign(v))
    BY <2>1
  <2>4. u = v
    BY <1>1, <2>2, <2>3 DEF ForeignAtMostOnce
  <2> QED
    BY <2>2, <2>3, <2>4
<1> QED
  BY <1>2, <1>3

\* A process that takes a pid over spoils at most one sample of the last holder,
\* if that one's handle was opened with its create time: for every pattern of
\* reuse and of reads that fail after that (main.go:412-429).
THEOREM ForeignOnce == Spec => []ForeignAtMostOnce
<1>1. ASSUME ForeignInv, [Next]_vars PROVE ForeignInv'
  <2>1. OwnInv' /\ LiveInv
    BY <1>1, OwnStep DEF ForeignInv, OwnInv
  <2>2. CASE Record
    BY <1>1, <2>1, <2>2, ForeignRecord DEF ForeignInv
  <2>3. CASE FinishScrape
    BY <1>1, <2>1, <2>3, ForeignFinish DEF ForeignInv
  <2>4. CASE ~Record /\ ~FinishScrape
    <3>1. processes' = processes
      BY <1>1, <2>1, <2>4, OnlyWriters DEF storeVars, LiveInv
    <3> QED
      BY <1>1, <2>1, <3>1, ForeignQuiet DEF ForeignInv
  <2> QED
    BY <2>2, <2>3, <2>4
<1>2. ForeignInv => ForeignAtMostOnce
  BY DEF ForeignInv
<1> QED
  BY <1>1, <1>2, InitForeign, PTL DEF Spec

-----------------------------------------------------------------------------
(* Scraper implements ActiveSeries *)

\* Published is the timestamp of the exported sample of the pid, if any.
PublishedValue ==
    StoreInv => \A p \in Pids :
        /\ \A s \in GetActiveProcesses : s.pid = p => Published(p) = s.ts
        /\ (\A s \in GetActiveProcesses : s.pid # p) => Published(p) = 0

LEMMA PublishedLemma == PublishedValue
<1> SUFFICES ASSUME StoreInv, NEW p \in Pids
             PROVE  /\ \A s \in GetActiveProcesses : s.pid = p => Published(p) = s.ts
                    /\ (\A s \in GetActiveProcesses : s.pid # p) => Published(p) = 0
  BY DEF PublishedValue
<1> DEFINE samples == Timeline(p, activeKeys[p])
           last == {s \in samples : IsLast(s, samples)}
<1>1. last = {s \in GetActiveProcesses : s.pid = p}
  BY DEF GetActiveProcesses, Timeline, IsLast
<1>2. Published(p) = IF last = {} THEN 0 ELSE (CHOOSE s \in last : TRUE).ts
  BY DEF Published
<1>3. ASSUME NEW s \in GetActiveProcesses, s.pid = p
      PROVE  Published(p) = s.ts
  <2>1. s \in last
    BY <1>1, <1>3
  <2>2. \A u \in last : u = s
    BY <1>1, <1>3 DEF ExportedIsNewest, QueryHistoryByPid, GetActiveProcesses, StoreInv,
       TypeOK, HistoryTypeOK, ProcessSample
  <2> HIDE DEF last
  <2>3. (CHOOSE u \in last : TRUE) \in last
    BY <2>1
  <2> QED
    BY <1>2, <2>1, <2>2, <2>3
<1>4. (\A s \in GetActiveProcesses : s.pid # p) => Published(p) = 0
  BY <1>1, <1>2
<1> QED
  BY <1>3, <1>4

LEMMA PublishedPrimed == PublishedValue'
BY PublishedLemma, PTL

-----------------------------------------------------------------------------
\* A step that leaves the store alone leaves what is published alone.
LEMMA QuietSeries ==
    ASSUME UNCHANGED storeVars
    PROVE  \A p \in Pids : Published(p)' = Published(p)
BY DEF Published, Timeline, IsLast, storeVars

\* Record publishes the sample it adds, or nothing when that is expired.
LEMMA RecordSeries ==
    ASSUME StoreInv, StoreInv', Record
    PROVE  AS!SeriesNext
<1>1. PICK x \in ProcessSample :
        /\ x.ts = scrapeNow /\ x.pid = cur /\ x.active
        /\ AddSample(x)
  BY RecordAdds DEF StoreInv
<1>2. /\ \A s \in processes' : s \in processes \/ s = x
      /\ \A s \in processes' : (s.pid = x.pid /\ s.ct = x.ct) => Fresh(s)
      /\ Fresh(x) => x \in processes'
  BY <1>1, AddSampleSamples
<1>3. /\ pc \in InIteration /\ cur \in Pids /\ scrapeNow' = scrapeNow
      /\ scrapeNow \in Nat /\ now \in Nat /\ scrapeNow >= 1
  BY DEF Record, InIteration, Control, TypeOK, HistoryTypeOK, StoreInv
<1>4. \A s \in processes : s.ts \in Nat /\ (s.pid = cur => s.ts < scrapeNow)
  BY <1>3 DEF OneStampPerPid, TypeOK, HistoryTypeOK, ProcessSample, StoreInv
<1>5. ASSUME NEW p \in Pids, p # cur
      PROVE  Published(p)' = Published(p)
  <2>1. activeKeys'[p] = activeKeys[p]
    BY <1>1, <1>3, <1>5 DEF AddSample, TypeOK, HistoryTypeOK, StoreInv
  <2>2. Timeline(p, activeKeys[p])' = Timeline(p, activeKeys[p])
    BY <1>1, <1>5, <2>1 DEF AddSample, pruneExpiredSamples, Timeline
  <2> QED
    BY <2>2 DEF Published, IsLast
<1>0. PICK c \in Pids : c = cur
  BY <1>3
<1>6. Published(c)' \in {scrapeNow, 0}
  <2>1. ASSUME NEW s \in GetActiveProcesses', s.pid = cur
        PROVE  s.ts = scrapeNow
    <3>1. s \in processes' /\ activeKeys'[s.pid] = s.ct /\ IsLast(s, Timeline(s.pid, s.ct)')
      BY <2>1 DEF GetActiveProcesses, IsLast, Timeline
    <3>2. s.ct = x.ct
      BY <1>1, <1>3, <2>1, <3>1 DEF AddSample, TypeOK, HistoryTypeOK, StoreInv
    <3>3. Fresh(s)
      BY <1>1, <1>2, <2>1, <3>1, <3>2
    <3>4. x \in processes'
      BY <1>1, <1>2, <1>3, <1>4, <2>1, <3>1, <3>3, RetentionAssumption DEF Fresh
    <3> QED
      BY <1>1, <1>2, <1>3, <1>4, <2>1, <3>1, <3>2, <3>4 DEF IsLast, Timeline
  <2> QED
    BY <1>0, <2>1, PublishedPrimed DEF PublishedValue
<1>7. Published(cur) < scrapeNow
  <2>1. \A s \in GetActiveProcesses : s.pid = cur => s.ts < scrapeNow
    BY <1>4 DEF GetActiveProcesses
  <2> QED
    BY <1>3, <2>1, PublishedLemma DEF PublishedValue
<1>8. CASE Published(c)' = scrapeNow
  BY <1>0, <1>3, <1>5, <1>7, <1>8 DEF AS!SeriesNext, AS!Publish
<1>9. CASE Published(c)' = 0
  <2>1. [p \in Pids |-> Published(p)'] =
          [p \in Pids |-> IF p \in {c} THEN 0 ELSE [q \in Pids |-> Published(q)][p]]
    BY <1>0, <1>5, <1>9
  <2> QED
    BY <1>0, <1>3, <2>1 DEF AS!SeriesNext, AS!Withdraw, AS!Unpublished
<1> QED
  BY <1>6, <1>8, <1>9

\* The end of a scrape only withdraws.
LEMMA FinishSeries ==
    ASSUME StoreInv, StoreInv', FinishScrape
    PROVE  AS!SeriesNext
<1> DEFINE S == {p \in Pids : \A s \in GetActiveProcesses' : s.pid # p}
<1>1. \A p \in S : Published(p)' = 0
  BY PublishedPrimed DEF PublishedValue
<1>2. ASSUME NEW p \in Pids \ S
      PROVE  Published(p)' = Published(p)
  <2>1. PICK s \in GetActiveProcesses' : s.pid = p
    BY <1>2
  <2>2. s \in GetActiveProcesses
    BY <2>1, FinishExports
  <2> QED
    BY <2>1, <2>2, PublishedLemma, PublishedPrimed DEF PublishedValue
<1>3. scrapeNow' = scrapeNow
  BY DEF FinishScrape
<1>4. S \in SUBSET Pids
  OBVIOUS
<1> HIDE DEF S
<1>5. [p \in Pids |-> Published(p)'] =
        [p \in Pids |-> IF p \in S THEN 0 ELSE [q \in Pids |-> Published(q)][p]]
  BY <1>1, <1>2
<1> QED
  BY <1>3, <1>4, <1>5 DEF AS!SeriesNext, AS!Withdraw, AS!Unpublished

LEMMA InitSeries == Init => AS!SeriesInit
<1> SUFFICES ASSUME Init PROVE AS!SeriesInit
  OBVIOUS
<1>1. \A p \in Pids : Published(p) = 0
  BY DEF Init, NewHistoryStore, Published, Timeline, IsLast
<1> QED
  BY <1>1 DEF Init, AS!SeriesInit, AS!Unpublished

LEMMA SeriesStep ==
    ASSUME StoreInv, StoreInv', [Next]_vars
    PROVE  [AS!SeriesNext]_(AS!seriesVars)
<1>1. CASE Record
  BY <1>1, RecordSeries
<1>2. CASE FinishScrape
  BY <1>2, FinishSeries
<1>3. CASE ListPids
  <2>1. UNCHANGED storeVars /\ scrapeNow' = now /\ now > scrapeNow /\ now \in Nat
    BY <1>3 DEF ListPids, StoreInv, TypeOK, HistoryTypeOK
  <2>2. \A p \in Pids : Published(p)' = Published(p)
    BY <2>1, QuietSeries
  <2> QED
    BY <2>1, <2>2 DEF AS!SeriesNext, AS!NewScrape
<1>4. ASSUME ~Record, ~FinishScrape, ~ListPids
      PROVE  UNCHANGED AS!seriesVars
  <2>1. UNCHANGED storeVars /\ UNCHANGED scrapeNow
    <3> USE DEF storeVars, scrapeVars
    <3>1. CASE Tick \/ PidsFail \/ UNCHANGED vars
      BY <3>1 DEF Tick, PidsFail, vars
    <3>2. ASSUME NEW p \in Pids, Spawn(p) \/ Exit(p)
          PROVE  UNCHANGED storeVars /\ UNCHANGED scrapeNow
      BY <3>2 DEF Spawn, Exit
    <3>3. ASSUME NEW p \in Pids, ReuseHandle(p) \/ OpenHandle(p) \/ NoProcess(p)
          PROVE  UNCHANGED storeVars /\ UNCHANGED scrapeNow
      BY <3>3 DEF ReuseHandle, OpenHandle, NoProcess
    <3>4. CASE ReadName \/ ReadCreateTime \/ ReadPercent
      BY <3>4 DEF ReadName, ReadCreateTime, ReadPercent
    <3>5. CASE ReadParts
      BY <3>5, PartStep DEF Reading
    <3> QED
      BY <1>4, <3>1, <3>2, <3>3, <3>4, <3>5 DEF Next, Horizon
  <2>2. \A p \in Pids : Published(p)' = Published(p)
    BY <2>1, QuietSeries
  <2> QED
    BY <2>1, <2>2 DEF AS!seriesVars
<1> QED
  BY <1>1, <1>2, <1>3, <1>4

\* The scraper and the store implement ActiveSeries: for every pid the readers
\* of GetActiveProcesses see at most one sample, replaced only by a sample of
\* the scrape under way or withdrawn (main.go:431-553, history.go:56-100).
THEOREM Refinement == Spec => ImplementsActiveSeries
<1>1. Init => AS!SeriesInit
  BY InitSeries
<1>2. StoreInv /\ StoreInv' /\ [Next]_vars => [AS!SeriesNext]_(AS!seriesVars)
  BY SeriesStep
<1> QED
  BY <1>1, <1>2, InitStore, StoreStep, PTL DEF Spec, ImplementsActiveSeries, AS!SeriesSpec
=============================================================================
