------------------------------ MODULE WebProofs -----------------------------
(***************************************************************************)
(* cmd/jobreport-web and the report command it runs: the URL list keeps    *)
(* its entries distinct and implements UrlList; the log scanner finds the  *)
(* window, the phases and the frames of every log; what the command writes *)
(* agrees with its exit code; the page explains every answer.              *)
(***************************************************************************)
EXTENDS WebStore, ReportPage, FoldTheorems

-----------------------------------------------------------------------------
(* The URL list *)

Distinct(s) == \A i, j \in DOMAIN s : s[i] = s[j] => i = j

\* The loop of Remove.
LEMMA RemovedLoop ==
    ASSUME NEW list \in Seq(URL), NEW u
    PROVE  \E g : /\ Removed(list, u) = g[Len(list)]
                  /\ g[0] = <<>>
                  /\ \A k \in 1..Len(list) : g[k] = Keep(g[k - 1], list[k], Target(u))
                  /\ \A k \in 0..Len(list) : g[k] \in Seq(URL)
<1> DEFINE D == DOMAIN list
           n == Len(list)
           T == Target(u)
           Eqn(g) == g = [s \in SUBSET D |->
               IF s = {} THEN <<>> ELSE Keep(g[s \ {Max(s)}], list[Max(s)], T)]
           iter == CHOOSE g : Eqn(g)
           V == Seq(URL)
           c == [s \in SUBSET D |-> Max(s)]
           step == [i \in D |-> [v \in V |-> Keep(v, list[i], T)]]
<1>0. n \in Nat /\ D = 1..n
    OBVIOUS
<1>1. Removed(list, u) = iter[D]
    BY DEF Removed, FoldLeft, MapThenFoldSet
<1>2. PICK g \in [SUBSET D -> V] : IsFold(g, D, <<>>, c, step)
    <2>1. IsFiniteSet(D)
        BY <1>0, FiniteIndices
    <2>2. <<>> \in V
        OBVIOUS
    <2>3. Chooses(c, D)
        BY <1>0, MaxOfIndices DEF Chooses
    <2>4. StepsIn(step, D, V)
        BY DEF StepsIn, Keep
    <2> HIDE DEF V, c, step, D
    <2> QED
        BY <2>1, <2>2, <2>3, <2>4, FoldExists
<1>3. ASSUME NEW s \in SUBSET D, s # {}
      PROVE  step[c[s]][g[s \ {c[s]}]] = Keep(g[s \ {Max(s)}], list[Max(s)], T)
    <2>1. Max(s) \in D
        BY <1>0, <1>3, MaxOfIndices
    <2>2. c[s] = Max(s)
        OBVIOUS
    <2>3. g[s \ {Max(s)}] \in V
        BY <1>2
    <2> HIDE DEF V, c
    <2> QED
        BY <2>1, <2>2, <2>3
<1>4. Eqn(g)
    <2> HIDE DEF step, c, T, D
    <2> QED
        BY <1>2, <1>3 DEF IsFold
<1>5. Eqn(iter)
    BY <1>4, Zenon
<1> HIDE DEF iter
<1>6. ASSUME NEW k \in 1..n
      PROVE  iter[1..k] = Keep(iter[1..(k - 1)], list[k], T)
    <2>1. 1..k \in SUBSET D /\ 1..k # {}
        BY <1>0
    <2>2. iter[1..k] = Keep(iter[(1..k) \ {Max(1..k)}], list[Max(1..k)], T)
        BY <2>1, <1>5
    <2>3. Max(1..k) = k /\ (1..k) \ {k} = 1..(k - 1)
        BY MaxOfPrefix
    <2> QED
        BY <2>2, <2>3
<1>7. iter[{}] = <<>>
    BY <1>5
<1> DEFINE Q == {k \in Nat : k <= n => iter[1..k] \in Seq(URL)}
<1>8. Q = Nat
    <2>1. 0 \in Q
        <3>1. 1..0 = {} /\ 0 \in Nat
            OBVIOUS
        <3>2. iter[1..0] = <<>>
            BY <3>1, <1>7, Zenon
        <3>3. <<>> \in Seq(URL)
            OBVIOUS
        <3> QED
            BY <3>1, <3>2, <3>3
    <2>2. ASSUME NEW k \in Q PROVE k + 1 \in Q
        <3> SUFFICES ASSUME k + 1 <= n PROVE iter[1..(k + 1)] \in Seq(URL)
            OBVIOUS
        <3>1. k + 1 \in 1..n /\ (k + 1) - 1 = k /\ list[k + 1] \in URL
            BY <1>0
        <3>2. iter[1..k] \in Seq(URL)
            BY <3>1
        <3>3. iter[1..(k + 1)] = Keep(iter[1..k], list[k + 1], T)
            BY <3>1, <1>6
        <3> QED
            BY <3>1, <3>2, <3>3 DEF Keep
    <2>3. Q \in SUBSET Nat
        OBVIOUS
    <2> HIDE DEF Q
    <2> QED
        BY <2>1, <2>2, <2>3, NatSetInduction
<1> DEFINE h == [k \in 0..n |-> iter[1..k]]
<1>9. /\ h[n] = iter[D]
      /\ h[0] = <<>>
      /\ \A k \in 1..n : h[k] = Keep(h[k - 1], list[k], T)
      /\ \A k \in 0..n : h[k] \in Seq(URL)
    <2>1. n \in 0..n /\ 0 \in 0..n /\ 1..n = D /\ 1..0 = {}
        BY <1>0
    <2>2. h[n] = iter[D] /\ h[0] = <<>>
        BY <2>1, <1>7
    <2>3. ASSUME NEW k \in 1..n PROVE h[k] = Keep(h[k - 1], list[k], T)
        <3>1. k \in 0..n /\ k - 1 \in 0..n
            BY <1>0
        <3>2. h[k] = iter[1..k] /\ h[k - 1] = iter[1..(k - 1)]
            BY <3>1
        <3> QED
            BY <3>2, <1>6
    <2>4. ASSUME NEW k \in 0..n PROVE h[k] \in Seq(URL)
        <3>1. k \in Nat /\ k <= n
            BY <1>0
        <3>2. iter[1..k] \in Seq(URL)
            BY <3>1, <1>8
        <3> QED
            BY <3>2
    <2> QED
        BY <2>2, <2>3, <2>4
<1> QED
    BY <1>1, <1>9

\* Remove deletes the URL in both forms and nothing else, and stores no URL
\* twice that was not stored twice before.
LEMMA RemovedMembers ==
    ASSUME NEW list \in Seq(URL), NEW u
    PROVE  /\ Removed(list, u) \in Seq(URL)
           /\ Members(Removed(list, u)) = Members(list) \ Target(u)
           /\ Distinct(list) => Distinct(Removed(list, u))
<1> DEFINE n == Len(list)
           T == Target(u)
<1>1. PICK g : /\ Removed(list, u) = g[n]
               /\ g[0] = <<>>
               /\ \A k \in 1..n : g[k] = Keep(g[k - 1], list[k], T)
               /\ \A k \in 0..n : g[k] \in Seq(URL)
    BY RemovedLoop
<1> DEFINE Q == {k \in Nat : k <= n =>
                    /\ Members(g[k]) = {list[i] : i \in 1..k} \ T
                    /\ Distinct(list) => Distinct(g[k])}
<1> HIDE DEF T
<1>2. Q = Nat
    <2>1. 0 \in Q
        BY <1>1 DEF Members, Distinct
    <2>2. ASSUME NEW k \in Q PROVE k + 1 \in Q
        <3> SUFFICES ASSUME k + 1 <= n
                     PROVE  /\ Members(g[k + 1]) = {list[i] : i \in 1..(k + 1)} \ T
                            /\ Distinct(list) => Distinct(g[k + 1])
            OBVIOUS
        <3>1. k + 1 \in 1..n /\ k \in 0..n /\ (k + 1) - 1 = k /\ list[k + 1] \in URL /\ n \in Nat
            OBVIOUS
        <3>2. /\ Members(g[k]) = {list[i] : i \in 1..k} \ T
              /\ Distinct(list) => Distinct(g[k])
              /\ g[k] \in Seq(URL)
            BY <3>1, <1>1
        <3>3. g[k + 1] = Keep(g[k], list[k + 1], T)
            BY <3>1, <1>1
        <3>4. {list[i] : i \in 1..(k + 1)} = {list[i] : i \in 1..k} \union {list[k + 1]}
            BY <3>1
        <3>5. CASE list[k + 1] \in T
            BY <3>2, <3>3, <3>4, <3>5 DEF Keep
        <3>6. CASE list[k + 1] \notin T
            <4> DEFINE s == g[k]
                       t == g[k + 1]
            <4>1. t = Append(s, list[k + 1])
                BY <3>3, <3>6 DEF Keep
            <4>2. /\ DOMAIN s = 1..Len(s) /\ DOMAIN t = 1..(Len(s) + 1) /\ Len(s) \in Nat
                  /\ \A i \in 1..Len(s) : t[i] = s[i]
                  /\ t[Len(s) + 1] = list[k + 1]
                BY <4>1, <3>2, <3>1
            <4> HIDE DEF s, t
            <4>3. Members(t) = Members(s) \union {list[k + 1]}
                BY <4>2 DEF Members
            <4>4. ASSUME Distinct(list) PROVE Distinct(t)
                <5>1. list[k + 1] \notin {list[i] : i \in 1..k}
                    BY <4>4, <3>1 DEF Distinct
                <5>2. \A i \in 1..Len(s) : s[i] # list[k + 1]
                    BY <5>1, <3>2, <4>2 DEF Members, s
                <5>3. Distinct(s)
                    BY <3>2, <4>4 DEF s
                <5> QED
                    BY <5>2, <5>3, <4>2 DEF Distinct
            <4> QED
                BY <4>3, <4>4, <3>2, <3>4, <3>6 DEF s, t
        <3> QED
            BY <3>5, <3>6
    <2>3. Q \in SUBSET Nat
        OBVIOUS
    <2> HIDE DEF Q
    <2> QED
        BY <2>1, <2>2, <2>3, NatSetInduction
<1>3. n \in Nat /\ DOMAIN list = 1..n
    OBVIOUS
<1>4. n \in Q
    BY <1>2, <1>3
<1>5. Members(g[n]) = {list[i] : i \in 1..n} \ T /\ (Distinct(list) => Distinct(g[n]))
    BY <1>4, <1>3
<1>6. Members(list) = {list[i] : i \in 1..n}
    BY <1>3 DEF Members
<1>7. g[n] \in Seq(URL)
    BY <1>1, <1>3
<1> QED
    BY <1>1, <1>5, <1>6, <1>7 DEF T

\* Whoever is past the mutex holds it until its handler has unlocked it.
MutexHeld ==
    \A c \in Clients :
        (pc[c] \in Working /\ req[c].op # "index") => storeMu = c

\* A handler works on a request, and only adds and removes take the mutex.
RequestKnown ==
    \A c \in Clients :
        /\ pc[c] = "idle" <=> req[c] = NoRequest
        /\ pc[c] \in {"lock"} \union (Working \ {"load"}) => req[c].op # "index"

\* The list to be written is what the request makes of the stored list, which
\* nobody else has changed since it was read, and so is the temporary file
\* once it has been written.
DraftIsEffect ==
    \A c \in Clients :
        /\ pc[c] \in {"create", "write", "rename"} =>
             /\ disk.ok
             /\ req[c].op = "add" => Accepted(req[c].url)
             /\ List(draft[c]) = UL!Effect(req[c])
        /\ pc[c] = "rename" => temp[c] = List(draft[c])

WebInv == TypeOK /\ MutexHeld /\ RequestKnown /\ DraftIsEffect

\* The lists that are written are lists of URLs.
LEMMA ListTypes ==
    ASSUME NEW list \in Seq(URL), NEW u \in URL
    PROVE  Added(list, u) \in Seq(URL) /\ Removed(list, u) \in Seq(URL)
<1>1. normalizeURL(u) \in URL
    BY DEF normalizeURL, URL
<1> QED
    BY <1>1, RemovedMembers DEF Added

LEMMA OutcomeTypes ==
    /\ Failed \in Outcome
    /\ \A s \in Seq(URL) : List(s) \in Outcome
    /\ \A o \in Outcome : o.ok \in BOOLEAN /\ o.urls \in Seq(URL) /\ (~o.ok => o = Failed)
                          /\ (o.ok => o = List(o.urls))
<1>1. <<>> \in Seq(URL)
    OBVIOUS
<1> QED
    BY <1>1 DEF Outcome, Failed, List

\* The promise and the code speak of the same URLs and lists.
LEMMA SameUrls ==
    /\ \A u : UL!normalizeURL(u) = normalizeURL(u)
    /\ \A u : UL!Accepted(u) = Accepted(u)
    /\ \A u : UL!Target(u) = Target(u)
    /\ \A s : UL!Members(s) = Members(s)
    /\ \A s : UL!List(s) = List(s)
    /\ UL!Failed = Failed
    /\ UL!NoRequest = NoRequest
    /\ UL!URL = URL
    /\ UL!Outcome = Outcome
<1>1. \A u : UL!normalizeURL(u) = normalizeURL(u)
    BY DEF UL!normalizeURL, normalizeURL
<1>2. \A u : UL!Accepted(u) = Accepted(u)
    BY DEF UL!Accepted, Accepted, UL!normalizeURL, normalizeURL
<1>3. \A u : UL!Target(u) = Target(u)
    BY DEF UL!Target, Target, UL!Accepted, Accepted, UL!normalizeURL, normalizeURL
<1>4. \A s : UL!Members(s) = Members(s)
    BY DEF UL!Members, Members
<1>5. (\A s : UL!List(s) = List(s)) /\ UL!Failed = Failed /\ UL!NoRequest = NoRequest /\ UL!URL = URL
    BY DEF UL!List, List, UL!Failed, Failed, UL!NoRequest, NoRequest, UL!URL, URL
<1>6. UL!Outcome = Outcome
    BY <1>5 DEF UL!Outcome, Outcome, UL!URL, URL, UL!Failed, Failed
<1> QED
    BY <1>1, <1>2, <1>3, <1>4, <1>5, <1>6

LEMMA SameLists ==
    /\ \A s, u : UL!Added(s, u) = Added(s, u)
    /\ \A s, u : UL!Removed(s, u) = Removed(s, u)
<1>1. ASSUME NEW s, NEW u PROVE UL!Removed(s, u) = Removed(s, u)
    BY DEF UL!Removed, Removed, UL!Keep, Keep, UL!Target, Target, UL!Accepted, Accepted,
       UL!normalizeURL, normalizeURL, UL!FoldLeft, FoldLeft, UL!MapThenFoldSet, MapThenFoldSet,
       UL!Max, Max
<1>2. ASSUME NEW s, NEW u PROVE UL!Added(s, u) = Added(s, u)
    BY DEF UL!Added, Added, UL!normalizeURL, normalizeURL
<1> QED
    BY <1>1, <1>2

\* What a request makes of the stored list.
LEMMA EffectOf ==
    ASSUME NEW r
    PROVE  /\ ~disk.ok => UL!Effect(r) = disk
           /\ (disk.ok /\ r.op = "add" /\ Accepted(r.url) /\ normalizeURL(r.url) \notin Members(disk.urls))
                 => UL!Effect(r) = List(Added(disk.urls, r.url))
           /\ (disk.ok /\ r.op = "remove" /\ Target(r.url) \intersect Members(disk.urls) # {})
                 => UL!Effect(r) = List(Removed(disk.urls, r.url))
           /\ (/\ ~(r.op = "add" /\ Accepted(r.url) /\ normalizeURL(r.url) \notin Members(disk.urls))
               /\ ~(r.op = "remove" /\ Target(r.url) \intersect Members(disk.urls) # {}))
                 => UL!Effect(r) = disk
<1> USE SameUrls, SameLists DEF UL!Effect
<1>1. CASE ~disk.ok
    BY <1>1
<1>2. CASE disk.ok /\ r.op = "add"
    BY <1>2
<1>3. CASE disk.ok /\ r.op = "remove"
    BY <1>3
<1>4. CASE disk.ok /\ r.op # "add" /\ r.op # "remove"
    BY <1>4
<1> QED
    BY <1>1, <1>2, <1>3, <1>4

\* What Load returns is a list of URLs: the stored one unless it failed.
LEMMA LoadTypes ==
    ASSUME disk \in Outcome, NEW l \in Load
    PROVE  l \in Outcome /\ l.urls \in Seq(URL) /\ l.ok \in BOOLEAN /\ (l.ok => l = disk) /\ (~l.ok => l = Failed)
<1>1. l = disk \/ l = Failed
    BY DEF Load
<1>2. Failed.ok = FALSE
    BY DEF Failed
<1>3. l \in Outcome
    BY <1>1, OutcomeTypes
<1> QED
    BY <1>1, <1>2, <1>3, OutcomeTypes

LEMMA WebInit == Init => WebInv
<1> SUFFICES ASSUME Init PROVE WebInv
    OBVIOUS
<1> USE DEF Init
<1>1. TypeOK
    <2>1. <<>> \in Seq(URL)
        OBVIOUS
    <2> QED
        BY <2>1, OutcomeTypes, FilesAssumption, WebBoundsAssumption DEF TypeOK
<1>2. MutexHeld /\ RequestKnown /\ DraftIsEffect
    BY DEF MutexHeld, RequestKnown, DraftIsEffect, Working
<1> QED
    BY <1>1, <1>2 DEF WebInv

LEMMA WebNext == WebInv /\ [Next]_vars => WebInv'
<1> SUFFICES ASSUME WebInv, [Next]_vars PROVE WebInv'
    OBVIOUS
<1>0. \A r \in Requests : r \in Request /\ r.op \in {"index", "add", "remove"} /\ r # NoRequest
    <2>1. ASSUME NEW r \in Requests PROVE r \in Request /\ r.op \in {"index", "add", "remove"}
        BY RequestsAssumption DEF Request
    <2>2. NoRequest.op = "none"
        BY DEF NoRequest
    <2> QED
        BY <2>1, <2>2
<1>e. List(<<>>) \in Outcome
    <2>1. <<>> \in Seq(URL)
        OBVIOUS
    <2> QED
        BY <2>1, OutcomeTypes
<1>u. \A r \in Requests : r.url \in URL
    BY <1>0 DEF Request
<1> USE DEF WebInv, TypeOK, MutexHeld, RequestKnown, DraftIsEffect, Working, Goto, Return
<1>1. CASE Crash
    BY <1>1, OutcomeTypes, WebBoundsAssumption DEF Crash
<1>2. ASSUME NEW c \in Clients, Begin(c) PROVE WebInv'
    BY <1>2, <1>0 DEF Begin, UL!Effect
<1>3. ASSUME NEW c \in Clients, BadForm(c) PROVE WebInv'
    BY <1>3, OutcomeTypes DEF BadForm, UL!Effect
<1>4. ASSUME NEW c \in Clients, Lock(c) PROVE WebInv'
    BY <1>4, ClientsAssumption DEF Lock, UL!Effect
<1>5. ASSUME NEW c \in Clients, Unlock(c) PROVE WebInv'
    BY <1>5 DEF Unlock, UL!Effect
<1>6. ASSUME NEW c \in Clients, Reply(c) PROVE WebInv'
    BY <1>6, <1>0, OutcomeTypes DEF Reply, UL!Effect
<1>7. ASSUME NEW c \in Clients, LoadIndex(c) PROVE WebInv'
    <2>1. PICK l \in Load : result' = [result EXCEPT ![c] = IF l.ok THEN l ELSE List(<<>>)]
        BY <1>7 DEF LoadIndex
    <2>2. l \in Outcome
        BY <2>1, OutcomeTypes DEF Load
    <2>3. result' \in [Clients -> Outcome]
        BY <2>1, <2>2, <1>e
    <2>4. \A r : UL!Effect(r)' = UL!Effect(r)
        BY <1>7 DEF LoadIndex, UL!Effect
    <2> QED
        BY <1>7, <1>0, <2>3, <2>4 DEF LoadIndex
<1>8. ASSUME NEW c \in Clients, LoadAdd(c) PROVE WebInv'
    <2>1. PICK l \in Load :
              \/ /\ result' = [result EXCEPT ![c] = IF Accepted(req[c].url) THEN l ELSE Failed]
                 /\ pc' = [pc EXCEPT ![c] = "unlock"]
                 /\ UNCHANGED draft
              \/ /\ ~(~Accepted(req[c].url) \/ ~l.ok \/ Present(l.urls, req[c].url))
                 /\ draft' = [draft EXCEPT ![c] = Added(l.urls, req[c].url)]
                 /\ pc' = [pc EXCEPT ![c] = "create"]
                 /\ UNCHANGED result
        BY <1>8 DEF LoadAdd
    <2>2. l \in Outcome /\ l.urls \in Seq(URL) /\ (l.ok => l = disk) /\ disk \in Outcome
        BY <2>1, LoadTypes
    <2>3. /\ pc[c] = "load" /\ req[c] \in Requests /\ req[c].op = "add" /\ req[c].url \in URL
          /\ storeMu = c /\ req[c] # NoRequest
        BY <1>8, <1>0, <1>u DEF LoadAdd
    <2>4. UNCHANGED <<disk, storeMu, req, temp, crashes>>
        BY <1>8 DEF LoadAdd
    <2>5. \A r : UL!Effect(r)' = UL!Effect(r)
        BY <2>4 DEF UL!Effect
    <2>6. TypeOK'
        <3>1. result' \in [Clients -> Outcome]
            <4>1. (IF Accepted(req[c].url) THEN l ELSE Failed) \in Outcome
                BY <2>2, OutcomeTypes
            <4> QED
                BY <2>1, <4>1
        <3>2. draft' \in [Clients -> Seq(URL)]
            <4>1. Added(l.urls, req[c].url) \in Seq(URL)
                BY <2>2, <2>3, ListTypes
            <4> QED
                BY <2>1, <4>1
        <3> QED
            BY <3>1, <3>2, <2>1, <2>4
    <2>7. MutexHeld' /\ RequestKnown'
        BY <2>1, <2>3, <2>4
    <2>8. DraftIsEffect'
        <3>1. CASE UNCHANGED draft /\ pc' = [pc EXCEPT ![c] = "unlock"]
            BY <3>1, <2>4, <2>5
        <3>2. CASE /\ ~(~Accepted(req[c].url) \/ ~l.ok \/ Present(l.urls, req[c].url))
                   /\ draft' = [draft EXCEPT ![c] = Added(l.urls, req[c].url)]
                   /\ pc' = [pc EXCEPT ![c] = "create"]
            <4>1. l = disk /\ disk.ok
                BY <3>2, <2>2
            <4>2. UL!Effect(req[c]) = List(Added(disk.urls, req[c].url))
                BY <3>2, <4>1, <2>3, EffectOf DEF Present
            <4>3. List(draft'[c]) = UL!Effect(req[c]) /\ (req[c].op = "add" => Accepted(req[c].url))
                BY <3>2, <4>1, <4>2, <2>3
            <4> QED
                BY <3>2, <4>1, <4>3, <2>3, <2>4, <2>5
        <3> QED
            BY <2>1, <3>1, <3>2
    <2> QED
        BY <2>6, <2>7, <2>8
<1>9. ASSUME NEW c \in Clients, LoadRemove(c) PROVE WebInv'
    <2>1. PICK l \in Load :
              \/ /\ result' = [result EXCEPT ![c] = l]
                 /\ pc' = [pc EXCEPT ![c] = "unlock"]
                 /\ UNCHANGED draft
              \/ /\ ~(~l.ok \/ Target(req[c].url) \intersect Members(l.urls) = {})
                 /\ draft' = [draft EXCEPT ![c] = Removed(l.urls, req[c].url)]
                 /\ pc' = [pc EXCEPT ![c] = "create"]
                 /\ UNCHANGED result
        BY <1>9 DEF LoadRemove
    <2>2. l \in Outcome /\ l.urls \in Seq(URL) /\ (l.ok => l = disk) /\ disk \in Outcome
        BY <2>1, LoadTypes
    <2>3. /\ pc[c] = "load" /\ req[c] \in Requests /\ req[c].op = "remove" /\ req[c].url \in URL
          /\ storeMu = c /\ req[c] # NoRequest
        BY <1>9, <1>0, <1>u DEF LoadRemove
    <2>4. UNCHANGED <<disk, storeMu, req, temp, crashes>>
        BY <1>9 DEF LoadRemove
    <2>5. \A r : UL!Effect(r)' = UL!Effect(r)
        BY <2>4 DEF UL!Effect
    <2>6. TypeOK'
        <3>1. result' \in [Clients -> Outcome]
            <4>1. Failed \in Outcome
                BY OutcomeTypes
            <4> QED
                BY <2>1, <2>2, <4>1
        <3>2. draft' \in [Clients -> Seq(URL)]
            <4>1. Removed(l.urls, req[c].url) \in Seq(URL)
                BY <2>2, <2>3, ListTypes
            <4> QED
                BY <2>1, <4>1
        <3> QED
            BY <3>1, <3>2, <2>1, <2>4
    <2>7. MutexHeld' /\ RequestKnown'
        BY <2>1, <2>3, <2>4
    <2>8. DraftIsEffect'
        <3>1. CASE UNCHANGED draft /\ pc' = [pc EXCEPT ![c] = "unlock"]
            BY <3>1, <2>4, <2>5
        <3>2. CASE /\ ~(~l.ok \/ Target(req[c].url) \intersect Members(l.urls) = {})
                   /\ draft' = [draft EXCEPT ![c] = Removed(l.urls, req[c].url)]
                   /\ pc' = [pc EXCEPT ![c] = "create"]
            <4>1. l = disk /\ disk.ok
                BY <3>2, <2>2
            <4>2. UL!Effect(req[c]) = List(Removed(disk.urls, req[c].url))
                BY <3>2, <4>1, <2>3, EffectOf DEF Present
            <4>3. List(draft'[c]) = UL!Effect(req[c]) /\ (req[c].op = "add" => Accepted(req[c].url))
                BY <3>2, <4>1, <4>2, <2>3
            <4> QED
                BY <3>2, <4>1, <4>3, <2>3, <2>4, <2>5
        <3> QED
            BY <2>1, <3>1, <3>2
    <2> QED
        BY <2>6, <2>7, <2>8
<1>10. ASSUME NEW c \in Clients, CreateTemp(c) PROVE WebInv'
    BY <1>10, <1>0, <1>e DEF CreateTemp, UL!Effect
<1>11. ASSUME NEW c \in Clients, CreateTempFails(c) PROVE WebInv'
    BY <1>11, <1>0, OutcomeTypes DEF CreateTempFails, UL!Effect
<1>12. ASSUME NEW c \in Clients, WriteTemp(c) PROVE WebInv'
    BY <1>12, <1>0, OutcomeTypes DEF WriteTemp, UL!Effect
<1>13. ASSUME NEW c \in Clients, WriteTempFails(c) PROVE WebInv'
    BY <1>13, <1>0, OutcomeTypes DEF WriteTempFails, UL!Effect
<1>14. ASSUME NEW c \in Clients, Rename(c) PROVE WebInv'
    BY <1>14, <1>0, OutcomeTypes DEF Rename, UL!Effect
<1>15. ASSUME NEW c \in Clients, RenameFails(c) PROVE WebInv'
    BY <1>15, <1>0, OutcomeTypes DEF RenameFails, UL!Effect
<1>16. ASSUME NEW c \in Clients, Cleanup(c) PROVE WebInv'
    BY <1>16, <1>0, OutcomeTypes DEF Cleanup, UL!Effect
<1>17. CASE UNCHANGED vars
    BY <1>17 DEF vars, UL!Effect
<1> QED
    BY <1>1, <1>2, <1>3, <1>4, <1>5, <1>6, <1>7, <1>8, <1>9, <1>10, <1>11, <1>12,
       <1>13, <1>14, <1>15, <1>16, <1>17 DEF Next, Step

-----------------------------------------------------------------------------
(* The refinement *)

\* The answer of a request as the promise sees it.
AnswerOf(c) == IF pc[c] \in {"cleanup", "unlock", "reply"} THEN {result[c]} ELSE {}

LEMMA ListInitMapped == Init => UL!ListInit
<1> SUFFICES ASSUME Init PROVE UL!ListInit
    OBVIOUS
<1>1. disk \in UL!Outcome
    BY FilesAssumption, SameUrls DEF Init
<1>2. req = [c \in Clients |-> UL!NoRequest]
    BY SameUrls DEF Init
<1>3. [c \in Clients |-> AnswerOf(c)] = [c \in Clients |-> {}]
    BY DEF Init, AnswerOf
<1> QED
    BY <1>1, <1>2, <1>3 DEF UL!ListInit, AnswerOf

\* Every step is one of the promise, or changes nothing the promise sees.
LEMMA ListStepMapped == WebInv /\ [Next]_vars => [UL!ListNext]_(UL!listVars)
<1> SUFFICES ASSUME WebInv, [Next]_vars PROVE [UL!ListNext]_(UL!listVars)
    OBVIOUS
<1> DEFINE A == [c \in Clients |-> AnswerOf(c)]
<1>a. UL!listVars = <<disk, req, A>>
    BY DEF UL!listVars, AnswerOf
<1>d. \A c \in Clients : A[c] = AnswerOf(c) /\ A'[c] = AnswerOf(c)'
    OBVIOUS
<1>r. \A r \in Requests : r.op \in {"index", "add", "remove"} /\ r # NoRequest
    <2>1. ASSUME NEW r \in Requests PROVE r.op \in {"index", "add", "remove"}
        BY RequestsAssumption DEF Request
    <2>2. NoRequest.op = "none"
        BY DEF NoRequest
    <2> QED
        BY <2>1, <2>2
\* What the abstract actions say, in terms of A.
<1>f. ASSUME NEW c \in Clients
      PROVE  /\ (/\ req[c] = NoRequest /\ UNCHANGED <<disk, A>>
                 /\ \E r \in Requests : req' = [req EXCEPT ![c] = r]) => UL!ListNext
             /\ (/\ req[c] # NoRequest /\ A[c] = {} /\ disk.ok
                 /\ req[c].op = "add" => Accepted(req[c].url)
                 /\ disk' = UL!Effect(req[c]) /\ A' = [A EXCEPT ![c] = {disk'}]
                 /\ UNCHANGED req) => UL!ListNext
             /\ (/\ req[c] # NoRequest /\ A[c] = {}
                 /\ A' = [A EXCEPT ![c] = {IF req[c].op = "index" THEN List(<<>>) ELSE Failed}]
                 /\ UNCHANGED <<disk, req>>) => UL!ListNext
             /\ (/\ A[c] # {} /\ UNCHANGED disk
                 /\ req' = [req EXCEPT ![c] = NoRequest]
                 /\ A' = [A EXCEPT ![c] = {}]) => UL!ListNext
    <2>1. A = [d \in Clients |-> IF pc[d] \in {"cleanup", "unlock", "reply"} THEN {result[d]} ELSE {}]
        BY DEF AnswerOf
    <2>2. A' = [d \in Clients |-> IF pc'[d] \in {"cleanup", "unlock", "reply"} THEN {result'[d]} ELSE {}]
        BY DEF AnswerOf
    <2> HIDE DEF A
    <2>3. (/\ req[c] = NoRequest /\ UNCHANGED <<disk, A>>
           /\ \E r \in Requests : req' = [req EXCEPT ![c] = r]) => UL!Ask(c)
        BY <2>1, <2>2, SameUrls DEF UL!Ask
    <2>4. (/\ req[c] # NoRequest /\ A[c] = {} /\ disk.ok
           /\ req[c].op = "add" => Accepted(req[c].url)
           /\ disk' = UL!Effect(req[c]) /\ A' = [A EXCEPT ![c] = {disk'}]
           /\ UNCHANGED req) => UL!TakeEffect(c)
        BY <2>1, <2>2, SameUrls DEF UL!TakeEffect
    <2>5. (/\ req[c] # NoRequest /\ A[c] = {}
           /\ A' = [A EXCEPT ![c] = {IF req[c].op = "index" THEN List(<<>>) ELSE Failed}]
           /\ UNCHANGED <<disk, req>>) => UL!Fail(c)
        BY <2>1, <2>2, SameUrls DEF UL!Fail, UL!FailureAnswer
    <2>6. (/\ A[c] # {} /\ UNCHANGED disk
           /\ req' = [req EXCEPT ![c] = NoRequest]
           /\ A' = [A EXCEPT ![c] = {}]) => UL!Done(c)
        BY <2>1, <2>2, SameUrls DEF UL!Done
    <2> QED
        BY <2>3, <2>4, <2>5, <2>6 DEF UL!ListNext
<1>s. (UNCHANGED <<disk, req, A>>) => [UL!ListNext]_(UL!listVars)
    BY <1>a DEF UL!listVars, AnswerOf
<1> USE DEF WebInv, TypeOK, RequestKnown, DraftIsEffect, Working, Goto, Return
<1>1. CASE Crash
    <2>1. A' = [c \in Clients |-> {}]
        BY <1>1 DEF Crash, AnswerOf
    <2>2. UL!Forget
        BY <1>1, <2>1, SameUrls DEF Crash, UL!Forget, AnswerOf
    <2> QED
        BY <2>2 DEF UL!ListNext
<1>2. ASSUME NEW c \in Clients, Begin(c) PROVE UL!ListNext
    <2>1. A' = A
        BY <1>2 DEF Begin, AnswerOf
    <2> HIDE DEF A
    <2> QED
        BY <1>2, <2>1, <1>f DEF Begin
\* The answer of c is settled, or its request is over.
<1>g. ASSUME NEW c \in Clients, NEW label, pc' = [pc EXCEPT ![c] = label],
             NEW r, result' = [result EXCEPT ![c] = r]
      PROVE  A' = [A EXCEPT ![c] = IF label \in {"cleanup", "unlock", "reply"} THEN {r} ELSE {}]
    BY <1>g DEF AnswerOf
<1>h. ASSUME NEW c \in Clients, pc[c] \in {"lock", "load", "create", "write", "rename"}
      PROVE  A[c] = {} /\ req[c] # NoRequest
    BY <1>h DEF AnswerOf
<1>i. ASSUME NEW c \in Clients, NEW label, pc' = [pc EXCEPT ![c] = label], UNCHANGED result,
             pc[c] \in {"cleanup", "unlock", "reply"} <=> label \in {"cleanup", "unlock", "reply"}
      PROVE  A' = A
    BY <1>i DEF AnswerOf
<1> HIDE DEF A
<1>3. ASSUME NEW c \in Clients, BadForm(c) PROVE UL!ListNext
    <2>1. A' = [A EXCEPT ![c] = {Failed}]
        BY <1>3, <1>g DEF BadForm
    <2> QED
        BY <1>3, <2>1, <1>h, <1>f DEF BadForm
<1>4. ASSUME NEW c \in Clients, Lock(c) PROVE UNCHANGED <<disk, req, A>>
    BY <1>4, <1>i DEF Lock
<1>5. ASSUME NEW c \in Clients, Unlock(c) PROVE UNCHANGED <<disk, req, A>>
    BY <1>5, <1>i DEF Unlock
<1>6. ASSUME NEW c \in Clients, Reply(c) PROVE UL!ListNext
    <2>1. A' = [A EXCEPT ![c] = {}]
        BY <1>6, <1>g DEF Reply
    <2>2. A[c] # {}
        BY <1>6, <1>d DEF Reply, AnswerOf
    <2> QED
        BY <1>6, <2>1, <2>2, <1>f DEF Reply
<1>7. ASSUME NEW c \in Clients, LoadIndex(c) PROVE UL!ListNext
    <2>1. PICK l \in Load : result' = [result EXCEPT ![c] = IF l.ok THEN l ELSE List(<<>>)]
        BY <1>7 DEF LoadIndex
    <2>2. pc[c] = "load" /\ req[c].op = "index" /\ UNCHANGED <<disk, req>> /\ pc' = [pc EXCEPT ![c] = "reply"]
        BY <1>7 DEF LoadIndex
    <2>3. A' = [A EXCEPT ![c] = {IF l.ok THEN l ELSE List(<<>>)}]
        BY <2>1, <2>2, <1>g
    <2>4. CASE l.ok
        <3>1. l = disk /\ disk.ok
            BY <2>4, <2>1, LoadTypes
        <3>2. UL!Effect(req[c]) = disk
            BY <2>2, EffectOf
        <3>3. A' = [A EXCEPT ![c] = {disk'}]
            BY <2>3, <2>4, <3>1, <2>2
        <3> QED
            BY <2>2, <3>1, <3>2, <3>3, <1>h, <1>f
    <2>5. CASE ~l.ok
        BY <2>5, <2>2, <2>3, <1>h, <1>f
    <2> QED
        BY <2>4, <2>5
<1>8. ASSUME NEW c \in Clients, LoadAdd(c) PROVE [UL!ListNext]_(UL!listVars)
    <2>1. PICK l \in Load :
              \/ /\ ~Accepted(req[c].url) \/ ~l.ok \/ Present(l.urls, req[c].url)
                 /\ result' = [result EXCEPT ![c] = IF Accepted(req[c].url) THEN l ELSE Failed]
                 /\ pc' = [pc EXCEPT ![c] = "unlock"]
              \/ /\ pc' = [pc EXCEPT ![c] = "create"]
                 /\ UNCHANGED result
        BY <1>8 DEF LoadAdd
    <2>2. pc[c] = "load" /\ req[c].op = "add" /\ UNCHANGED <<disk, req>>
        BY <1>8 DEF LoadAdd
    <2>3. CASE pc' = [pc EXCEPT ![c] = "create"] /\ UNCHANGED result
        BY <2>2, <2>3, <1>i, <1>s
    <2>4. CASE /\ ~Accepted(req[c].url) \/ ~l.ok \/ Present(l.urls, req[c].url)
               /\ result' = [result EXCEPT ![c] = IF Accepted(req[c].url) THEN l ELSE Failed]
               /\ pc' = [pc EXCEPT ![c] = "unlock"]
        <3>1. A' = [A EXCEPT ![c] = {IF Accepted(req[c].url) THEN l ELSE Failed}]
            BY <2>4, <1>g
        <3>2. CASE ~Accepted(req[c].url) \/ ~l.ok
            <4>1. (IF Accepted(req[c].url) THEN l ELSE Failed) = Failed
                BY <3>2, LoadTypes
            <4> QED
                BY <2>2, <3>1, <4>1, <1>h, <1>f
        <3>3. CASE Accepted(req[c].url) /\ l.ok
            <4>1. l = disk /\ disk.ok /\ Present(disk.urls, req[c].url)
                BY <3>3, <2>4, LoadTypes
            <4>2. UL!Effect(req[c]) = disk
                BY <2>2, <4>1, EffectOf DEF Present
            <4>3. A' = [A EXCEPT ![c] = {disk'}]
                BY <3>1, <3>3, <4>1, <2>2
            <4> QED
                BY <2>2, <3>3, <4>1, <4>2, <4>3, <1>h, <1>f
        <3> QED
            BY <3>2, <3>3
    <2> QED
        BY <2>1, <2>3, <2>4
<1>9. ASSUME NEW c \in Clients, LoadRemove(c) PROVE [UL!ListNext]_(UL!listVars)
    <2>1. PICK l \in Load :
              \/ /\ ~l.ok \/ Target(req[c].url) \intersect Members(l.urls) = {}
                 /\ result' = [result EXCEPT ![c] = l]
                 /\ pc' = [pc EXCEPT ![c] = "unlock"]
              \/ /\ pc' = [pc EXCEPT ![c] = "create"]
                 /\ UNCHANGED result
        BY <1>9 DEF LoadRemove
    <2>2. pc[c] = "load" /\ req[c].op = "remove" /\ UNCHANGED <<disk, req>>
        BY <1>9 DEF LoadRemove
    <2>3. CASE pc' = [pc EXCEPT ![c] = "create"] /\ UNCHANGED result
        BY <2>2, <2>3, <1>i, <1>s
    <2>4. CASE /\ ~l.ok \/ Target(req[c].url) \intersect Members(l.urls) = {}
               /\ result' = [result EXCEPT ![c] = l]
               /\ pc' = [pc EXCEPT ![c] = "unlock"]
        <3>1. A' = [A EXCEPT ![c] = {l}]
            BY <2>4, <1>g
        <3>2. CASE ~l.ok
            <4>1. l = Failed
                BY <3>2, LoadTypes
            <4> QED
                BY <2>2, <3>1, <4>1, <1>h, <1>f
        <3>3. CASE l.ok
            <4>1. l = disk /\ disk.ok /\ Target(req[c].url) \intersect Members(disk.urls) = {}
                BY <3>3, <2>4, LoadTypes
            <4>2. UL!Effect(req[c]) = disk
                BY <2>2, <4>1, EffectOf
            <4> QED
                BY <2>2, <3>1, <4>1, <4>2, <1>h, <1>f
        <3> QED
            BY <3>2, <3>3
    <2> QED
        BY <2>1, <2>3, <2>4
<1>10. ASSUME NEW c \in Clients, CreateTemp(c) \/ WriteTemp(c) \/ Cleanup(c)
       PROVE  UNCHANGED <<disk, req, A>>
    BY <1>10, <1>i DEF CreateTemp, WriteTemp, Cleanup
<1>11. ASSUME NEW c \in Clients, CreateTempFails(c) \/ WriteTempFails(c) \/ RenameFails(c)
       PROVE  UL!ListNext
    <2>1. /\ pc[c] \in {"create", "write", "rename"} /\ UNCHANGED <<disk, req>>
          /\ result' = [result EXCEPT ![c] = Failed]
          /\ \E label \in {"cleanup", "unlock"} : pc' = [pc EXCEPT ![c] = label]
        BY <1>11 DEF CreateTempFails, WriteTempFails, RenameFails
    <2>2. A' = [A EXCEPT ![c] = {Failed}]
        BY <2>1, <1>g
    <2>3. req[c].op # "index"
        BY <2>1
    <2> QED
        BY <2>1, <2>2, <2>3, <1>h, <1>f
<1>12. ASSUME NEW c \in Clients, Rename(c) PROVE UL!ListNext
    <2>1. /\ pc[c] = "rename" /\ UNCHANGED req /\ disk' = temp[c]
          /\ result' = [result EXCEPT ![c] = List(draft[c])]
          /\ pc' = [pc EXCEPT ![c] = "cleanup"]
        BY <1>12 DEF Rename
    <2>2. disk' = UL!Effect(req[c]) /\ List(draft[c]) = disk' /\ disk.ok
          /\ (req[c].op = "add" => Accepted(req[c].url))
        BY <2>1
    <2>3. A' = [A EXCEPT ![c] = {disk'}]
        BY <2>1, <2>2, <1>g
    <2> QED
        BY <2>1, <2>2, <2>3, <1>h, <1>f
<1>13. CASE UNCHANGED vars
    BY <1>13, <1>s DEF vars, A, AnswerOf
<1> QED
    BY <1>1, <1>2, <1>3, <1>4, <1>5, <1>6, <1>7, <1>8, <1>9, <1>10, <1>11, <1>12, <1>13, <1>s
    DEF Next, Step

\* Any number of clients, any requests, failing file operations and crashes:
\* the store behaves as one list that each request changes at one instant
\* (server.go:125-155, store.go:36-98).
THEOREM StoreImplementsUrlList == Spec => ImplementsUrlList
<1>1. WebInv /\ [Next]_vars => [UL!ListNext]_(UL!listVars)
    BY ListStepMapped
<1> QED
    BY <1>1, WebInit, WebNext, ListInitMapped, PTL DEF Spec, ImplementsUrlList, UL!ListSpec

\* No request makes the stored list hold a URL twice.
LEMMA EffectIsDistinct ==
    ASSUME disk \in Outcome, Distinct(disk.urls), NEW r, r.url \in URL
    PROVE  Distinct(UL!Effect(r).urls)
<1>1. disk.urls \in Seq(URL) /\ normalizeURL(r.url) \in URL
    BY OutcomeTypes DEF normalizeURL, URL
<1>2. \A s : List(s).urls = s
    BY DEF List
<1>3. Distinct(Removed(disk.urls, r.url))
    BY <1>1, RemovedMembers
<1>4. ASSUME normalizeURL(r.url) \notin Members(disk.urls)
      PROVE  Distinct(Added(disk.urls, r.url))
    <2> DEFINE s == disk.urls
               v == normalizeURL(r.url)
    <2>1. \A i \in DOMAIN s : s[i] # v
        BY <1>4 DEF Members
    <2> HIDE DEF s, v
    <2>2. s \in Seq(URL) /\ v \in URL /\ Distinct(s)
        BY <1>1 DEF s, v
    <2>3. DOMAIN Append(s, v) = 1..(Len(s) + 1) /\ DOMAIN s = 1..Len(s) /\ Len(s) \in Nat
        BY <2>2
    <2>4. \A i \in DOMAIN Append(s, v) : Append(s, v)[i] = IF i = Len(s) + 1 THEN v ELSE s[i]
        BY <2>2
    <2>5. Distinct(Append(s, v))
        BY <2>1, <2>2, <2>3, <2>4 DEF Distinct
    <2> QED
        BY <2>5 DEF Added, s, v
<1> QED
    BY <1>2, <1>3, <1>4, EffectOf

\* A list without a repeated URL never gets one, however many adds and removes
\* race and fail (store.go:36-61); a list edited by hand may start with one.
THEOREM StoreKeepsDistinct == Spec => (NoDuplicates => []NoDuplicates)
<1>0. NoDuplicates <=> Distinct(disk.urls)
    BY DEF NoDuplicates, Distinct
<1>1. WebInv /\ NoDuplicates /\ [Next]_vars => NoDuplicates'
    <2> SUFFICES ASSUME WebInv, NoDuplicates, [Next]_vars PROVE NoDuplicates'
        OBVIOUS
    <2>1. CASE UNCHANGED disk
        BY <2>1 DEF NoDuplicates
    <2>2. ASSUME NEW c \in Clients, Rename(c) PROVE NoDuplicates'
        <3>1. disk' = UL!Effect(req[c])
            BY <2>2 DEF Rename, WebInv, DraftIsEffect
        <3>2. req[c].url \in URL
            <4>1. req[c] # NoRequest /\ req[c] \in Requests \union {NoRequest}
                BY <2>2 DEF Rename, WebInv, RequestKnown, TypeOK
            <4> QED
                BY <4>1, RequestsAssumption DEF Request
        <3>3. disk \in Outcome
            BY DEF WebInv, TypeOK
        <3>4. Distinct(disk'.urls)
            BY <3>1, <3>2, <3>3, <1>0, EffectIsDistinct
        <3> QED
            BY <3>4 DEF NoDuplicates, Distinct
    <2> QED
        BY <2>1, <2>2 DEF Next, Step, Crash, Begin, BadForm, Lock, Unlock, Reply, LoadIndex, LoadAdd,
           LoadRemove, CreateTemp, CreateTempFails, WriteTemp, WriteTempFails, RenameFails, Cleanup, vars
<1> QED
    BY <1>1, WebInit, WebNext, PTL DEF Spec

\* Whoever holds the mutex is an add or a remove on its way to Unlock.
MutexIsOwned ==
    \A c \in Clients : storeMu = c => pc[c] \in Working /\ req[c].op \in {"add", "remove"}

\* No path leaves the mutex locked: failing loads and writes go on to Unlock,
\* and an index request or a bad form never has it.  This is the safety half of
\* Answered (server.go:127-129, 153-155).
THEOREM MutexNotLeaked == Spec => []MutexIsOwned
<1>1. Init => MutexIsOwned
    BY ClientsAssumption DEF Init, MutexIsOwned
<1>2. ASSUME WebInv, MutexIsOwned, [Next]_vars PROVE MutexIsOwned'
    <2> USE DEF MutexIsOwned, Goto, Return
    <2>0. /\ pc \in [Clients -> {"idle", "lock", "reply"} \union Working]
          /\ req \in [Clients -> Requests \union {NoRequest}]
          /\ \A r \in Requests : r.op \in {"index", "add", "remove"}
          /\ NoRequest.op = "none"
        BY <1>2, RequestsAssumption DEF WebInv, TypeOK, Request, NoRequest
    <2>a. \A c \in Clients : pc[c] \in {"lock"} \union (Working \ {"load"}) => req[c].op # "index"
        BY <1>2 DEF WebInv, RequestKnown
    <2>b. \A c \in Clients : pc[c] = "lock" => req[c] # NoRequest
        BY <1>2 DEF WebInv, RequestKnown
    <2>1. CASE UNCHANGED vars
        BY <1>2, <2>1 DEF vars
    <2>2. CASE Crash
        BY <2>2, ClientsAssumption DEF Crash
    <2>3. ASSUME NEW c \in Clients, Begin(c) \/ BadForm(c) \/ Reply(c) PROVE MutexIsOwned'
        BY <1>2, <2>0, <2>3 DEF Begin, BadForm, Reply, Working
    <2>4. ASSUME NEW c \in Clients, Lock(c) PROVE MutexIsOwned'
        BY <1>2, <2>0, <2>a, <2>b, <2>4 DEF Lock, Working
    <2>5. ASSUME NEW c \in Clients, Unlock(c) PROVE MutexIsOwned'
        BY <2>5, ClientsAssumption DEF Unlock
    <2>6. ASSUME NEW c \in Clients, LoadIndex(c) PROVE MutexIsOwned'
        BY <1>2, <2>0, <2>6 DEF LoadIndex
    <2>7. ASSUME NEW c \in Clients, LoadAdd(c) \/ LoadRemove(c) PROVE MutexIsOwned'
        <3>1. /\ UNCHANGED <<storeMu, req>>
              /\ \E l \in {"unlock", "create"} : pc' = [pc EXCEPT ![c] = l]
            BY <2>7 DEF LoadAdd, LoadRemove
        <3> QED
            BY <1>2, <2>0, <3>1 DEF Working
    <2>8. ASSUME NEW c \in Clients,
                 \/ CreateTemp(c) \/ CreateTempFails(c) \/ WriteTemp(c) \/ WriteTempFails(c)
                 \/ Rename(c) \/ RenameFails(c) \/ Cleanup(c)
          PROVE  MutexIsOwned'
        <3>1. /\ UNCHANGED <<storeMu, req>>
              /\ \E l \in {"write", "unlock", "rename", "cleanup"} : pc' = [pc EXCEPT ![c] = l]
            BY <2>8 DEF CreateTemp, CreateTempFails, WriteTemp, WriteTempFails, Rename, RenameFails, Cleanup
        <3> QED
            BY <1>2, <2>0, <3>1 DEF Working
    <2> QED
        BY <1>2, <2>1, <2>2, <2>3, <2>4, <2>5, <2>6, <2>7, <2>8 DEF Next, Step
<1> QED
    BY <1>1, <1>2, WebInit, WebNext, PTL DEF Spec

-----------------------------------------------------------------------------
(* The job log *)

\* JobInfo has its fields.
JobFields ==
    job = [StartEpoch |-> job.StartEpoch, EndEpoch |-> job.EndEpoch, Phases |-> job.Phases,
           CrashFrames |-> job.CrashFrames, once |-> job.once, last |-> job.last, all |-> job.all]

\* The window is unset until the first section, then the hull.
WindowInv ==
    /\ job.StartEpoch \in Nat /\ job.EndEpoch \in Nat
    /\ WindowIsHull
    /\ (Epochs # {} /\ 0 \notin Epochs) => job.StartEpoch # 0

SectionsOf(lines) == {i \in DOMAIN lines : lines[i].kind = "section"}

\* Line i starts section n at epoch ep, and no line between i and last is
\* about that section.
Starts(lines, i, n, ep, last) ==
    /\ i \in SectionsOf(lines) /\ i < last
    /\ lines[i].mark = "start" /\ lines[i].name = n /\ ParseInt(lines[i].ep) = ep
    /\ \A k \in SectionsOf(lines) : (i < k /\ k < last) => lines[k].name # n

\* Line i ends section n at epoch ep.
Ends(lines, i, n, ep) ==
    /\ i \in SectionsOf(lines)
    /\ lines[i].mark = "end" /\ lines[i].name = n /\ ParseInt(lines[i].ep) = ep

\* A start that waits for its end is the last line of its section so far.
PhaseInv ==
    /\ \A n \in DOMAIN phaseStart : \E i \in Sections : Starts(log, i, n, phaseStart[n], Len(log) + 1)
    /\ \A p \in job.Phases :
         /\ p.line \in 1..Len(log)
         /\ \E i \in Sections : Starts(log, i, p.name, p.start, p.line)
         /\ Ends(log, p.line, p.name, p.end)

Frames == {i \in DOMAIN log : log[i].kind = "frame"}
Num(i) == ParseInt(log[i].num)

\* frameByNum maps the frame numbers of the log to the first frame of each.
FrameInv ==
    /\ IsFiniteSet(DOMAIN frameByNum)
    /\ DOMAIN frameByNum = {Num(i) : i \in Frames}
    /\ \A i \in Frames : Num(i) \in Nat
    /\ \A i \in Frames : (\A g \in Frames : Num(g) = Num(i) => i <= g) => frameByNum[Num(i)] = log[i].text

ScanInv == log \in Seq(Lines) /\ JobFields /\ WindowInv /\ PhaseInv /\ FrameInv

\* Reading a line appends it to the log.
LEMMA ScanFacts ==
    ASSUME log \in Seq(Lines), NEW ln \in Lines, log' = Append(log, ln)
    PROVE  /\ log' \in Seq(Lines) /\ Len(log) \in Nat /\ Len(log') = Len(log) + 1
           /\ DOMAIN log = 1..Len(log) /\ DOMAIN log' = 1..(Len(log) + 1)
           /\ \A i \in 1..Len(log) : log'[i] = log[i]
           /\ log'[Len(log) + 1] = ln
           /\ Sections' = IF ln.kind = "section" THEN Sections \union {Len(log) + 1} ELSE Sections
           /\ Epochs' = IF ln.kind = "section" THEN Epochs \union {ParseInt(ln.ep)} ELSE Epochs
           /\ Frames' = IF ln.kind = "frame" THEN Frames \union {Len(log) + 1} ELSE Frames
           /\ \A i \in Sections \union Frames : i \in 1..Len(log) /\ log'[i] = log[i]
<1>1. /\ log' \in Seq(Lines) /\ Len(log) \in Nat /\ Len(log') = Len(log) + 1
      /\ DOMAIN log = 1..Len(log) /\ DOMAIN log' = 1..(Len(log) + 1)
      /\ \A i \in 1..Len(log) : log'[i] = log[i]
      /\ log'[Len(log) + 1] = ln
    OBVIOUS
<1>2. Sections' = IF ln.kind = "section" THEN Sections \union {Len(log) + 1} ELSE Sections
    BY <1>1 DEF Sections
<1>3. Frames' = IF ln.kind = "frame" THEN Frames \union {Len(log) + 1} ELSE Frames
    BY <1>1 DEF Frames
<1>4. \A i \in Sections \union Frames : i \in 1..Len(log) /\ log'[i] = log[i]
    BY <1>1 DEF Sections, Frames
<1>5. Epochs' = IF ln.kind = "section" THEN Epochs \union {ParseInt(ln.ep)} ELSE Epochs
    <2>1. Epochs' = {ParseInt(log'[i].ep) : i \in Sections'}
        BY DEF Epochs
    <2> QED
        BY <2>1, <1>1, <1>2, <1>4 DEF Epochs
<1> QED
    BY <1>1, <1>2, <1>3, <1>4, <1>5

LEMMA ParseIntType == \A n \in Nat : ParseInt(n) \in Nat
BY LogBoundsAssumption DEF ParseInt

\* A section line extends the window, and starts or ends a phase.
LEMMA ReadSectionStep ==
    ASSUME ScanInv, NEW ln \in SectionLines, ReadSection(ln), log' = Append(log, ln)
    PROVE  ScanInv'
<1> DEFINE ep == ParseInt(ln.ep)
           L == Len(log) + 1
<1>1. ln \in Lines /\ ln.kind = "section" /\ ln.ep \in Nat /\ ln.mark \in {"start", "end"} /\ ep \in Nat
    BY LinesAssumption, ParseIntType DEF SectionLines
<1>2. /\ log' \in Seq(Lines) /\ Len(log) \in Nat /\ Len(log') = L
      /\ \A i \in 1..Len(log) : log'[i] = log[i]
      /\ log'[L] = ln
      /\ Sections' = Sections \union {L}
      /\ Epochs' = Epochs \union {ep}
      /\ Frames' = Frames
      /\ \A i \in Sections \union Frames : i \in 1..Len(log) /\ log'[i] = log[i]
    BY <1>1, ScanFacts DEF ScanInv
<1>3. L \in Nat /\ \A i \in Sections : i < L /\ i \in Nat
    BY <1>2
<1> DEFINE paired == ln.mark = "end" /\ ln.name \in DOMAIN phaseStart
           new == [name |-> ln.name, start |-> phaseStart[ln.name], end |-> ep, line |-> L]
<1>4. /\ job' = [job EXCEPT !.StartEpoch = ExtendStart(@, ep),
                            !.EndEpoch = IF ep > @ THEN ep ELSE @,
                            !.Phases = @ \union IF paired THEN {new} ELSE {}]
      /\ frameByNum' = frameByNum
    BY DEF ReadSection
<1>5. /\ JobFields'
      /\ job'.StartEpoch = ExtendStart(job.StartEpoch, ep)
      /\ job'.EndEpoch = IF ep > job.EndEpoch THEN ep ELSE job.EndEpoch
      /\ job'.Phases = job.Phases \union IF paired THEN {new} ELSE {}
      /\ job'.CrashFrames = job.CrashFrames
    <2> HIDE DEF ep, L, paired, new
    <2> QED
        BY <1>4 DEF ScanInv, JobFields
<1>6. phaseStart' =
          CASE ln.mark = "start" -> [n \in DOMAIN phaseStart \union {ln.name} |->
                                        IF n = ln.name THEN ep ELSE phaseStart[n]]
            [] paired            -> Unpair(ln.name)
            [] OTHER             -> phaseStart
    BY DEF ReadSection
<1> HIDE DEF ep, L
<1>7. WindowInv'
    <2>1. \A e \in Epochs : e \in Nat
        BY LinesAssumption, ParseIntType, <1>2 DEF Epochs, Sections, ScanInv
    <2>2. /\ job.StartEpoch \in Nat /\ job.EndEpoch \in Nat
          /\ job.StartEpoch <= job.EndEpoch
          /\ \A e \in Epochs : e <= job.EndEpoch
          /\ job.StartEpoch \in Epochs \union {0}
          /\ 0 \notin Epochs => \A e \in Epochs : job.StartEpoch <= e
          /\ (Epochs # {} /\ 0 \notin Epochs) => job.StartEpoch # 0
        BY DEF ScanInv, WindowInv, WindowIsHull
    <2> DEFINE s == job'.StartEpoch
               e2 == job'.EndEpoch
               E == Epochs'
    <2>3. s \in Nat /\ e2 \in Nat /\ s <= e2 /\ \A e \in E : e <= e2
        BY <1>1, <1>2, <1>5, <2>1, <2>2 DEF ExtendStart
    <2>4. s \in E \union {0}
        BY <1>1, <1>2, <1>5, <2>2 DEF ExtendStart
    <2>5. 0 \notin E => s # 0 /\ \A e \in E : s <= e
        BY <1>1, <1>2, <1>5, <2>1, <2>2 DEF ExtendStart
    <2> QED
        BY <2>3, <2>4, <2>5 DEF WindowInv, WindowIsHull
<1>8. ASSUME NEW i \in Sections, NEW n, NEW e, NEW last \in 1..L, Starts(log, i, n, e, last)
      PROVE  Starts(log', i, n, e, last)
    <2>1. \A k \in Sections' : k < last => k \in Sections
        BY <1>2, <1>3
    <2> QED
        BY <1>2, <1>8, <2>1 DEF Starts, SectionsOf, Sections
<1>9. ASSUME NEW i \in Sections, NEW n, NEW e, n # ln.name, Starts(log, i, n, e, L)
      PROVE  Starts(log', i, n, e, L + 1)
    <2>1. \A k \in Sections' : k = L \/ k \in Sections
        BY <1>2
    <2>2. i \in Sections' /\ i < L + 1
        BY <1>2, <1>3
    <2> QED
        BY <1>2, <1>3, <1>9, <2>1, <2>2 DEF Starts, SectionsOf, Sections
<1>11. \A n \in DOMAIN phaseStart' : \E i \in Sections' : Starts(log', i, n, phaseStart'[n], Len(log') + 1)
    <2> SUFFICES ASSUME NEW n \in DOMAIN phaseStart'
                 PROVE  \E i \in Sections' : Starts(log', i, n, phaseStart'[n], L + 1)
        BY <1>2
    <2>1. CASE ln.mark = "start" /\ n = ln.name
        <3>1. phaseStart'[n] = ep
            BY <2>1, <1>6
        <3>2. L \in Sections' /\ L < L + 1 /\ \A k \in Sections' : ~(L < k /\ k < L + 1)
            BY <1>2, <1>3
        <3> QED
            BY <2>1, <3>1, <3>2, <1>2 DEF Starts, SectionsOf, Sections, ep
    <2>2. CASE n # ln.name /\ n \in DOMAIN phaseStart /\ phaseStart'[n] = phaseStart[n]
        <3>1. PICK i \in Sections : Starts(log, i, n, phaseStart[n], L)
            BY <2>2 DEF ScanInv, PhaseInv, L
        <3>2. Starts(log', i, n, phaseStart[n], L + 1)
            BY <3>1, <2>2, <1>9
        <3> QED
            BY <2>2, <3>2, <1>2 DEF Starts, SectionsOf, Sections
    <2>3. \/ ln.mark = "start" /\ n = ln.name
          \/ n # ln.name /\ n \in DOMAIN phaseStart /\ phaseStart'[n] = phaseStart[n]
        <3>1. CASE ln.mark = "start"
            BY <3>1, <1>6
        <3>2. CASE paired
            BY <3>2, <1>6 DEF Unpair
        <3>3. CASE ln.mark # "start" /\ ~paired
            BY <3>3, <1>1, <1>6
        <3> QED
            BY <3>1, <3>2, <3>3
    <2> QED
        BY <2>1, <2>2, <2>3
<1>12. ASSUME NEW p \in job'.Phases
       PROVE  /\ p.line \in 1..Len(log') /\ \E i \in Sections' : Starts(log', i, p.name, p.start, p.line)
              /\ Ends(log', p.line, p.name, p.end)
    <2>1. CASE p \in job.Phases
        <3>1. /\ p.line \in 1..Len(log) /\ \E i \in Sections : Starts(log, i, p.name, p.start, p.line)
              /\ Ends(log, p.line, p.name, p.end)
            BY <2>1 DEF ScanInv, PhaseInv
        <3>2. p.line \in 1..L
            BY <3>1, <1>2, <1>3 DEF L
        <3>3. Ends(log', p.line, p.name, p.end)
            BY <3>1, <1>2 DEF Ends, SectionsOf, Sections
        <3> QED
            BY <3>1, <3>2, <3>3, <1>2, <1>8
    <2>2. CASE p = new /\ paired
        <3>1. PICK i \in Sections : Starts(log, i, ln.name, phaseStart[ln.name], L)
            BY <2>2 DEF ScanInv, PhaseInv, L
        <3>2. p.name = ln.name /\ p.start = phaseStart[ln.name] /\ p.line = L /\ L \in 1..L
            BY <2>2, <1>3, <1>2 DEF L
        <3>3. Starts(log', i, p.name, p.start, p.line)
            BY <3>1, <3>2, <1>8
        <3>4. p.end = ep
            BY <2>2
        <3>5. Ends(log', p.line, p.name, p.end)
            BY <2>2, <3>2, <3>4, <1>2 DEF Ends, SectionsOf, Sections, ep
        <3> QED
            BY <3>2, <3>3, <3>5, <1>2
    <2> QED
        BY <2>1, <2>2, <1>5
<1>13. PhaseInv'
    BY <1>2, <1>11, <1>12 DEF PhaseInv, L
<1>10. FrameInv'
    <2>1. \A i \in Frames : Num(i)' = Num(i) /\ log'[i].text = log[i].text
        BY <1>2 DEF Num
    <2> QED
        BY <1>2, <1>4, <2>1 DEF ScanInv, FrameInv
<1> QED
    BY <1>2, <1>5, <1>7, <1>10, <1>13 DEF ScanInv

\* A line that is no section leaves the window and the phases alone.
LEMMA OtherLineStep ==
    ASSUME ScanInv, NEW ln \in Lines, ln.kind # "section", log' = Append(log, ln),
           job'.StartEpoch = job.StartEpoch, job'.EndEpoch = job.EndEpoch,
           job'.Phases = job.Phases, UNCHANGED phaseStart
    PROVE  WindowInv' /\ PhaseInv'
<1>1. /\ log' \in Seq(Lines) /\ Len(log) \in Nat /\ Len(log') = Len(log) + 1
      /\ \A i \in 1..Len(log) : log'[i] = log[i]
      /\ Sections' = Sections /\ Epochs' = Epochs
      /\ \A i \in Sections : i \in 1..Len(log) /\ log'[i] = log[i]
    BY ScanFacts DEF ScanInv
<1>2. WindowInv'
    BY <1>1 DEF ScanInv, WindowInv, WindowIsHull
<1>3. ASSUME NEW i \in Sections, NEW n, NEW e, NEW last \in 1..(Len(log) + 1), Starts(log, i, n, e, last)
      PROVE  Starts(log', i, n, e, last) /\ (last = Len(log) + 1 => Starts(log', i, n, e, last + 1))
    <2>1. SectionsOf(log') = Sections /\ SectionsOf(log) = Sections
        BY <1>1 DEF SectionsOf, Sections
    <2>2. \A k \in Sections : k \in Nat /\ k < Len(log) + 1 /\ log'[k] = log[k]
        BY <1>1
    <2> QED
        BY <1>1, <1>3, <2>1, <2>2 DEF Starts
<1>4. \A n \in DOMAIN phaseStart' : \E i \in Sections' : Starts(log', i, n, phaseStart'[n], Len(log') + 1)
    <2> SUFFICES ASSUME NEW n \in DOMAIN phaseStart
                 PROVE  \E i \in Sections : Starts(log', i, n, phaseStart[n], Len(log) + 2)
        BY <1>1
    <2>1. PICK i \in Sections : Starts(log, i, n, phaseStart[n], Len(log) + 1)
        BY DEF ScanInv, PhaseInv
    <2>2. Len(log) + 1 \in 1..(Len(log) + 1) /\ (Len(log) + 1) + 1 = Len(log) + 2
        BY <1>1
    <2>3. Starts(log', i, n, phaseStart[n], (Len(log) + 1) + 1)
        BY <2>1, <2>2, <1>3
    <2> QED
        BY <2>2, <2>3
<1>5. ASSUME NEW p \in job'.Phases
      PROVE  /\ p.line \in 1..Len(log') /\ \E i \in Sections' : Starts(log', i, p.name, p.start, p.line)
             /\ Ends(log', p.line, p.name, p.end)
    <2>1. /\ p.line \in 1..Len(log) /\ \E i \in Sections : Starts(log, i, p.name, p.start, p.line)
          /\ Ends(log, p.line, p.name, p.end)
        BY <1>5 DEF ScanInv, PhaseInv
    <2>2. p.line \in 1..(Len(log) + 1)
        BY <2>1, <1>1
    <2>3. Ends(log', p.line, p.name, p.end)
        BY <2>1, <1>1 DEF Ends, SectionsOf, Sections
    <2> QED
        BY <2>1, <2>2, <2>3, <1>1, <1>3
<1>6. PhaseInv'
    BY <1>4, <1>5 DEF PhaseInv
<1> QED
    BY <1>2, <1>6

\* A line that is no frame leaves the frames alone.
LEMMA NoFrameStep ==
    ASSUME ScanInv, NEW ln \in Lines, ln.kind # "frame", log' = Append(log, ln), UNCHANGED frameByNum
    PROVE  FrameInv'
<1>1. Frames' = Frames /\ \A i \in Frames : log'[i] = log[i]
    BY ScanFacts DEF ScanInv
<1> DEFINE N(i) == ParseInt(log'[i].num)
<1>2. \A i \in Frames : N(i) = Num(i) /\ log'[i].text = log[i].text
    BY <1>1 DEF Num
<1> HIDE DEF N
<1>3. /\ DOMAIN frameByNum = {N(i) : i \in Frames}
      /\ \A i \in Frames : N(i) \in Nat
      /\ \A i \in Frames : (\A g \in Frames : N(g) = N(i) => i <= g) => frameByNum[N(i)] = log'[i].text
    <2>1. /\ DOMAIN frameByNum = {Num(i) : i \in Frames}
          /\ \A i \in Frames : Num(i) \in Nat
          /\ \A i \in Frames : (\A g \in Frames : Num(g) = Num(i) => i <= g) => frameByNum[Num(i)] = log[i].text
        BY DEF ScanInv, FrameInv
    <2>2. ASSUME NEW i \in Frames, \A g \in Frames : N(g) = N(i) => i <= g
          PROVE  frameByNum[N(i)] = log'[i].text
        <3>1. \A g \in Frames : Num(g) = Num(i) => i <= g
            BY <2>2, <1>2
        <3> QED
            BY <3>1, <2>1, <1>2
    <2>3. DOMAIN frameByNum = {N(i) : i \in Frames} /\ \A i \in Frames : N(i) \in Nat
        BY <2>1, <1>2
    <2> QED
        BY <2>2, <2>3
<1> QED
    BY <1>1, <1>3 DEF ScanInv, FrameInv, Num, N

\* A frame line is remembered if it is the first with its number.
LEMMA ReadFrameStep ==
    ASSUME ScanInv, NEW ln \in FrameLines, ReadFrame(ln), log' = Append(log, ln)
    PROVE  ScanInv'
<1> DEFINE L == Len(log) + 1
           num == ParseInt(ln.num)
<1>1. ln \in Lines /\ ln.kind = "frame" /\ num \in Nat
    BY LinesAssumption, ParseIntType DEF FrameLines
<1>2. UNCHANGED <<job, phaseStart>>
    BY DEF ReadFrame
<1>3. frameByNum' = [n \in DOMAIN frameByNum \union {num} |->
                        IF n \in DOMAIN frameByNum THEN frameByNum[n] ELSE ln.text]
    BY DEF ReadFrame
<1>4. WindowInv' /\ PhaseInv'
    BY <1>1, <1>2, OtherLineStep
<1>5. /\ log' \in Seq(Lines) /\ Len(log) \in Nat /\ Frames' = Frames \union {L} /\ log'[L] = ln
      /\ \A i \in Frames : i \in 1..Len(log) /\ log'[i] = log[i]
    BY <1>1, ScanFacts DEF ScanInv
<1>6. L \in Nat /\ \A i \in Frames : i \in Nat /\ i < L /\ i # L
    BY <1>5
<1>7. (\A i \in Frames : Num(i)' = Num(i)) /\ Num(L)' = ParseInt(log'[L'].num)
    BY <1>5 DEF Num
<1> DEFINE N(i) == ParseInt(log'[i].num)
<1>8. N(L) = num /\ \A i \in Frames : N(i) = Num(i) /\ log'[i].text = log[i].text
    BY <1>5 DEF Num
<1> HIDE DEF L, num, N
<1>9. /\ IsFiniteSet(DOMAIN frameByNum)
      /\ DOMAIN frameByNum = {Num(i) : i \in Frames}
      /\ \A i \in Frames : Num(i) \in Nat
      /\ \A i \in Frames : (\A g \in Frames : Num(g) = Num(i) => i <= g) => frameByNum[Num(i)] = log[i].text
    BY DEF ScanInv, FrameInv
<1>10. IsFiniteSet(DOMAIN frameByNum')
    <2>1. DOMAIN frameByNum' = DOMAIN frameByNum \union {num}
        BY <1>3
    <2> QED
        BY <2>1, <1>9, FS_AddElement
<1>11. DOMAIN frameByNum' = {N(i) : i \in Frames'}
    BY <1>3, <1>5, <1>8, <1>9
<1>12. \A i \in Frames' : N(i) \in Nat
    BY <1>1, <1>5, <1>8, <1>9
<1>13. ASSUME NEW i \in Frames', \A g \in Frames' : N(g) = N(i) => i <= g
       PROVE  frameByNum'[N(i)] = log'[i].text
    <2>1. CASE i \in Frames
        <3>1. \A g \in Frames : Num(g) = Num(i) => i <= g
            BY <2>1, <1>13, <1>5, <1>8
        <3>2. frameByNum[Num(i)] = log[i].text
            BY <2>1, <3>1, <1>9
        <3>3. Num(i) \in DOMAIN frameByNum
            BY <2>1, <1>9
        <3> QED
            BY <2>1, <3>2, <3>3, <1>3, <1>8
    <2>2. CASE i = L
        <3>1. num \notin DOMAIN frameByNum
            <4> SUFFICES ASSUME NEW g \in Frames, Num(g) = num PROVE FALSE
                BY <1>9
            <4>1. L <= g
                BY <2>2, <1>13, <1>5, <1>8
            <4> QED
                BY <4>1, <1>6
        <3>2. frameByNum'[num] = ln.text
            BY <3>1, <1>3
        <3> QED
            BY <2>2, <3>2, <1>5, <1>8
    <2> QED
        BY <2>1, <2>2, <1>5
<1>14. FrameInv'
    BY <1>10, <1>11, <1>12, <1>13 DEF FrameInv, Num, N
<1> QED
    BY <1>2, <1>4, <1>5, <1>14 DEF ScanInv, JobFields

\* A field line sets fields that are not looked at while the log is read.
LEMMA FieldsKept ==
    ASSUME ScanInv, NEW ln \in FieldLines, ReadField(ln)
    PROVE  /\ JobFields'
           /\ job'.StartEpoch = job.StartEpoch /\ job'.EndEpoch = job.EndEpoch
           /\ job'.Phases = job.Phases /\ job'.CrashFrames = job.CrashFrames
<1>0. ln.field \in FirstWins \union LastWins \union Collected
    BY LinesAssumption DEF FieldLines
<1>1. \/ \E x : job' = [job EXCEPT !.once = x]
      \/ \E x : job' = [job EXCEPT !.last = x]
      \/ \E x : job' = [job EXCEPT !.all = x]
    <2>1. CASE ln.field \in FirstWins
        <3>1. ln.field \notin LastWins /\ ln.field \notin Collected
            BY <2>1, LabelsAssumption DEF FirstWins, LastWins, Collected
        <3>2. job' = [job EXCEPT !.once[ln.field] = IF @ = None THEN ln.val ELSE @]
            BY <2>1, <3>1 DEF ReadField
        <3> QED
            BY <3>2
    <2>2. CASE ln.field \in LastWins
        <3>1. ln.field \notin FirstWins /\ ln.field \notin Collected
            BY <2>2, LabelsAssumption DEF FirstWins, LastWins, Collected
        <3>2. job' = [job EXCEPT !.last[ln.field] = ln.val]
            BY <2>2, <3>1 DEF ReadField
        <3> QED
            BY <3>2
    <2>3. CASE ln.field \in Collected
        <3>1. ln.field \notin FirstWins /\ ln.field \notin LastWins
            BY <2>3, LabelsAssumption DEF FirstWins, LastWins, Collected
        <3>2. job' = [job EXCEPT !.all[ln.field] = @ \union {ln.val}]
            BY <2>3, <3>1 DEF ReadField
        <3> QED
            BY <3>2
    <2> QED
        BY <1>0, <2>1, <2>2, <2>3
<1> QED
    BY <1>1 DEF ScanInv, JobFields

LEMMA ReadFieldStep ==
    ASSUME ScanInv, NEW ln \in FieldLines, ReadField(ln), log' = Append(log, ln)
    PROVE  ScanInv'
<1>1. ln \in Lines /\ ln.kind = "field"
    BY DEF FieldLines
<1>2. UNCHANGED <<phaseStart, frameByNum>>
    BY DEF ReadField
<1>3. /\ JobFields'
      /\ job'.StartEpoch = job.StartEpoch /\ job'.EndEpoch = job.EndEpoch
      /\ job'.Phases = job.Phases
    BY FieldsKept
<1>4. WindowInv' /\ PhaseInv'
    BY <1>1, <1>2, <1>3, OtherLineStep
<1>5. FrameInv'
    BY <1>1, <1>2, NoFrameStep
<1>6. log' \in Seq(Lines)
    BY <1>1, ScanFacts DEF ScanInv
<1> QED
    BY <1>3, <1>4, <1>5, <1>6 DEF ScanInv

\* A job that starts afresh.
LEMMA NewJobIsScanned ==
    ASSUME log' = <<>>, phaseStart' = <<>>, frameByNum' = <<>>, NEW id, job' = NewJobInfo(id)
    PROVE  ScanInv'
<1>1. /\ job'.StartEpoch = 0 /\ job'.EndEpoch = 0 /\ job'.Phases = {} /\ JobFields'
    BY DEF NewJobInfo, JobFields
<1>2. DOMAIN log' = {} /\ DOMAIN phaseStart' = {} /\ DOMAIN frameByNum' = {} /\ log' \in Seq(Lines)
    OBVIOUS
<1>3. Sections' = {} /\ Epochs' = {} /\ Frames' = {}
    BY <1>2 DEF Sections, Epochs, Frames
<1>4. WindowInv'
    BY <1>1, <1>3 DEF WindowInv, WindowIsHull
<1>5. PhaseInv'
    BY <1>1, <1>2, <1>3 DEF PhaseInv
<1>6. FrameInv'
    BY <1>2, <1>3, FS_EmptySet DEF FrameInv
<1> QED
    BY <1>1, <1>2, <1>4, <1>5, <1>6 DEF ScanInv

\* FramesAreLowest, of any log and any list of frames.
Lowest(lines, shown) ==
    LET frames == {i \in DOMAIN lines : lines[i].kind = "frame"}
        num(i) == ParseInt(lines[i].num)
    IN  shown # <<>> =>
        /\ \A i, k \in DOMAIN shown : i < k => shown[i].num < shown[k].num
        /\ \A i \in DOMAIN shown : \E f \in frames :
             /\ shown[i] = [num |-> num(f), text |-> lines[f].text]
             /\ \A g \in frames : num(g) = num(f) => f <= g
        /\ \A f \in frames :
             \/ \E i \in DOMAIN shown : shown[i].num = num(f)
             \/ Len(shown) = TopFrames /\ shown[TopFrames].num < num(f)

\* Of the lines with the number of a frame, one is the first.
LEMMA FirstFrame ==
    ASSUME ScanInv, NEW n \in DOMAIN frameByNum
    PROVE  \E f \in Frames : /\ Num(f) = n /\ frameByNum[n] = log[f].text
                             /\ \A g \in Frames : Num(g) = n => f <= g
<1> DEFINE T == {i \in Frames : Num(i) = n}
<1>1. \A i \in Frames : i \in Nat
    BY DEF Frames, ScanInv
<1>2. T # {} /\ T \in SUBSET Nat
    BY <1>1 DEF ScanInv, FrameInv
<1>3. PICK f \in T : \A g \in T : f <= g
    BY <1>2, LeastElement
<1>4. \A g \in Frames : Num(g) = Num(f) => f <= g
    BY <1>3
<1> QED
    BY <1>3, <1>4 DEF ScanInv, FrameInv

\* The frames at the top of the stack are the lowest ones.
LEMMA TopIsLowest == ScanInv => Lowest(log, TopOfStack)
<1> SUFFICES ASSUME ScanInv PROVE Lowest(log, TopOfStack)
    OBVIOUS
<1> DEFINE S == DOMAIN frameByNum
           n == Cardinality(S)
           nums == SortFrames(S)
           m == IF n < TopFrames THEN n ELSE TopFrames
<1>1. S \in SUBSET Nat /\ IsFiniteSet(S) /\ S = {Num(i) : i \in Frames}
    BY DEF ScanInv, FrameInv
<1>2. n \in Nat /\ TopFrames \in Nat /\ m \in Nat /\ m <= n /\ m <= TopFrames
    BY <1>1, FS_CardinalityType, LogBoundsAssumption
<1>3. nums \in [1..n -> S] /\ Ascending(nums)
    <2>1. \E s \in [1..Cardinality(S) -> S] : Ascending(s)
        BY <1>1, SortedEnumeration
    <2> HIDE DEF S
    <2> QED
        BY <2>1 DEF SortFrames, Ascending
<1>4. \A x \in S : \E i \in 1..n : nums[i] = x
    BY <1>1, <1>3, AscendingIsOnto
<1> DEFINE shown == TopOfStack
<1>5. shown = [i \in 1..m |-> [num |-> nums[i], text |-> frameByNum[nums[i]]]]
    <2>1. Len(nums) = n
        BY <1>2, <1>3
    <2>2. SubSeq(nums, 1, m) = [i \in 1..m |-> nums[i]]
        <3>1. nums \in Seq(S)
            BY <1>2, <1>3
        <3> HIDE DEF nums, S, n, m
        <3>2. SubSeq(nums, 1, m) = [i \in 1..(1 + m - 1) |-> nums[i + 1 - 1]]
            BY <3>1, <2>1, <1>2
        <3>3. 1 + m - 1 = m /\ \A i \in 1..m : i + 1 - 1 = i
            BY <1>2
        <3> QED
            BY <3>2, <3>3
    <2> HIDE DEF nums, n
    <2> QED
        BY <2>1, <2>2 DEF TopOfStack, nums
<1> HIDE DEF S, n, nums, m, shown
<1>6. DOMAIN shown = 1..m /\ Len(shown) = m /\ \A i \in 1..m : i \in 1..n
    BY <1>2, <1>5
<1>7. \A i \in 1..m : shown[i].num = nums[i] /\ nums[i] \in S
    BY <1>3, <1>5, <1>6
<1>8. \A i, k \in 1..n : i < k => nums[i] < nums[k]
    BY <1>3 DEF Ascending
<1>9. \A i, k \in DOMAIN shown : i < k => shown[i].num < shown[k].num
    BY <1>6, <1>7, <1>8
<1>10. \A i \in DOMAIN shown : \E f \in Frames :
           /\ shown[i] = [num |-> Num(f), text |-> log[f].text]
           /\ \A g \in Frames : Num(g) = Num(f) => f <= g
    <2> SUFFICES ASSUME NEW i \in 1..m
                 PROVE  \E f \in Frames : /\ shown[i] = [num |-> Num(f), text |-> log[f].text]
                                          /\ \A g \in Frames : Num(g) = Num(f) => f <= g
        BY <1>6
    <2>1. PICK f \in Frames : /\ Num(f) = nums[i] /\ frameByNum[nums[i]] = log[f].text
                              /\ \A g \in Frames : Num(g) = nums[i] => f <= g
        BY <1>7, FirstFrame DEF S
    <2> QED
        BY <2>1, <1>5
<1>11. ASSUME NEW f \in Frames, shown # <<>>
       PROVE  \/ \E i \in DOMAIN shown : shown[i].num = Num(f)
              \/ Len(shown) = TopFrames /\ shown[TopFrames].num < Num(f)
    <2>1. PICK i \in 1..n : nums[i] = Num(f)
        BY <1>1, <1>4
    <2>2. CASE i <= m
        <3>1. i \in 1..m
            BY <2>2, <1>2
        <3> QED
            BY <2>1, <3>1, <1>6, <1>7
    <2>3. CASE ~(i <= m)
        <3>1. m = TopFrames /\ m < i
            BY <2>3, <1>2 DEF m
        <3>2. m # 0
            BY <1>5, <1>6, <1>11
        <3>3. m \in 1..m /\ m \in 1..n
            BY <3>2, <1>2
        <3>4. nums[m] < nums[i]
            BY <3>1, <3>3, <1>8
        <3> QED
            BY <2>1, <3>1, <3>3, <3>4, <1>6, <1>7
    <2> QED
        BY <2>2, <2>3
<1> QED
    BY <1>9, <1>10, <1>11 DEF Lowest, Frames, Num, shown

-----------------------------------------------------------------------------
(* The log under the report command *)

\* The frames are collected when the log ends, and the log is only read by a
\* command that has started.
LogInv ==
    /\ ScanInv
    /\ Lowest(log, job.CrashFrames)
    /\ stage \notin {"parsed", "killed"} => job.CrashFrames = <<>>
    /\ stage = "off" => log = <<>> /\ phaseStart = <<>> /\ frameByNum = <<>>

LEMMA LogInit == PageInit => LogInv
<1> SUFFICES ASSUME PageInit PROVE LogInv
    OBVIOUS
<1>1. log = <<>> /\ phaseStart = <<>> /\ frameByNum = <<>> /\ job = NewJobInfo(None) /\ stage = "off"
    BY DEF PageInit, NotStarted, NewLog
<1>2. /\ job.StartEpoch = 0 /\ job.EndEpoch = 0 /\ job.Phases = {} /\ job.CrashFrames = <<>> /\ JobFields
    BY <1>1 DEF NewJobInfo, JobFields
<1>3. DOMAIN log = {} /\ DOMAIN phaseStart = {} /\ DOMAIN frameByNum = {} /\ log \in Seq(Lines)
    BY <1>1
<1>4. Sections = {} /\ Epochs = {} /\ Frames = {}
    BY <1>3 DEF Sections, Epochs, Frames
<1>5. WindowInv /\ PhaseInv /\ FrameInv
    BY <1>2, <1>3, <1>4, FS_EmptySet DEF WindowInv, WindowIsHull, PhaseInv, FrameInv
<1> QED
    BY <1>1, <1>2, <1>3, <1>5 DEF LogInv, ScanInv, Lowest

\* A command starts, or the job section is printed: the scan begins afresh.
LEMMA FreshLog ==
    ASSUME log' = <<>>, phaseStart' = <<>>, frameByNum' = <<>>, NEW id, job' = NewJobInfo(id)
    PROVE  LogInv'
<1>1. ScanInv'
    BY NewJobIsScanned
<1>2. job'.CrashFrames = <<>>
    BY DEF NewJobInfo
<1> QED
    BY <1>1, <1>2 DEF LogInv, Lowest

LEMMA LogKept ==
    ASSUME LogInv, UNCHANGED logVars, stage' # "off",
           stage \notin {"parsed", "killed"} \/ stage' = "killed"
    PROVE  LogInv'
BY DEF LogInv, logVars, ScanInv, JobFields, WindowInv, WindowIsHull, PhaseInv, FrameInv, Sections, Epochs,
       Frames, Num

\* Reading a line collects no frame yet.
LEMMA CrashFramesKept ==
    ASSUME ScanInv, NEW ln \in Lines,
           \/ ln \in SectionLines /\ ReadSection(ln)
           \/ ln \in FrameLines /\ ReadFrame(ln)
           \/ ln \in FieldLines /\ ReadField(ln)
    PROVE  job'.CrashFrames = job.CrashFrames
<1>1. CASE ln \in SectionLines /\ ReadSection(ln)
    <2>1. \E s, e, p : job' = [job EXCEPT !.StartEpoch = s, !.EndEpoch = e, !.Phases = p]
        BY <1>1 DEF ReadSection
    <2> QED
        BY <2>1 DEF ScanInv, JobFields
<1>2. CASE ln \in FrameLines /\ ReadFrame(ln)
    BY <1>2 DEF ReadFrame
<1>3. CASE ln \in FieldLines /\ ReadField(ln)
    BY <1>3, FieldsKept
<1> QED
    BY <1>1, <1>2, <1>3

LEMMA ReportKeepsLog == LogInv /\ ReportStep => LogInv'
<1> SUFFICES ASSUME LogInv, ReportStep PROVE LogInv'
    OBVIOUS
<1> USE DEF EndWith
<1>1. CASE Main
    BY <1>1, LogKept DEF Main
<1>2. CASE ParseWindow
    <2>1. stage' \in {"resolve", "count", "exited"}
        BY <1>2 DEF ParseWindow
    <2> QED
        BY <1>2, <2>1, LogKept DEF ParseWindow
<1>3. CASE FetchLog
    BY <1>3, LogKept DEF FetchLog
<1>4. CASE ParseLine
    <2>1. PICK ln \in Lines :
              \/ ln \in SectionLines /\ ReadSection(ln) /\ log' = Append(log, ln)
              \/ ln \in FrameLines /\ ReadFrame(ln) /\ log' = Append(log, ln)
              \/ ln \in FieldLines /\ ReadField(ln) /\ log' = Append(log, ln)
        BY <1>4 DEF ParseLine, ScanLine, SectionLines, FrameLines, FieldLines
    <2>2. ScanInv'
        BY <2>1, ReadSectionStep, ReadFrameStep, ReadFieldStep DEF LogInv
    <2>3. stage = "scan" /\ stage' = "scan" /\ job.CrashFrames = <<>>
        BY <1>4 DEF ParseLine, reportVars, LogInv
    <2>4. job'.CrashFrames = job.CrashFrames
        BY <2>1, CrashFramesKept DEF LogInv
    <2> QED
        BY <2>2, <2>3, <2>4 DEF LogInv, Lowest
<1>5. CASE EndOfLog
    <2>1. Lowest(log, TopOfStack)
        BY TopIsLowest DEF LogInv
    <2>2. /\ JobFields'
          /\ job'.StartEpoch = job.StartEpoch /\ job'.EndEpoch = job.EndEpoch
          /\ job'.Phases = job.Phases /\ job'.CrashFrames = TopOfStack
        <3> DEFINE top == TopOfStack
        <3>1. job' = [job EXCEPT !.CrashFrames = top]
            BY <1>5 DEF EndOfLog
        <3> HIDE DEF top
        <3>2. job'.CrashFrames = top
            BY <3>1 DEF LogInv, ScanInv, JobFields
        <3> QED
            BY <3>1, <3>2 DEF LogInv, ScanInv, JobFields, top
    <2>3. UNCHANGED <<log, phaseStart, frameByNum>> /\ stage' = "parsed"
        BY <1>5 DEF EndOfLog
    <2>4. ScanInv'
        BY <2>2, <2>3 DEF LogInv, ScanInv, WindowInv, WindowIsHull, PhaseInv, FrameInv, Sections, Epochs,
           Frames, Num
    <2> HIDE DEF EndWith
    <2>5. Lowest(log', job'.CrashFrames)
        BY <2>1, <2>2, <2>3
    <2> QED
        BY <2>3, <2>4, <2>5 DEF LogInv
<1>6. CASE PrintJobSection
    BY <1>6, FreshLog DEF PrintJobSection
<1>7. CASE RetryQuery
    BY <1>7, LogKept DEF RetryQuery, reportVars, Querying, LogInv
<1>8. CASE QueryFails
    BY <1>8, LogKept DEF QueryFails, Querying
<1>9. CASE ResolveNode
    BY <1>9, LogKept DEF ResolveNode
<1>10. CASE CountSeries
    BY <1>10, LogKept DEF CountSeries
<1>11. CASE FetchMeta
    BY <1>11, LogKept DEF FetchMeta
<1>12. CASE PrintTable
    <2>1. stage \in {"cpu", "mem", "io"} /\ stage' \in {"mem", "io", "exited"} /\ UNCHANGED logVars
        BY <1>12 DEF PrintTable, Tables
    <2> QED
        BY <2>1, LogKept
<1> QED
    BY <1>1, <1>2, <1>3, <1>4, <1>5, <1>6, <1>7, <1>8, <1>9, <1>10, <1>11, <1>12 DEF ReportStep

LEMMA LogNext == LogInv /\ [PageNext]_allVars => LogInv'
<1> SUFFICES ASSUME LogInv, [PageNext]_allVars PROVE LogInv'
    OBVIOUS
<1>1. CASE UNCHANGED commandVars
    BY <1>1 DEF LogInv, commandVars, reportVars, logVars, ScanInv, JobFields, WindowInv, WindowIsHull,
       PhaseInv, FrameInv, Sections, Epochs, Frames, Num
<1>2. ASSUME NEW c, Start(c) PROVE LogInv'
    BY <1>2, FreshLog DEF Start, LogInv
<1>3. CASE Kill
    BY <1>3, LogKept DEF Kill
<1>4. CASE ReportStep
    BY <1>4, ReportKeepsLog
<1> QED
    BY <1>1, <1>2, <1>3, <1>4
    DEF PageNext, RejectForm, ExecReport, ExecFails, AnswerPage, RunByHand, CommandStep, Ended, allVars

LEMMA LogInvariant == PageSpec => []LogInv
BY LogInit, LogNext, PTL DEF PageSpec

\* The window of every log, in whatever order its sections come
\* (logparse.go:167-175).
THEOREM WindowHolds == PageSpec => []WindowIsHull
<1>1. LogInv => WindowIsHull
    BY DEF LogInv, ScanInv, WindowInv
<1> QED
    BY <1>1, LogInvariant, PTL

\* The phases of every log, from a start line to the next line of their section,
\* an end line, with the epochs of the two (logparse.go:167-181).
THEOREM PhasesHold == PageSpec => []PhasesPaired
<1>1. LogInv => PhasesPaired
    BY DEF LogInv, ScanInv, PhaseInv, PhasesPaired, Starts, Ends, SectionsOf, Sections
<1> QED
    BY <1>1, LogInvariant, PTL

\* The crash frames of every log, however many backtraces it mixes
\* (logparse.go:195-201, 216-223).
THEOREM FramesHold == PageSpec => []FramesAreLowest
<1>1. LogInv => FramesAreLowest
    BY DEF LogInv, Lowest, FramesAreLowest
<1> QED
    BY <1>1, LogInvariant, PTL

-----------------------------------------------------------------------------
(* What the command writes *)

\* The sections of a report.
Texts == {"usage", "error", "job", "noWindow", "header", "fallback", "severalNodes", "noData",
          "cpu", "mem", "io"}

Shows(s, x) == \E i \in DOMAIN s : s[i] = x

\* Every table "cpu" comes after the text w.
Flagged(s, w) == \A i \in DOMAIN s : s[i] = "cpu" => \E k \in 1..(i - 1) : s[k] = w

\* The text that says why the tables are of all nodes.
Note == IF fleet THEN "fallback" ELSE "severalNodes"

\* What is written is added at the end.
LEMMA Written ==
    ASSUME NEW s \in Seq(Texts), NEW t \in Seq(Texts)
    PROVE  /\ s \o t \in Seq(Texts)
           /\ \A x : Shows(s \o t, x) <=> (Shows(s, x) \/ Shows(t, x))
           /\ \A w : (Flagged(s, w) /\ (Shows(t, "cpu") => Shows(s, w))) => Flagged(s \o t, w)
<1> DEFINE u == s \o t
<1>1. /\ u \in Seq(Texts) /\ Len(s) \in Nat /\ Len(t) \in Nat
      /\ DOMAIN s = 1..Len(s) /\ DOMAIN t = 1..Len(t) /\ DOMAIN u = 1..(Len(s) + Len(t))
      /\ \A i \in 1..Len(s) : u[i] = s[i]
      /\ \A i \in 1..Len(t) : u[Len(s) + i] = t[i]
    OBVIOUS
<1> HIDE DEF u
<1>2. ASSUME NEW i \in DOMAIN u PROVE i \in DOMAIN s \/ (i - Len(s) \in DOMAIN t /\ u[i] = t[i - Len(s)])
    BY <1>1
<1>3. \A i \in DOMAIN s : i \in DOMAIN u /\ u[i] = s[i]
    BY <1>1
<1>4. \A i \in DOMAIN t : Len(s) + i \in DOMAIN u /\ u[Len(s) + i] = t[i]
    BY <1>1
<1>5. ASSUME NEW x PROVE Shows(u, x) <=> (Shows(s, x) \/ Shows(t, x))
    BY <1>2, <1>3, <1>4 DEF Shows
<1>6. ASSUME NEW w, Flagged(s, w), Shows(t, "cpu") => Shows(s, w) PROVE Flagged(u, w)
    <2> SUFFICES ASSUME NEW i \in DOMAIN u, u[i] = "cpu"
                 PROVE  \E k \in 1..(i - 1) : u[k] = w
        BY DEF Flagged
    <2>1. CASE i \in DOMAIN s
        <3>1. PICK k \in 1..(i - 1) : s[k] = w
            BY <2>1, <1>3, <1>6 DEF Flagged
        <3>2. k \in DOMAIN s
            BY <2>1, <1>1
        <3> QED
            BY <3>1, <3>2, <1>3
    <2>2. CASE i \notin DOMAIN s
        <3>1. Shows(t, "cpu")
            BY <2>2, <1>2 DEF Shows
        <3>2. PICK k \in DOMAIN s : s[k] = w
            BY <3>1, <1>6 DEF Shows
        <3>3. k \in 1..(i - 1)
            BY <2>2, <1>1
        <3> QED
            BY <3>2, <3>3, <1>3
    <2> QED
        BY <2>1, <2>2
<1> QED
    BY <1>1, <1>5, <1>6 DEF u

LEMMA TextTypes ==
    /\ "usage" \in Texts /\ "error" \in Texts /\ "job" \in Texts /\ "noWindow" \in Texts
    /\ "header" \in Texts /\ "fallback" \in Texts /\ "severalNodes" \in Texts /\ "noData" \in Texts
    /\ "cpu" \in Texts /\ "mem" \in Texts /\ "io" \in Texts
BY DEF Texts

LEMMA NothingShown == <<>> \in Seq(Texts) /\ \A x : ~Shows(<<>>, x)
BY DEF Shows

LEMMA OneShown ==
    ASSUME NEW S, NEW a \in S
    PROVE  <<a>> \in Seq(S) /\ \A x : Shows(<<a>>, x) <=> x = a
<1> DEFINE s == <<a>>
<1>1. s \in Seq(S) /\ DOMAIN s = {1} /\ s[1] = a
    OBVIOUS
<1> HIDE DEF s
<1>2. ASSUME NEW x PROVE Shows(s, x) <=> x = a
    BY <1>1 DEF Shows
<1> QED
    BY <1>1, <1>2 DEF s

LEMMA TwoShown ==
    ASSUME NEW S, NEW a \in S, NEW b \in S
    PROVE  <<a, b>> \in Seq(S) /\ \A x : Shows(<<a, b>>, x) <=> x \in {a, b}
<1> DEFINE s == <<a, b>>
<1>1. s \in Seq(S) /\ DOMAIN s = {1, 2} /\ s[1] = a /\ s[2] = b
    OBVIOUS
<1> HIDE DEF s
<1>2. ASSUME NEW x PROVE Shows(s, x) <=> x \in {a, b}
    BY <1>1 DEF Shows
<1> QED
    BY <1>1, <1>2 DEF s

LEMMA ThreeShown ==
    ASSUME NEW S, NEW a \in S, NEW b \in S, NEW c \in S
    PROVE  <<a, b, c>> \in Seq(S) /\ \A x : Shows(<<a, b, c>>, x) <=> x \in {a, b, c}
<1> DEFINE s == <<a, b, c>>
<1>1. s \in Seq(S) /\ DOMAIN s = {1, 2, 3} /\ s[1] = a /\ s[2] = b /\ s[3] = c
    OBVIOUS
<1> HIDE DEF s
<1>2. ASSUME NEW x PROVE Shows(s, x) <=> x \in {a, b, c}
    BY <1>1 DEF Shows
<1> QED
    BY <1>1, <1>2 DEF s

\* All there is to report is in s.
CompleteText(s) ==
    \/ Shows(s, "usage") \/ Shows(s, "noWindow")
    \/ /\ Shows(s, "header")
       /\ Shows(s, "noData") \/ (Shows(s, "cpu") /\ Shows(s, "mem") /\ Shows(s, "io"))

\* The output before each step of the command, and what it ends with.
OutputInv ==
    /\ out \in Seq(Texts)
    /\ stage \in {"off", "flags", "window", "fetch", "scan", "parsed", "exited", "killed"} \union Querying
    /\ stage # "exited" => exit = Running /\ ~Shows(out, "error")
    /\ stage = "exited" => \/ exit = 0 /\ CompleteText(out) /\ ~Shows(out, "error")
                           \/ exit \in {1, 2} /\ Shows(out, "error")
    /\ stage \in {"count", "meta", "cpu", "mem", "io"} => Shows(out, "header")
    /\ stage \in {"mem", "io"} => Shows(out, "cpu")
    /\ stage = "io" => Shows(out, "mem")

\* In URL mode the warning or the note precedes the tables of all nodes.
FleetInv ==
    /\ stage = "window" => ~cfg.url
    /\ (cfg.url /\ node = All /\ stage \in {"count", "meta", "cpu"}) => Shows(out, Note)
    /\ stage \notin {"mem", "io", "exited", "killed"} => ~Shows(out, "cpu")
    /\ (cfg.url /\ node = All) => Flagged(out, Note)

LEMMA AppendIsWritten ==
    ASSUME NEW S, NEW s \in Seq(S), NEW x \in S
    PROVE  Append(s, x) = s \o <<x>>
OBVIOUS

LEMMA OutputInit == PageInit => OutputInv /\ FleetInv
<1> SUFFICES ASSUME PageInit PROVE OutputInv /\ FleetInv
    OBVIOUS
<1>1. out = <<>> /\ stage = "off" /\ exit = Running /\ cfg = NoConfig
    BY DEF PageInit, NotStarted
<1>2. out \in Seq(Texts) /\ \A x : ~Shows(out, x)
    BY <1>1, NothingShown
<1>3. Flagged(out, Note)
    BY <1>1 DEF Flagged
<1> QED
    BY <1>1, <1>2, <1>3 DEF OutputInv, FleetInv, Querying

\* A step that writes the sections t keeps both invariants if the stage it
\* goes to is reached with what that stage needs.
LEMMA WriteStep ==
    ASSUME OutputInv, FleetInv, NEW t \in Seq(Texts), out' = out \o t,
           stage \notin {"off", "exited", "killed"},
           stage' \in {"window", "fetch", "scan", "parsed"} \union Querying,
           UNCHANGED <<exit, cfg>>,
           ~Shows(t, "error"),
           stage' \in {"count", "meta", "cpu", "mem", "io"} => Shows(out, "header") \/ Shows(t, "header"),
           stage' \in {"mem", "io"} => Shows(out, "cpu") \/ Shows(t, "cpu"),
           stage' = "io" => Shows(out, "mem") \/ Shows(t, "mem"),
           stage' = "window" => ~cfg.url,
           (cfg.url /\ node' = All /\ stage' \in {"count", "meta", "cpu"})
               => Shows(out, Note') \/ Shows(t, Note'),
           Shows(t, "cpu") => stage = "cpu" /\ stage' = "mem" /\ UNCHANGED <<node, fleet>>,
           stage' \notin {"mem", "io"} => stage \notin {"mem", "io"},
           UNCHANGED <<node, fleet>> \/ ~Shows(out, "cpu")
    PROVE  OutputInv' /\ FleetInv'
<1>1. /\ out' \in Seq(Texts)
      /\ \A x : Shows(out', x) <=> (Shows(out, x) \/ Shows(t, x))
      /\ \A w : (Flagged(out, w) /\ (Shows(t, "cpu") => Shows(out, w))) => Flagged(out', w)
    BY Written DEF OutputInv
<1>2. ~Shows(out, "cpu") => \A w : Flagged(out, w)
    BY DEF Shows, Flagged
<1>7. UNCHANGED <<node, fleet>> => node' = node /\ Note' = Note
    BY DEF Note
<1>3. OutputInv'
    <2>1. exit = Running /\ ~Shows(out, "error")
        BY DEF OutputInv
    <2>2. exit' = Running /\ ~Shows(out', "error")
        BY <2>1, <1>1
    <2>3. stage' # "exited" /\ stage' \in {"off", "flags", "window", "fetch", "scan", "parsed", "exited", "killed"} \union Querying
        BY DEF Querying
    <2>4. /\ stage' \in {"count", "meta", "cpu", "mem", "io"} => Shows(out', "header")
          /\ stage' \in {"mem", "io"} => Shows(out', "cpu")
          /\ stage' = "io" => Shows(out', "mem")
        BY <1>1
    <2> QED
        BY <1>1, <2>2, <2>3, <2>4 DEF OutputInv
<1>4. ASSUME cfg.url, node' = All PROVE Flagged(out', Note')
    <2>1. Flagged(out, Note')
        BY <1>2, <1>4, <1>7 DEF FleetInv
    <2>2. CASE Shows(t, "cpu")
        <3>1. stage = "cpu" /\ Shows(out, Note')
            BY <1>4, <1>7, <2>2 DEF FleetInv
        <3> QED
            BY <1>1, <2>1, <3>1
    <2> QED
        BY <1>1, <2>1, <2>2
<1>5. stage' \notin {"mem", "io", "exited", "killed"} => ~Shows(out', "cpu")
    BY <1>1 DEF FleetInv
<1>6. (cfg.url /\ node' = All /\ stage' \in {"count", "meta", "cpu"}) => Shows(out', Note')
    BY <1>1
<1> QED
    BY <1>3, <1>4, <1>5, <1>6 DEF FleetInv

\* A step that ends the command writes an error or completes the report.
LEMMA EndStep ==
    ASSUME OutputInv, FleetInv, NEW t \in Seq(Texts), NEW code, EndWith(code, t),
           stage \notin {"off", "exited", "killed"},
           UNCHANGED cfg, UNCHANGED <<node, fleet>> \/ ~Shows(out, "cpu"), ~Shows(t, "cpu"),
           \/ code \in {1, 2} /\ Shows(t, "error")
           \/ code = 0 /\ ~Shows(t, "error") /\ CompleteText(out \o t)
    PROVE  OutputInv' /\ FleetInv'
<1>1. out' = out \o t /\ stage' = "exited" /\ exit' = code
    BY DEF EndWith
<1>2. /\ out' \in Seq(Texts)
      /\ \A x : Shows(out', x) <=> (Shows(out, x) \/ Shows(t, x))
      /\ \A w : (Flagged(out, w) /\ (Shows(t, "cpu") => Shows(out, w))) => Flagged(out', w)
    BY <1>1, Written DEF OutputInv
<1>3. ~Shows(out, "cpu") => \A w : Flagged(out, w)
    BY DEF Shows, Flagged
<1>4. OutputInv'
    BY <1>1, <1>2 DEF OutputInv, Running
<1>6. UNCHANGED <<node, fleet>> => node' = node /\ Note' = Note
    BY DEF Note
<1>5. (cfg.url /\ node' = All) => Flagged(out', Note')
    BY <1>2, <1>3, <1>6 DEF FleetInv
<1> QED
    BY <1>1, <1>4, <1>5 DEF FleetInv

LEMMA ReportKeepsOutput == OutputInv /\ FleetInv /\ ReportStep => OutputInv' /\ FleetInv'
<1> SUFFICES ASSUME OutputInv, FleetInv, ReportStep PROVE OutputInv' /\ FleetInv'
    OBVIOUS
<1>0. out \in Seq(Texts) /\ <<>> \in Seq(Texts) /\ out \o <<>> = out
    BY DEF OutputInv
<1>e. <<"error">> \in Seq(Texts) /\ \A x : Shows(<<"error">>, x) <=> x = "error"
    BY TextTypes, OneShown
<1>u. UNCHANGED <<node, fleet>> => node' = node /\ Note' = Note
    BY DEF Note
<1>n. \A x : ~Shows(<<>>, x)
    BY NothingShown
<1>h. <<"header">> \in Seq(Texts) /\ \A x : Shows(<<"header">>, x) <=> x = "header"
    BY TextTypes, OneShown
<1>1. CASE Main
    <2>1. stage = "flags" /\ UNCHANGED <<cfg, node, fleet>>
        BY <1>1 DEF Main
    <2>2. CASE stage' = (IF cfg.url THEN "fetch" ELSE "window") /\ UNCHANGED <<exit, out>>
        BY <2>1, <2>2, <1>0, <1>n, <1>u, WriteStep DEF Querying, FleetInv
    <2>3. CASE EndWith(0, <<"usage">>)
        <3>1. <<"usage">> \in Seq(Texts) /\ \A x : Shows(<<"usage">>, x) <=> x = "usage"
            BY TextTypes, OneShown
        <3>2. CompleteText(out \o <<"usage">>)
            BY <3>1, <1>0, Written DEF CompleteText
        <3> QED
            BY <2>1, <2>3, <3>1, <3>2, EndStep
    <2>4. CASE EndWith(2, <<"error">>)
        BY <2>1, <2>4, <1>e, EndStep
    <2> QED
        BY <1>1, <2>2, <2>3, <2>4 DEF Main
<1>2. CASE ParseWindow
    <2>1. stage = "window" /\ UNCHANGED cfg /\ ~cfg.url /\ ~Shows(out, "cpu")
        BY <1>2 DEF ParseWindow, FleetInv
    <2>2. CASE stage' = "resolve" /\ out' = out /\ UNCHANGED exit
        BY <2>1, <2>2, <1>0, <1>n, <1>u, WriteStep DEF Querying, FleetInv
    <2>3. CASE stage' = "count" /\ out' = Append(out, "header") /\ UNCHANGED exit
        <3>1. out' = out \o <<"header">>
            BY <2>3, <1>0, AppendIsWritten, TextTypes
        <3> QED
            BY <2>1, <2>3, <3>1, <1>h, WriteStep DEF Querying, FleetInv
    <2>4. CASE EndWith(1, <<"error">>)
        BY <2>1, <2>4, <1>e, EndStep
    <2> QED
        BY <1>2, <2>2, <2>3, <2>4 DEF ParseWindow
<1>3. CASE FetchLog
    <2>1. stage = "fetch" /\ UNCHANGED <<cfg, node, fleet>>
        BY <1>3 DEF FetchLog
    <2>2. CASE stage' = "scan" /\ UNCHANGED <<exit, out>>
        BY <2>1, <2>2, <1>0, <1>n, <1>u, WriteStep DEF Querying, FleetInv
    <2>3. CASE EndWith(1, <<"error">>)
        BY <2>1, <2>3, <1>e, EndStep
    <2> QED
        BY <1>3, <2>2, <2>3 DEF FetchLog
<1>4. CASE ParseLine \/ EndOfLog \/ RetryQuery \/ FetchMeta
    <2>1. /\ stage \in {"scan"} \union Querying /\ UNCHANGED <<cfg, node, fleet, exit, out>>
          /\ stage' = stage \/ (stage = "scan" /\ stage' = "parsed") \/ (stage = "meta" /\ stage' = "cpu")
        BY <1>4 DEF ParseLine, EndOfLog, RetryQuery, FetchMeta, reportVars, Querying
    <2>2. out' = out \o <<>>
        BY <2>1, <1>0
    <2> QED
        BY <2>1, <2>2, <1>0, <1>n, <1>u, WriteStep DEF Querying, FleetInv, OutputInv
<1>5. CASE PrintJobSection
    <2>1. stage = "parsed" /\ UNCHANGED cfg /\ ~Shows(out, "cpu")
        BY <1>5 DEF PrintJobSection, FleetInv
    <2>2. CASE EndWith(0, <<"job", "noWindow">>)
        <3>1. /\ <<"job", "noWindow">> \in Seq(Texts)
              /\ \A x : Shows(<<"job", "noWindow">>, x) <=> x \in {"job", "noWindow"}
            BY TextTypes, TwoShown
        <3>2. CompleteText(out \o <<"job", "noWindow">>)
            BY <3>1, <1>0, Written DEF CompleteText
        <3>3. ~Shows(<<"job", "noWindow">>, "error") /\ ~Shows(<<"job", "noWindow">>, "cpu")
            BY <3>1
        <3> QED
            BY <2>1, <2>2, <3>1, <3>2, <3>3, EndStep
    <2>3. CASE stage' = "count" /\ fleet' /\ out' = out \o <<"job", "header", "fallback">> /\ UNCHANGED exit
        <3>1. /\ <<"job", "header", "fallback">> \in Seq(Texts)
              /\ \A x : Shows(<<"job", "header", "fallback">>, x) <=> x \in {"job", "header", "fallback"}
            BY TextTypes, ThreeShown
        <3> DEFINE t == <<"job", "header", "fallback">>
        <3>2. t \in Seq(Texts) /\ ~Shows(t, "error") /\ ~Shows(t, "cpu") /\ Shows(t, "header") /\ Shows(t, "fallback")
            BY <3>1
        <3> HIDE DEF t
        <3>3. out' = out \o t /\ Note' = "fallback"
            BY <2>3 DEF t, Note
        <3> QED
            BY <2>1, <2>3, <3>2, <3>3, WriteStep DEF Querying
    <2>4. CASE stage' = "resolve" /\ out' = Append(out, "job") /\ UNCHANGED exit
        <3>1. <<"job">> \in Seq(Texts) /\ \A x : Shows(<<"job">>, x) <=> x = "job"
            BY TextTypes, OneShown
        <3>2. out' = out \o <<"job">>
            BY <2>4, <1>0, AppendIsWritten, TextTypes
        <3> QED
            BY <2>1, <2>4, <3>1, <3>2, <1>u, WriteStep DEF Querying
    <2> QED
        BY <1>5, <2>2, <2>3, <2>4 DEF PrintJobSection
<1>6. CASE QueryFails
    BY <1>6, <1>e, EndStep DEF QueryFails, Querying
<1>7. CASE ResolveNode
    <2>1. stage = "resolve" /\ stage' = "count" /\ UNCHANGED <<cfg, exit>> /\ ~Shows(out, "cpu")
        BY <1>7 DEF ResolveNode, FleetInv
    <2>2. PICK nodes \in SUBSET Nodes :
              node' = TheNode(nodes) /\ fleet' = (nodes = {}) /\ out' = out \o Header(nodes)
        BY <1>7 DEF ResolveNode
    <2>3. IsFiniteSet(nodes) /\ Cardinality(nodes) \in Nat /\ (Cardinality(nodes) = 0 <=> nodes = {})
        BY NodesAssumption, FS_Subset, FS_CardinalityType, FS_EmptySet
    <2>4. ASSUME NEW w \in {"fallback", "severalNodes"}, cfg.url, Note' = w, Header(nodes) = <<"header", w>>
          PROVE  OutputInv' /\ FleetInv'
        <3>1. <<"header", w>> \in Seq(Texts) /\ \A x : Shows(<<"header", w>>, x) <=> x \in {"header", w}
            BY TextTypes, TwoShown
        <3> DEFINE t == <<"header", w>>
        <3>2. t \in Seq(Texts) /\ ~Shows(t, "error") /\ ~Shows(t, "cpu") /\ Shows(t, "header") /\ Shows(t, w)
            BY <3>1
        <3> HIDE DEF t
        <3>3. out' = out \o t
            BY <2>2, <2>4 DEF t
        <3> QED
            BY <2>1, <2>4, <3>2, <3>3, WriteStep DEF Querying
    <2>5. CASE cfg.url /\ nodes = {}
        <3>1. Note' = "fallback"
            BY <2>2, <2>5 DEF Note
        <3>2. Header(nodes) = <<"header", "fallback">>
            <4>1. ~(Cardinality(nodes) > 1)
                BY <2>3, <2>5
            <4> QED
                BY <2>5, <4>1 DEF Header
        <3> QED
            BY <2>4, <2>5, <3>1, <3>2
    <2>6. CASE cfg.url /\ Cardinality(nodes) > 1
        <3>1. nodes # {}
            BY <2>3, <2>6
        <3>2. Note' = "severalNodes"
            BY <2>2, <3>1 DEF Note
        <3>3. Header(nodes) = <<"header", "severalNodes">>
            BY <2>6, <3>1 DEF Header
        <3> QED
            BY <2>4, <2>6, <3>2, <3>3
    <2>7. CASE ~cfg.url \/ Cardinality(nodes) = 1
        <3>1. Header(nodes) = <<"header">>
            BY <2>3, <2>7 DEF Header
        <3>2. ~(cfg.url /\ node' = All)
            <4>1. CASE Cardinality(nodes) = 1
                <5>1. PICK n \in nodes : TheNode(nodes) = n
                    BY <2>3, <4>1 DEF TheNode
                <5> QED
                    BY <2>2, <5>1, NodesAssumption
            <4> QED
                BY <2>7, <4>1
        <3> QED
            BY <2>1, <2>2, <3>1, <3>2, <1>h, WriteStep DEF Querying
    <2> QED
        BY <2>3, <2>5, <2>6, <2>7
<1>8. CASE CountSeries
    <2>1. stage = "count" /\ UNCHANGED <<cfg, node, fleet>> /\ Shows(out, "header")
        BY <1>8 DEF CountSeries, OutputInv
    <2>2. CASE EndWith(0, <<"noData">>)
        <3>1. <<"noData">> \in Seq(Texts) /\ \A x : Shows(<<"noData">>, x) <=> x = "noData"
            BY TextTypes, OneShown
        <3>2. CompleteText(out \o <<"noData">>)
            BY <2>1, <3>1, <1>0, Written DEF CompleteText
        <3> QED
            BY <2>1, <2>2, <3>1, <3>2, EndStep
    <2>3. CASE stage' = "meta" /\ UNCHANGED <<exit, out>>
        BY <2>1, <2>3, <1>0, <1>n, <1>u, WriteStep DEF Querying, FleetInv
    <2> QED
        BY <1>8, <2>2, <2>3 DEF CountSeries
<1>9. CASE PrintTable
    <2>1. UNCHANGED <<cfg, node, fleet>>
        BY <1>9 DEF PrintTable
    <2>2. \/ stage = "cpu" /\ stage' = "mem" /\ out' = Append(out, "cpu") /\ UNCHANGED exit
          \/ stage = "mem" /\ stage' = "io" /\ out' = Append(out, "mem") /\ UNCHANGED exit
          \/ stage = "io" /\ EndWith(0, <<"io">>)
        BY <1>9 DEF PrintTable, Tables
    <2>3. CASE stage = "cpu" /\ stage' = "mem" /\ out' = Append(out, "cpu") /\ UNCHANGED exit
        <3>1. <<"cpu">> \in Seq(Texts) /\ \A x : Shows(<<"cpu">>, x) <=> x = "cpu"
            BY TextTypes, OneShown
        <3>2. out' = out \o <<"cpu">>
            BY <2>3, <1>0, AppendIsWritten, TextTypes
        <3> QED
            BY <2>1, <2>3, <3>1, <3>2, <1>u, WriteStep DEF Querying, OutputInv
    <2>4. CASE stage = "mem" /\ stage' = "io" /\ out' = Append(out, "mem") /\ UNCHANGED exit
        <3>1. <<"mem">> \in Seq(Texts) /\ \A x : Shows(<<"mem">>, x) <=> x = "mem"
            BY TextTypes, OneShown
        <3>2. out' = out \o <<"mem">>
            BY <2>4, <1>0, AppendIsWritten, TextTypes
        <3> QED
            BY <2>1, <2>4, <3>1, <3>2, <1>u, WriteStep DEF Querying, OutputInv
    <2>5. CASE stage = "io" /\ EndWith(0, <<"io">>)
        <3>1. <<"io">> \in Seq(Texts) /\ \A x : Shows(<<"io">>, x) <=> x = "io"
            BY TextTypes, OneShown
        <3>2. CompleteText(out \o <<"io">>)
            BY <2>5, <3>1, <1>0, Written DEF CompleteText, OutputInv
        <3> QED
            BY <2>1, <2>5, <3>1, <3>2, EndStep
    <2> QED
        BY <2>2, <2>3, <2>4, <2>5
<1> QED
    BY <1>1, <1>2, <1>3, <1>4, <1>5, <1>6, <1>7, <1>8, <1>9 DEF ReportStep

LEMMA OutputNext == OutputInv /\ FleetInv /\ [PageNext]_allVars => OutputInv' /\ FleetInv'
<1> SUFFICES ASSUME OutputInv, FleetInv, [PageNext]_allVars PROVE OutputInv' /\ FleetInv'
    OBVIOUS
<1>1. CASE UNCHANGED commandVars
    BY <1>1 DEF OutputInv, FleetInv, Note, commandVars, reportVars
<1>2. ASSUME NEW c, Start(c) PROVE OutputInv' /\ FleetInv'
    <2>1. stage = "off" /\ stage' = "flags" /\ UNCHANGED <<out, exit, node, fleet>>
        BY <1>2 DEF Start
    <2>2. Flagged(out, Note)
        BY <2>1 DEF FleetInv, Shows, Flagged
    <2> QED
        BY <2>1, <2>2 DEF OutputInv, FleetInv, Note, Querying
<1>3. CASE Kill
    BY <1>3 DEF Kill, OutputInv, FleetInv, Note, Querying
<1>4. CASE ReportStep
    BY <1>4, ReportKeepsOutput
<1> QED
    BY <1>1, <1>2, <1>3, <1>4
    DEF PageNext, RejectForm, ExecReport, ExecFails, AnswerPage, RunByHand, CommandStep, Ended, allVars

LEMMA OutputInvariant == PageSpec => [](OutputInv /\ FleetInv)
BY OutputInit, OutputNext, PTL DEF PageSpec

\* However the queries, the retries and the log turn out, exit code 0 means
\* that the whole report was written (cli.go:29-43, 239-291).
THEOREM ExitZeroHolds == PageSpec => []ExitZeroIsComplete
<1>1. OutputInv => ExitZeroIsComplete
    BY DEF OutputInv, ExitZeroIsComplete, CompleteText, Complete, Printed, Shows, Tables, Running
<1> QED
    BY <1>1, OutputInvariant, PTL

\* In URL mode tables of all nodes follow the fleet-wide warning or, when the
\* job id was on several nodes, the header's note that all nodes are shown
\* (url.go:26-55, prom.go:222-225).
THEOREM FleetTablesFlagged == PageSpec => []FleetTablesAreFlagged
<1>1. FleetInv => FleetTablesAreFlagged
    BY DEF FleetInv, FleetTablesAreFlagged, Flagged, Note
<1> QED
    BY <1>1, OutputInvariant, PTL

-----------------------------------------------------------------------------
(* What the page answers *)

Replied == {"ok", "unsent", "transport", "gateway", "refused"}

\* The child runs with the checked form, and what it does once it has the
\* window of the form.
ChildInv ==
    /\ stage # "off"
    /\ AcceptedForm(request.form)
    /\ cfg = ChildConfig(request.form, request.env)
    /\ stage \in {"fetch", "scan", "parsed"} => cfg.url
    /\ stage = "window" => ~cfg.url
    /\ stage \in {"flags", "window", "fetch", "scan", "parsed"} => out = <<>>
    /\ (~cfg.url /\ (Shows(out, "header") \/ stage \in Querying)) => window = AskedWindow
    /\ (~cfg.url /\ ~NoFields(request.form) /\ exit = 1) => sent # <<>>
    /\ (cfg.url /\ (Shows(out, "header") \/ stage \in Querying)) => Len(out) > 0 /\ out[1] = "job"

PageInv ==
    /\ page \in {"none", "submitted", "running", "answered"}
    /\ sent \in Seq(Replied)
    /\ stage = "off" => out = <<>>
    /\ page = "submitted" => stage = "off"
    /\ page = "running" => ChildInv
    /\ page = "answered" => stage \in {"off", "exited", "killed"}
    /\ FailureIsExplained

LEMMA ReplyTypes == ASSUME NEW good, NEW r \in Replies(good) PROVE r.got \in Replied
BY DEF Replies, Replied

LEMMA AppendedSome ==
    ASSUME NEW S, NEW s \in Seq(S), NEW x \in S
    PROVE  Append(s, x) \in Seq(S) /\ Append(s, x) # <<>>
<1>1. Append(s, x) \in Seq(S) /\ Len(Append(s, x)) = Len(s) + 1 /\ Len(s) \in Nat /\ Len(<<>>) = 0
    OBVIOUS
<1> QED
    BY <1>1

LEMMA CompleteIsShown == Complete <=> CompleteText(out)
BY DEF Complete, CompleteText, Printed, Shows, Tables

\* The answers of a query under way are kept by Retry, added to by Fails and
\* forgotten by Succeeds.
LEMMA SentTypes ==
    ASSUME sent \in Seq(Replied)
    PROVE  /\ \A r \in Replies(cfg.goodURL) : Retry(r) => sent' \in Seq(Replied)
           /\ \A r \in Replies(cfg.goodURL) : Fails(r) => sent' \in Seq(Replied) /\ sent' # <<>>
           /\ QuerySucceeds => sent' \in Seq(Replied)
<1>1. ASSUME NEW r \in Replies(cfg.goodURL)
      PROVE  Append(sent, r.got) \in Seq(Replied) /\ Append(sent, r.got) # <<>>
    BY ReplyTypes, AppendedSome
<1>2. <<>> \in Seq(Replied)
    OBVIOUS
<1> QED
    BY <1>1, <1>2 DEF Retry, Fails, QuerySucceeds, Succeeds

LEMMA PageInitInv == PageInit => PageInv
<1> SUFFICES ASSUME PageInit PROVE PageInv
    OBVIOUS
<1>1. sent = <<>> /\ stage = "off" /\ out = <<>> /\ page \in {"none", "submitted"}
    BY DEF PageInit, NotStarted, NewQuery
<1>2. sent \in Seq(Replied)
    BY <1>1
<1> QED
    BY <1>1, <1>2 DEF PageInv, FailureIsExplained

\* The child is given the window the page was asked for, and that of an
\* accepted form is in order, so the engine takes it as it is.
LEMMA AskedIsGiven ==
    ASSUME AcceptedForm(request.form), cfg = ChildConfig(request.form, request.env)
    PROVE  /\ parseWindow(cfg.window) = AskedWindow
           /\ ~NoFields(request.form) => WindowOK(cfg.window)
<1>1. cfg.window = IF NoFields(request.form) THEN request.env.window
                   ELSE Absolute(request.form.start.at, request.form.end.at)
    BY DEF ChildConfig
<1>2. CASE NoFields(request.form)
    BY <1>1, <1>2 DEF AskedWindow
<1>3. CASE ~NoFields(request.form)
    BY <1>1, <1>3 DEF AskedWindow, AcceptedForm, buildWindowOK, AfterStart, Absolute, WindowOK, parseWindow
<1> QED
    BY <1>2, <1>3

\* What comes first stays first.
LEMMA FirstStays ==
    ASSUME NEW s \in Seq(Texts), Len(s) > 0, NEW x \in Texts
    PROVE  /\ Len(Append(s, x)) > 0 /\ Append(s, x)[1] = s[1]
           /\ Len(s \o <<x>>) > 0 /\ (s \o <<x>>)[1] = s[1]
           /\ Len(s \o <<x, "fallback">>) > 0 /\ (s \o <<x, "fallback">>)[1] = s[1]
           /\ Len(s \o <<x, "severalNodes">>) > 0 /\ (s \o <<x, "severalNodes">>)[1] = s[1]
OBVIOUS

\* A query's step writes at the end.
LEMMA QueryWrites ==
    ASSUME out \in Seq(Texts), Len(out) > 0,
           RetryQuery \/ QueryFails \/ ResolveNode \/ CountSeries \/ FetchMeta \/ PrintTable
    PROVE  Len(out') > 0 /\ out'[1] = out[1]
<1>1. CASE RetryQuery \/ FetchMeta
    BY <1>1 DEF RetryQuery, FetchMeta, reportVars
<1>2. CASE QueryFails
    BY <1>2, FirstStays, TextTypes DEF QueryFails, EndWith
<1>3. CASE ResolveNode
    <2>1. PICK nodes \in SUBSET Nodes : out' = out \o Header(nodes)
        BY <1>3 DEF ResolveNode
    <2>2. IsFiniteSet(nodes) /\ Cardinality(nodes) \in Nat /\ (Cardinality(nodes) = 0 <=> nodes = {})
        BY NodesAssumption, FS_Subset, FS_CardinalityType, FS_EmptySet
    <2>3. Header(nodes) \in {<<"header">>, <<"header", "fallback">>, <<"header", "severalNodes">>}
        BY <2>2 DEF Header
    <2> QED
        BY <2>1, <2>3, FirstStays, TextTypes
<1>4. CASE CountSeries
    BY <1>4, FirstStays, TextTypes DEF CountSeries, EndWith
<1>5. CASE PrintTable
    <2>1. \E x \in {"cpu", "mem", "io"} : out' = Append(out, x) \/ out' = out \o <<x>>
        BY <1>5 DEF PrintTable, Tables, EndWith
    <2> QED
        BY <2>1, FirstStays, TextTypes
<1> QED
    BY <1>1, <1>2, <1>3, <1>4, <1>5

\* A step of the child keeps what the page relies on.
LEMMA ReportKeepsPage ==
    ASSUME PageInv, OutputInv, ReportStep, UNCHANGED pageVars
    PROVE  PageInv'
<1> USE DEF PageInv
<1>1. stage \in {"flags", "window", "fetch", "scan", "parsed"} \union Querying
    BY DEF ReportStep, Main, ParseWindow, FetchLog, ParseLine, EndOfLog, PrintJobSection, RetryQuery,
           QueryFails, ResolveNode, CountSeries, FetchMeta, PrintTable, Tables, Querying
<1>2. page \notin {"submitted", "answered"} /\ UNCHANGED <<page, request, answer>>
    BY <1>1 DEF Querying, pageVars
<1>3. sent' \in Seq(Replied)
    BY SentTypes
    DEF ReportStep, Main, ParseWindow, FetchLog, ParseLine, EndOfLog, PrintJobSection, RetryQuery,
        QueryFails, ResolveNode, CountSeries, FetchMeta, PrintTable, clientVars
<1>4. FailureIsExplained'
    BY <1>2 DEF FailureIsExplained
<1>6. stage' # "off"
    BY <1>1 DEF ReportStep, Main, ParseWindow, FetchLog, ParseLine, EndOfLog, PrintJobSection, RetryQuery,
           QueryFails, ResolveNode, CountSeries, FetchMeta, PrintTable, Tables, Querying, EndWith, reportVars
<1>5. ASSUME page = "running" PROVE ChildInv'
    <2>1. ChildInv /\ exit = Running /\ UNCHANGED <<cfg, request>>
        BY <1>1, <1>2, <1>5
        DEF OutputInv, Querying, ReportStep, Main, ParseWindow, FetchLog, ParseLine, EndOfLog,
            PrintJobSection, RetryQuery, QueryFails, ResolveNode, CountSeries, FetchMeta, PrintTable,
            reportVars
    <2>2. AskedWindow' = AskedWindow /\ NoFields(request'.form) = NoFields(request.form)
        BY <2>1 DEF AskedWindow
    <2>3. stage # "off" /\ AcceptedForm(request.form) /\ cfg = ChildConfig(request.form, request.env)
        BY <2>1 DEF ChildInv
    <2>4. \A x : ~Shows(<<>>, x)
        BY NothingShown
    <2>5. CASE Main
        <3>1. stage = "flags" /\ cfg.flags = "ok" /\ out = <<>>
            BY <2>1, <2>3, <2>5 DEF ChildInv, ChildConfig, Main
        <3>2. /\ stage' = (IF cfg.url THEN "fetch" ELSE "window") /\ exit' = Running /\ out' = <<>>
            BY <2>1, <2>5, <3>1 DEF Main
        <3> QED
            BY <2>1, <2>3, <2>4, <3>2 DEF ChildInv, Querying, Running
    <2>6. CASE ParseWindow
        <3>1. ~cfg.url /\ out = <<>> /\ parseWindow(cfg.window) = AskedWindow
            BY <2>1, <2>3, <2>6, AskedIsGiven DEF ChildInv, ParseWindow
        <3>2. CASE WindowOK(cfg.window)
            <4>1. stage' \in {"resolve", "count"} /\ window' = AskedWindow /\ exit' = Running
                BY <2>1, <2>6, <3>1, <3>2 DEF ParseWindow
            <4> QED
                BY <2>1, <2>2, <2>3, <3>1, <4>1 DEF ChildInv, Running
        <3>3. CASE ~WindowOK(cfg.window)
            <4>1. NoFields(request.form)
                BY <2>3, <3>3, AskedIsGiven
            <4>2. stage' = "exited" /\ out' = out \o <<"error">>
                BY <2>6, <3>3 DEF ParseWindow, EndWith
            <4>3. ~Shows(out', "header")
                BY <3>1, <4>2, <2>4, OneShown, TextTypes, Written
            <4> QED
                BY <2>1, <2>2, <2>3, <3>1, <4>1, <4>2, <4>3 DEF ChildInv, Querying
        <3> QED
            BY <3>2, <3>3
    <2>7. CASE FetchLog
        <3>1. cfg.url /\ out = <<>>
            BY <2>1, <2>7 DEF ChildInv, FetchLog
        <3>2. \/ stage' = "scan" /\ out' = <<>>
              \/ stage' = "exited" /\ out' = out \o <<"error">>
            BY <2>7, <3>1 DEF FetchLog, EndWith
        <3>3. ~Shows(out', "header")
            BY <3>1, <3>2, <2>4, OneShown, TextTypes, Written
        <3> QED
            BY <2>1, <2>3, <3>1, <3>2, <3>3 DEF ChildInv, Querying
    <2>8. CASE ParseLine \/ EndOfLog
        <3>1. cfg.url /\ out' = <<>> /\ stage' \in {"scan", "parsed"}
            BY <2>1, <2>8 DEF ChildInv, ParseLine, EndOfLog, reportVars
        <3> QED
            BY <2>1, <2>3, <2>4, <3>1 DEF ChildInv, Querying
    <2>9. CASE PrintJobSection
        <3>1. cfg.url /\ out = <<>>
            BY <2>1, <2>9 DEF ChildInv, PrintJobSection
        <3>2. /\ stage' \in {"exited", "count", "resolve"}
              /\ \/ out' = <<>> \o <<"job", "noWindow">>
                 \/ out' = <<>> \o <<"job", "header", "fallback">>
                 \/ out' = Append(<<>>, "job")
            BY <2>9, <3>1 DEF PrintJobSection, EndWith
        <3>3. Len(out') > 0 /\ out'[1] = "job"
            BY <3>2
        <3> QED
            BY <2>1, <2>3, <3>1, <3>2, <3>3 DEF ChildInv
    <2>10. CASE RetryQuery \/ QueryFails \/ ResolveNode \/ CountSeries \/ FetchMeta \/ PrintTable
        <3>1. stage \in Querying /\ window' = window /\ stage' \in Querying \union {"exited"}
            BY <2>10 DEF RetryQuery, QueryFails, ResolveNode, CountSeries, FetchMeta, PrintTable, EndWith,
                         Tables, Querying, reportVars
        <3>2. exit' = 1 => sent' # <<>>
            <4>1. CASE QueryFails
                BY <4>1, SentTypes DEF QueryFails
            <4>2. CASE RetryQuery \/ ResolveNode \/ CountSeries \/ FetchMeta \/ PrintTable
                BY <2>1, <4>2 DEF RetryQuery, ResolveNode, CountSeries, FetchMeta, PrintTable, EndWith,
                                  reportVars, Running
            <4> QED
                BY <2>10, <4>1, <4>2
        <3>3. cfg.url => Len(out') > 0 /\ out'[1] = "job"
            BY <2>1, <2>10, <3>1, QueryWrites DEF ChildInv, OutputInv
        <3>4. stage' \notin {"off", "flags", "window", "fetch", "scan", "parsed"}
            BY <3>1 DEF Querying
        <3> QED
            BY <2>1, <2>2, <2>3, <3>1, <3>2, <3>3, <3>4 DEF ChildInv
    <2> QED
        BY <2>5, <2>6, <2>7, <2>8, <2>9, <2>10 DEF ReportStep
<1> QED
    BY <1>2, <1>3, <1>4, <1>5, <1>6

\* Whatever the child wrote, its end gives the page something to show.
LEMMA AnswerIsExplained ==
    ASSUME OutputInv, AnswerPage
    PROVE  FailureIsExplained'
<1>1. stage \in {"exited", "killed"} /\ answer' = Shown /\ UNCHANGED <<stage, out>>
    BY DEF AnswerPage, commandVars, reportVars
<1>2. Complete' <=> CompleteText(out)
    BY <1>1, CompleteIsShown DEF Complete, Printed
<1>3. CASE stage = "exited" /\ exit = 0 /\ CompleteText(out)
    <2>1. out # <<>>
        BY <1>3 DEF CompleteText, Shows
    <2> QED
        BY <1>1, <1>2, <1>3, <2>1 DEF FailureIsExplained, Shown
<1>4. CASE stage = "exited" /\ Shows(out, "error")
    <2>1. out # <<>>
        BY <1>4 DEF Shows
    <2> QED
        BY <1>1, <1>4, <2>1 DEF FailureIsExplained, Shown, Shows
<1>5. CASE stage = "killed"
    <2>1. Shown # <<>>
        BY <1>5 DEF Shown, OutputInv, Running
    <2> QED
        BY <1>1, <1>5, <2>1 DEF FailureIsExplained
<1> QED
    BY <1>1, <1>3, <1>4, <1>5 DEF OutputInv

LEMMA PageNextInv == PageInv /\ OutputInv /\ [PageNext]_allVars => PageInv'
<1> SUFFICES ASSUME PageInv, OutputInv, [PageNext]_allVars PROVE PageInv'
    OBVIOUS
<1> USE DEF PageInv
<1>1. CASE UNCHANGED allVars
    BY <1>1 DEF allVars, pageVars, commandVars, clientVars, reportVars, ChildInv, AskedWindow,
                FailureIsExplained, Complete, Printed
<1>2. CASE RejectForm \/ ExecFails
    BY <1>2 DEF RejectForm, ExecFails, commandVars, clientVars, reportVars, FailureIsExplained
<1>3. CASE ExecReport
    <2>1. /\ page' = "running" /\ UNCHANGED <<request, answer, sent, exit>>
          /\ cfg' = ChildConfig(request.form, request.env) /\ stage' = "flags" /\ stage = "off"
          /\ AcceptedForm(request.form)
        BY <1>3 DEF ExecReport, Start, clientVars
    <2>2. exit = Running /\ out = <<>> /\ out' = out
        BY <1>3, <2>1 DEF OutputInv, ExecReport, Start, PageInv
    <2>3. ChildInv'
        BY <2>1, <2>2, NothingShown DEF ChildInv, Querying, Running
    <2> QED
        BY <2>1, <2>3 DEF FailureIsExplained
<1>4. CASE Kill
    <2>1. /\ page = "running" /\ stage' = "killed" /\ UNCHANGED <<cfg, window, out, exit, sent, page, request, answer>>
        BY <1>4 DEF Kill, pageVars
    <2> QED
        BY <2>1 DEF ChildInv, AskedWindow, Querying, FailureIsExplained
<1>5. CASE AnswerPage
    BY <1>5, AnswerIsExplained DEF AnswerPage, commandVars, clientVars, reportVars
<1>6. CASE RunByHand
    BY <1>6 DEF RunByHand, Start, pageVars, clientVars, FailureIsExplained
<1>7. CASE CommandStep
    BY <1>7, ReportKeepsPage DEF CommandStep
<1> QED
    BY <1>1, <1>2, <1>3, <1>4, <1>5, <1>6, <1>7 DEF PageNext, Ended

LEMMA PageInvariant == PageSpec => []PageInv
<1>1. PageInit => PageInv
    BY PageInitInv
<1>2. PageInv /\ (OutputInv /\ FleetInv) /\ [PageNext]_allVars => PageInv'
    BY PageNextInv
<1> QED
    BY <1>1, <1>2, OutputInvariant, PTL DEF PageSpec

\* The queries are about the window the page was asked for and a given window
\* never ends the report by itself; where JOBREPORT_URL is set, the log whose
\* window replaces it is shown first (window.go:18-45, cli.go:119-126, 192-206).
THEOREM WindowIsQueried == PageSpec => []AcceptedWindowIsQueried
<1>1. PageInv => AcceptedWindowIsQueried
    <2> SUFFICES ASSUME PageInv, page = "running" PROVE AcceptedWindowIsQueried
        BY DEF AcceptedWindowIsQueried
    <2>1. ChildInv /\ cfg.url = request.env.url
        BY DEF PageInv, ChildInv, ChildConfig
    <2>2. Printed("header") <=> Shows(out, "header")
        BY DEF Printed, Shows
    <2> QED
        BY <2>1, <2>2 DEF ChildInv, AcceptedWindowIsQueried
<1> QED
    BY <1>1, PageInvariant, PTL

\* No answer is empty, and one without an error message is a complete report or
\* that of a killed child (server.go:203-219).
THEOREM FailureExplained == PageSpec => []FailureIsExplained
<1>1. PageInv => FailureIsExplained
    BY DEF PageInv
<1> QED
    BY <1>1, PageInvariant, PTL
=============================================================================
