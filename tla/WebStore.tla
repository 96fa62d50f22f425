------------------------------ MODULE WebStore ------------------------------
(***************************************************************************)
(* cmd/jobreport-web: the handlers of the Prometheus URL list              *)
(* (server.go) over the JSON file that stores it (store.go).               *)
(*                                                                         *)
(* Each client has one request at a time, served by a goroutine of its     *)
(* own.  storeMu covers the read-modify-write of Add and Remove; the index *)
(* page reads the file without it.  os.Rename replaces the file at once,   *)
(* and a reader that opened the old file reads all of it, so a whole-file  *)
(* read is one step.  A process crash can hit between any two steps; the   *)
(* temporary file it leaves behind is never read again, because CreateTemp *)
(* picks an unused name.                                                   *)
(***************************************************************************)
EXTENDS PromUrls, Naturals

CONSTANTS
    Clients,     \* goroutines serving requests
    NoClient,    \* storeMu is unlocked
    Requests,    \* the requests clients send
    Files,       \* contents of the store file when the server starts
    IOFails,     \* whether file operations may fail
    MaxCrashes   \* bound on crashes

ASSUME RequestsAssumption == Requests \subseteq Request
ASSUME FilesAssumption == Files \subseteq Outcome
ASSUME ClientsAssumption == NoClient \notin Clients
ASSUME WebBoundsAssumption == IOFails \in BOOLEAN /\ MaxCrashes \in Nat

VARIABLES
    disk,     \* the store file: a list (missing or empty: no URLs) or Failed
    storeMu,  \* the client whose goroutine holds the mutex
    pc,       \* pc[c]: control point of the handler
    req,      \* req[c]: the request, or NoRequest
    draft,    \* draft[c]: the list to be written
    temp,     \* temp[c]: content of the temporary file
    result,   \* result[c]: what the store method returned
    crashes   \* crashes so far

vars == <<disk, storeMu, pc, req, draft, temp, result, crashes>>

Working == {"load", "create", "write", "rename", "cleanup", "unlock"}

TypeOK ==
    /\ disk \in Outcome
    /\ storeMu \in Clients \union {NoClient}
    /\ pc \in [Clients -> {"idle", "lock", "reply"} \union Working]
    /\ req \in [Clients -> Requests \union {NoRequest}]
    /\ draft \in [Clients -> Seq(URL)]
    /\ temp \in [Clients -> Outcome]
    /\ result \in [Clients -> Outcome]
    /\ crashes \in 0..MaxCrashes

Init ==
    /\ disk \in Files
    /\ storeMu = NoClient
    /\ pc = [c \in Clients |-> "idle"]
    /\ req = [c \in Clients |-> NoRequest]
    /\ draft = [c \in Clients |-> <<>>]
    /\ temp = [c \in Clients |-> Failed]
    /\ result = [c \in Clients |-> Failed]
    /\ crashes = 0

Goto(c, label) == pc' = [pc EXCEPT ![c] = label]
Return(c, r) == result' = [result EXCEPT ![c] = r]

-----------------------------------------------------------------------------
(* The handlers *)

\* A request arrives.
Begin(c) ==
    /\ pc[c] = "idle"
    /\ \E r \in Requests :
         /\ req' = [req EXCEPT ![c] = r]
         /\ Goto(c, IF r.op = "index" THEN "load" ELSE "lock")
    /\ UNCHANGED <<disk, storeMu, draft, temp, result, crashes>>

\* A wrong method or an unreadable form: an error before the store is touched.
BadForm(c) ==
    /\ pc[c] = "lock"
    /\ Return(c, Failed)
    /\ Goto(c, "reply")
    /\ UNCHANGED <<disk, storeMu, req, draft, temp, crashes>>

\* Mutation: the read-modify-write is not serialized.
Lock_Ignored(c) ==
    /\ pc[c] = "lock"
    /\ storeMu' = c
    /\ Goto(c, "load")
    /\ UNCHANGED <<disk, req, draft, temp, result, crashes>>

Lock(c) ==
    /\ pc[c] = "lock"
    /\ storeMu = NoClient
    /\ storeMu' = c
    /\ Goto(c, "load")
    /\ UNCHANGED <<disk, req, draft, temp, result, crashes>>

\* Mutation: a failed store method returns without Unlock.
Unlock_OnlyOnSuccess(c) ==
    /\ pc[c] = "unlock"
    /\ storeMu' = IF result[c].ok THEN NoClient ELSE storeMu
    /\ Goto(c, "reply")
    /\ UNCHANGED <<disk, req, draft, temp, result, crashes>>

Unlock(c) ==
    /\ pc[c] = "unlock"
    /\ storeMu' = NoClient
    /\ Goto(c, "reply")
    /\ UNCHANGED <<disk, req, draft, temp, result, crashes>>

\* The fragment, the page or the error is rendered from the result, and the
\* handler returns.
Reply(c) ==
    /\ pc[c] = "reply"
    /\ Goto(c, "idle")
    /\ req' = [req EXCEPT ![c] = NoRequest]
    /\ Return(c, Failed)
    /\ UNCHANGED <<disk, storeMu, draft, temp, crashes>>

-----------------------------------------------------------------------------
(* The store *)

\* What Load may return.
Load == {disk} \union {Failed : b \in {x \in {TRUE} : IOFails}}

LoadIndex(c) ==
    /\ pc[c] = "load"
    /\ req[c].op = "index"
    /\ \E l \in Load : Return(c, IF l.ok THEN l ELSE List(<<>>))
    /\ Goto(c, "reply")
    /\ UNCHANGED <<disk, storeMu, req, draft, temp, crashes>>

\* Mutation: the posted text, not its normalized form, is looked up.
Present_Raw(list, u) == u \in Members(list)

Present(list, u) == normalizeURL(u) \in Members(list)

\* Add up to its write: an invalid URL, a list that cannot be loaded and a URL
\* already present return at once.
LoadAdd(c) ==
    /\ pc[c] = "load"
    /\ req[c].op = "add"
    /\ \E l \in Load :
         IF ~Accepted(req[c].url) \/ ~l.ok \/ Present(l.urls, req[c].url)
         THEN /\ Return(c, IF Accepted(req[c].url) THEN l ELSE Failed)
              /\ Goto(c, "unlock")
              /\ UNCHANGED draft
         ELSE /\ draft' = [draft EXCEPT ![c] = Added(l.urls, req[c].url)]
              /\ Goto(c, "create")
              /\ UNCHANGED result
    /\ UNCHANGED <<disk, storeMu, req, temp, crashes>>

\* Remove up to its write.
LoadRemove(c) ==
    /\ pc[c] = "load"
    /\ req[c].op = "remove"
    /\ \E l \in Load :
         IF ~l.ok \/ Target(req[c].url) \intersect Members(l.urls) = {}
         THEN /\ Return(c, l)
              /\ Goto(c, "unlock")
              /\ UNCHANGED draft
         ELSE /\ draft' = [draft EXCEPT ![c] = Removed(l.urls, req[c].url)]
              /\ Goto(c, "create")
              /\ UNCHANGED result
    /\ UNCHANGED <<disk, storeMu, req, temp, crashes>>

\* writeJSONAtomic: a temporary file in the same directory; empty so far.
CreateTemp(c) ==
    /\ pc[c] = "create"
    /\ temp' = [temp EXCEPT ![c] = List(<<>>)]
    /\ Goto(c, "write")
    /\ UNCHANGED <<disk, storeMu, req, draft, result, crashes>>

CreateTempFails(c) ==
    /\ IOFails
    /\ pc[c] = "create"
    /\ Return(c, Failed)
    /\ Goto(c, "unlock")
    /\ UNCHANGED <<disk, storeMu, req, draft, temp, crashes>>

WriteTemp(c) ==
    /\ pc[c] = "write"
    /\ temp' = [temp EXCEPT ![c] = List(draft[c])]
    /\ Goto(c, "rename")
    /\ UNCHANGED <<disk, storeMu, req, draft, result, crashes>>

\* Write or Close fails: the file holds part of the JSON text.
WriteTempFails(c) ==
    /\ IOFails
    /\ pc[c] = "write"
    /\ temp' = [temp EXCEPT ![c] = Failed]
    /\ Return(c, Failed)
    /\ Goto(c, "cleanup")
    /\ UNCHANGED <<disk, storeMu, req, draft, crashes>>

Rename(c) ==
    /\ pc[c] = "rename"
    /\ disk' = temp[c]
    /\ Return(c, List(draft[c]))
    /\ Goto(c, "cleanup")
    /\ UNCHANGED <<storeMu, req, draft, temp, crashes>>

RenameFails(c) ==
    /\ IOFails
    /\ pc[c] = "rename"
    /\ Return(c, Failed)
    /\ Goto(c, "cleanup")
    /\ UNCHANGED <<disk, storeMu, req, draft, temp, crashes>>

\* The deferred os.Remove; nothing is left to remove after a rename.
Cleanup(c) ==
    /\ pc[c] = "cleanup"
    /\ temp' = [temp EXCEPT ![c] = Failed]
    /\ draft' = [draft EXCEPT ![c] = <<>>]
    /\ Goto(c, "unlock")
    /\ UNCHANGED <<disk, storeMu, req, result, crashes>>

-----------------------------------------------------------------------------
\* The process dies and is started again.
Crash ==
    /\ crashes < MaxCrashes
    /\ crashes' = crashes + 1
    /\ storeMu' = NoClient
    /\ pc' = [c \in Clients |-> "idle"]
    /\ draft' = [c \in Clients |-> <<>>]
    /\ temp' = [c \in Clients |-> Failed]
    /\ req' = [c \in Clients |-> NoRequest]
    /\ result' = [c \in Clients |-> Failed]
    /\ UNCHANGED disk

\* The steps of a handler once it has the mutex, or needs none.
Step(c) ==
    \/ Unlock(c) \/ Reply(c)
    \/ LoadIndex(c) \/ LoadAdd(c) \/ LoadRemove(c)
    \/ CreateTemp(c) \/ CreateTempFails(c)
    \/ WriteTemp(c) \/ WriteTempFails(c)
    \/ Rename(c) \/ RenameFails(c)
    \/ Cleanup(c)

Next ==
    \/ Crash
    \/ \E c \in Clients : Begin(c) \/ BadForm(c) \/ Lock(c) \/ Step(c)

Spec == Init /\ [][Next]_vars

(***************************************************************************)
(* The Go scheduler runs every goroutine that can go on, and sync.Mutex is *)
(* fair to a waiter: after 1ms it is handed the mutex before newcomers.    *)
(***************************************************************************)
FairSpec == Spec /\ \A c \in Clients : WF_vars(Step(c)) /\ SF_vars(Lock(c))

-----------------------------------------------------------------------------
(* Properties *)

UL == INSTANCE UrlList WITH
        list <- disk,
        asked <- req,
        answer <- [c \in Clients |->
            IF pc[c] \in {"cleanup", "unlock", "reply"} THEN {result[c]} ELSE {}]

\* Adds, removes and page loads behave as if each happened at one instant,
\* crashes and failed writes included: no update is lost, nobody sees a file
\* half written, an acknowledged change is on disk and a failed one is not
\* (server.go:125-127, "concurrent adds can't lose an update").
ImplementsUrlList == UL!ListSpec

\* Adding never stores a URL twice, however it was typed and however many
\* requests race (store.go:36-38, "deduping exact matches").
NoDuplicates == \A i, j \in DOMAIN disk.urls : disk.urls[i] = disk.urls[j] => i = j

\* Every request is answered, unless the server crashes: the mutex is released
\* on every path (server.go:127-129, 153-155).
Answered == \A c \in Clients : pc[c] # "idle" ~> pc[c] = "idle"
=============================================================================
