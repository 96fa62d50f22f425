------------------------------ MODULE UrlList -------------------------------
(***************************************************************************)
(* What the Prometheus URL list of jobreport-web promises its users: every *)
(* request takes effect at one instant between its start and its answer,   *)
(* or not at all, and is answered with the list as it was at that instant. *)
(* A crash forgets the requests under way and keeps the list.              *)
(***************************************************************************)
EXTENDS PromUrls

CONSTANTS
    Clients,   \* connections, one request at a time each
    Requests   \* what a client may ask

VARIABLES
    list,    \* the stored list; Failed when the file cannot be decoded
    asked,   \* asked[c]: the request of c under way, or NoRequest
    answer   \* answer[c]: {} until asked[c] is settled, then the answer

listVars == <<list, asked, answer>>

\* An undecodable store accepts nothing.
Effect(r) ==
    CASE ~list.ok -> list
      [] list.ok /\ r.op = "add" /\ Accepted(r.url)
                 /\ normalizeURL(r.url) \notin Members(list.urls) -> List(Added(list.urls, r.url))
      [] list.ok /\ r.op = "remove"
                 /\ Target(r.url) \intersect Members(list.urls) # {} -> List(Removed(list.urls, r.url))
      [] OTHER -> list

\* The page is still rendered, with no URLs, when the list cannot be read.
FailureAnswer(r) == IF r.op = "index" THEN List(<<>>) ELSE Failed

ListInit ==
    /\ list \in Outcome
    /\ asked = [c \in Clients |-> NoRequest]
    /\ answer = [c \in Clients |-> {}]

Ask(c) ==
    /\ asked[c] = NoRequest
    /\ \E r \in Requests : asked' = [asked EXCEPT ![c] = r]
    /\ UNCHANGED <<list, answer>>

TakeEffect(c) ==
    /\ asked[c] # NoRequest /\ answer[c] = {}
    /\ list.ok
    /\ asked[c].op = "add" => Accepted(asked[c].url)
    /\ list' = Effect(asked[c])
    /\ answer' = [answer EXCEPT ![c] = {list'}]
    /\ UNCHANGED asked

Fail(c) ==
    /\ asked[c] # NoRequest /\ answer[c] = {}
    /\ answer' = [answer EXCEPT ![c] = {FailureAnswer(asked[c])}]
    /\ UNCHANGED <<list, asked>>

Done(c) ==
    /\ answer[c] # {}
    /\ asked' = [asked EXCEPT ![c] = NoRequest]
    /\ answer' = [answer EXCEPT ![c] = {}]
    /\ UNCHANGED list

Forget ==
    /\ asked' = [c \in Clients |-> NoRequest]
    /\ answer' = [c \in Clients |-> {}]
    /\ UNCHANGED list

ListNext == Forget \/ \E c \in Clients : Ask(c) \/ TakeEffect(c) \/ Fail(c) \/ Done(c)

ListSpec == ListInit /\ [][ListNext]_listVars
=============================================================================
