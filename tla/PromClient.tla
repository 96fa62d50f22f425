----------------------------- MODULE PromClient -----------------------------
(***************************************************************************)
(* internal/jobreport/prom.go: promClient.get, one query against a         *)
(* Prometheus that may answer, refuse, fail behind its proxy or not answer *)
(* at all.  The clock counts half seconds since the report started.        *)
(***************************************************************************)
EXTENDS Integers, Sequences, FiniteSets

CONSTANTS
    HttpTimeout,   \* http.Client.Timeout of one attempt
    RetryBackoff,  \* retryBackoff
    Latencies      \* how long an attempt may take

ASSUME TimesAssumption ==
    /\ HttpTimeout \in Nat /\ RetryBackoff \in Nat
    /\ Latencies \subseteq 0..HttpTimeout

VARIABLES
    clock,     \* time spent so far
    attempt,   \* attempt of the query under way
    sent       \* answers to the requests of the query under way

clientVars == <<clock, attempt, sent>>

maxAttempts == 3

(***************************************************************************)
(* How an attempt may end.  ok: 200 with a decodable success; unsent: the  *)
(* URL makes no request; transport: no or half a response; gateway: 502,   *)
(* 503 or 504; refused: any other status, or a body that is no success.    *)
(***************************************************************************)
Replies(goodURL) ==
    IF ~goodURL THEN {[took |-> 0, got |-> "unsent"]}
    ELSE {[took |-> t, got |-> g] : t \in Latencies \ {HttpTimeout},
                                    g \in {"ok", "transport", "gateway", "refused"}}
         \union {[took |-> HttpTimeout, got |-> "transport"]}

NewQuery == attempt = 1 /\ sent = <<>>

\* retryableStatus, and the transport errors of getOnce.
Transient(r) == r.got \in {"transport", "gateway"}

\* Another attempt follows after the backoff.
Retry(r) ==
    /\ Transient(r)
    /\ attempt < maxAttempts
    /\ attempt' = attempt + 1
    /\ clock' = clock + r.took + RetryBackoff * attempt
    /\ sent' = Append(sent, r.got)

\* get returns: with the answer, with a definitive error, or with the error of
\* the last attempt.
Returns(r) ==
    /\ ~Transient(r) \/ attempt = maxAttempts
    /\ clock' = clock + r.took
    /\ attempt' = 1

Succeeds(r) == Returns(r) /\ r.got = "ok" /\ sent' = <<>>
Fails(r) == Returns(r) /\ r.got # "ok" /\ sent' = Append(sent, r.got)
=============================================================================
