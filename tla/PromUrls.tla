------------------------------ MODULE PromUrls ------------------------------
(***************************************************************************)
(* cmd/jobreport-web/store.go: the URLs a user types and the lists of them *)
(* that are stored.  Of a URL's text the parts normalizeURL looks at are   *)
(* kept: white space around it, the scheme before "://" ("" for none), and *)
(* the host with all that follows it (NoHost when url.Parse finds none).   *)
(***************************************************************************)
EXTENDS Sequences, SequencesExt

CONSTANTS
    Hosts,   \* hosts, with port and path
    NoHost   \* the empty host

URL == [padded : BOOLEAN, scheme : {"", "http", "https", "ftp"}, host : Hosts \union {NoHost}]

normalizeURL(u) ==
    [u EXCEPT !.padded = FALSE, !.scheme = IF @ = "" THEN "https" ELSE @]

\* normalizeURL returns no error: an http(s) URL with a host.
Accepted(u) == normalizeURL(u).scheme \in {"http", "https"} /\ u.host # NoHost

\* Remove deletes the raw form, and the normalized one if there is one.
Target(u) == {u} \union {normalizeURL(w) : w \in {x \in {u} : Accepted(x)}}

Members(list) == {list[i] : i \in DOMAIN list}

Added(list, u) == Append(list, normalizeURL(u))

\* The loop of Remove: all that is no target is kept, in its order.
Keep(kept, w, targets) == IF w \in targets THEN kept ELSE Append(kept, w)

Removed(list, u) == FoldLeft(LAMBDA kept, w : Keep(kept, w, Target(u)), <<>>, list)

(***************************************************************************)
(* What a read of the store, or a request, yields: a list, or an error.    *)
(***************************************************************************)
List(s) == [ok |-> TRUE, urls |-> s]
Failed == [ok |-> FALSE, urls |-> <<>>]
Outcome == {o \in [ok : BOOLEAN, urls : Seq(URL)] : ~o.ok => o = Failed}

\* Requests of a client; NoRequest: it has none under way.
Request == [op : {"index", "add", "remove"}, url : URL]
NoRequest == [op |-> "none", url |-> [padded |-> FALSE, scheme |-> "", host |-> NoHost]]
=============================================================================
