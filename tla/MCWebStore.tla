----------------------------- MODULE MCWebStore -----------------------------
(* Instances of WebStore for TLC. *)
EXTENDS WebStore

CONSTANT h1

Typed(padded, scheme, host) == [padded |-> padded, scheme |-> scheme, host |-> host]

\* A bare host with white space, and the https URL it stands for.
Bare == Typed(TRUE, "", h1)
Https == Typed(FALSE, "https", h1)

\* Both ways to write one URL are added; one of them is removed; an add that is
\* refused; the index page.
MCRequests ==
    {[op |-> "add", url |-> Bare], [op |-> "add", url |-> Https],
     [op |-> "remove", url |-> Bare],
     [op |-> "add", url |-> Typed(FALSE, "ftp", h1)],
     [op |-> "index", url |-> Typed(FALSE, "", NoHost)]}

\* No URLs; a list edited by hand, not normalized; a file that is no JSON list.
MCFiles == {List(<<>>), List(<<Bare>>), Failed}
=============================================================================
