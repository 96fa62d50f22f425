---------------------------- MODULE ActiveSeries ----------------------------
(***************************************************************************)
(* What the scraper and the store together promise the readers of          *)
(* GetActiveProcesses (the /metrics collectors and /api/processes): for    *)
(* each pid at most one published sample.  It is replaced only by a sample *)
(* of the scrape under way, which is newer, or withdrawn; a withdrawn one  *)
(* never comes back, since a pid is published again only with a sample of  *)
(* the scrape under way.                                                   *)
(***************************************************************************)
EXTENDS Integers

CONSTANT Pids

VARIABLES
    stamp,   \* start of the latest scrape
    series   \* series[p]: timestamp of the published sample of p, or Unpublished

seriesVars == <<stamp, series>>

Unpublished == 0

SeriesInit == stamp = 0 /\ series = [p \in Pids |-> Unpublished]

NewScrape ==
    /\ stamp' \in Nat /\ stamp' > stamp
    /\ UNCHANGED series

Publish(p) ==
    /\ UNCHANGED stamp
    /\ series[p] < stamp
    /\ series' = [series EXCEPT ![p] = stamp]

Withdraw ==
    /\ UNCHANGED stamp
    /\ \E S \in SUBSET Pids :
         series' = [p \in Pids |-> IF p \in S THEN Unpublished ELSE series[p]]

SeriesNext ==
    \/ Withdraw
    \/ NewScrape
    \/ \E p \in Pids : Publish(p)

SeriesSpec == SeriesInit /\ [][SeriesNext]_seriesVars
=============================================================================
