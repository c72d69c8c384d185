----------------------------- MODULE MCDashboardPage -----------------------------
(***************************************************************************)
(* Small instances of DashboardPage.                                        *)
(***************************************************************************)
EXTENDS DashboardPage

MCCatalogue == <<"sunny-day", "grid-outage">>

\* Runs of different lengths, for which no index may leave the run on show.
MCUnequal == [n \in Names |-> IF n = "sunny-day" THEN 2 ELSE 4]
=============================================================================
