------------------------------ MODULE MCReports ------------------------------
(***************************************************************************)
(* Which processes of Reports are alike, and where the search ends for one *)
(* report.                                                                 *)
(***************************************************************************)
EXTENDS Reports, TLC

MCSymmetry ==
    Permutations(Jobs) \cup Permutations(Flushers) \cup Permutations(Clients)

\* No step changes a report that is made, so none is taken after it.
MCReportOpen == ~ReportMade
=============================================================================
