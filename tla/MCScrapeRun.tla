---------------------------- MODULE MCScrapeRun ----------------------------
(* Small instances of scrape runs. *)
EXTENDS ScrapeRun, TLC

CONSTANTS a1, a2

\* The ATSes are interchangeable.
AtsSymmetry == Permutations(Ats)
=============================================================================
