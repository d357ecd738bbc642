--------------------------- MODULE MCIngestCycle ---------------------------
(* Small instances of ingestion. *)
EXTENDS IngestCycle, TLC

CONSTANTS u1, u2, a1, a2

OneAts  == [u \in Urls |-> a1]
EachAts == [u \in Urls |-> IF u = u1 THEN a1 ELSE a2]

\* Upstream drops u1 and may relist it.
Histories == [Versions -> SUBSET Urls]
AlwaysListed == {[v \in Versions |-> Urls]}
=============================================================================
