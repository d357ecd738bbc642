--------------------------- MODULE MCVerifierRuns ---------------------------
(* VerifierRuns on small instances. *)
EXTENDS VerifierRuns

CONSTANTS j1, j2, j3

AllGreenhouse == [j \in Jobs |-> "greenhouse"]

\* One response for each kind of verdict.
Responses ==
    { [code |-> 200, root |-> FALSE, body |-> "form"],
      [code |-> 404, root |-> FALSE, body |-> "silent"],
      [code |-> 429, root |-> FALSE, body |-> "silent"] }

\* A posting that is gone, and a host that asks to be left alone.
GoneOrBusy ==
    { [code |-> 404, root |-> FALSE, body |-> "silent"],
      [code |-> 429, root |-> FALSE, body |-> "silent"] }

\* A response that says nothing either way.
Silence == { [code |-> 503, root |-> FALSE, body |-> "silent"] }
=============================================================================
