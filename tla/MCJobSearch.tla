----------------------------- MODULE MCJobSearch -----------------------------
(* JobSearch on small instances. *)
EXTENDS JobSearch

CONSTANTS country, v1, v2, w1, r1, r2

Filter(q, wanted, hours) ==
    [q |-> q, want |-> [c \in Columns |-> wanted], hours |-> hours, expired |-> "hide"]
Recent == {Filter(NoQuery, {v1}, Hours)}
RecentSearch == {Filter(w1, {v1}, Hours)}
=============================================================================
