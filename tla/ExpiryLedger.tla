---------------------------- MODULE ExpiryLedger ----------------------------
(***************************************************************************)
(* What the lifecycle promises about hiding jobs, with every request,       *)
(* statement and read abstracted away: a job is automatically marked        *)
(* expired only by spending a permit; a permit is handed out only for a     *)
(* job that something else than users spoke against, only while auto-       *)
(* marking is on, and at most Threshold times per ATS and hour.  Only an    *)
(* admin marks jobs expired without a permit.                               *)
(***************************************************************************)
EXTENDS Integers

CONSTANTS
  Jobs, Ats, NoAts, AtsOf,
  Holders,       \* who may hold a permit
  AutoMarking,
  Threshold,
  MaxHour

Buckets == Ats \X (0..MaxHour)

VARIABLES
  status,   \* the status of each job
  cause,    \* what has spoken against a job so far
  granted,  \* permits handed out per ATS and hour
  permit    \* the job each holder may expire, if any: a set of at most one job

vars == <<status, cause, granted, permit>>

Init ==
  /\ status = [j \in Jobs |-> "active"]
  /\ cause = [j \in Jobs |-> {}]
  /\ granted = [b \in Buckets |-> 0]
  /\ permit = [p \in Holders |-> {}]

\* A missed manifest or a dead page speaks against a job.
Accuse(j, why) ==
  /\ why \in {"drop", "http"}
  /\ cause' = [cause EXCEPT ![j] = @ \cup {why}]
  /\ UNCHANGED <<status, granted, permit>>

\* A permit within the budget of the job's ATS; a job without an ATS has none.
Grant(p, j) ==
  /\ AutoMarking /\ cause[j] \ {"admin"} # {} /\ permit[p] = {}
  /\ permit' = [permit EXCEPT ![p] = {j}]
  /\ \/ AtsOf[j] = NoAts /\ UNCHANGED granted
     \/ \E b \in Buckets : /\ b[1] = AtsOf[j] /\ granted[b] < Threshold
                           /\ granted' = [granted EXCEPT ![b] = @ + 1]
  /\ UNCHANGED <<status, cause>>

\* The holder expires the job, unless its row is gone.
Spend(p, j) ==
  /\ j \in permit[p]
  /\ permit' = [permit EXCEPT ![p] = {}]
  /\ status' = IF status[j] = "gone" THEN status
               ELSE [status EXCEPT ![j] = "expired"]
  /\ UNCHANGED <<cause, granted>>

AdminExpire(j) ==
  /\ status[j] # "gone"
  /\ status' = [status EXCEPT ![j] = "expired"]
  /\ cause' = [cause EXCEPT ![j] = @ \cup {"admin"}]
  /\ UNCHANGED <<granted, permit>>

\* Jobs are suspected, found live, reactivated or deleted, never expired.
Change(S, to) ==
  /\ to \in {"active", "suspected", "gone"}
  /\ \A j \in S : status[j] = "gone" => to = "gone"
  /\ status' = [j \in Jobs |-> IF j \in S THEN to ELSE status[j]]
  /\ UNCHANGED <<cause, granted, permit>>

Next ==
  \/ \E j \in Jobs, why \in {"drop", "http"} : Accuse(j, why)
  \/ \E p \in Holders, j \in Jobs : Grant(p, j) \/ Spend(p, j)
  \/ \E j \in Jobs : AdminExpire(j)
  \/ \E S \in SUBSET Jobs, to \in {"active", "suspected", "gone"} : Change(S, to)

Spec == Init /\ [][Next]_vars
=============================================================================
