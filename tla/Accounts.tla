------------------------------- MODULE Accounts -------------------------------
(***************************************************************************)
(* Signed-in browsers that report jobs: Sessions composed with             *)
(* ReportLimits.  A browser posts a form or reports a job, one at a time,  *)
(* and auth_middleware lets a report in only while its session is live;    *)
(* the session may end while the report is under way.                      *)
(***************************************************************************)
EXTENDS Sessions

CONSTANTS Companies, Anonymous, NoCount, DayMax, CompanyMax

\* What ReportLimits asks of its constants.
ASSUME LimitsAssumption ==
    /\ DayMax \in Nat \ {0} /\ CompanyMax \in Nat \ {0}
    /\ Anonymous \notin Companies
    /\ NoCount \notin [n : Nat, over : BOOLEAN]
    /\ IsFiniteSet(Browsers)

VARIABLES day, week, request, passed

Limits == INSTANCE ReportLimits WITH Requests <- Browsers, Reporters <- Users, Nobody <- None

limitVars == <<day, week, request, passed>>
vars == <<sessionVars, limitVars>>

Init == SessionsInit /\ Limits!LimitsInit

\* auth_middleware and require_user: the user of the report is the session's.
Report(b) ==
    /\ form[b].at = "idle" /\ UserOf(b) # None
    /\ \E co \in Companies \cup {Anonymous} : Limits!StartReport(b, UserOf(b), co)
    /\ UNCHANGED sessionVars

PostForm(b) ==
    /\ request[b].at = "idle"
    /\ Opens(b)
    /\ UNCHANGED limitVars

Next ==
    \/ \E b \in Browsers :
          \/ PostForm(b) \/ Report(b)
          \/ Continues(b) /\ UNCHANGED limitVars
          \/ Limits!Reports(b) /\ UNCHANGED sessionVars
    \/ Elsewhere /\ UNCHANGED limitVars
    \/ Limits!Calendar /\ UNCHANGED sessionVars

Spec == Init /\ [][Next]_vars
-----------------------------------------------------------------------------
TypeOK == SessionsTypeOK /\ Limits!LimitsTypeOK
ReportsBounded == Limits!ReportsBounded
=============================================================================
