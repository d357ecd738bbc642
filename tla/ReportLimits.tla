----------------------------- MODULE ReportLimits -----------------------------
(***************************************************************************)
(* _check_rate_limits of routers/reports.py: at most DayMax reports of a   *)
(* user in a day and CompanyMax for a company in seven days, counted in    *)
(* user_action_rate_limits.                                                *)
(*                                                                         *)
(* Reports run in threads and every statement commits by itself, so a      *)
(* limit is compared with a count that other reports are about to raise.   *)
(***************************************************************************)
EXTENDS Integers, FiniteSets

CONSTANTS
    Requests,    \* reports that may be under way at the same time
    Reporters,   \* users
    Companies,
    Nobody,      \* the reporter of a request that is not under way
    Anonymous,   \* the company of a job that names none
    NoCount,     \* the bucket has no row
    DayMax,      \* report_rate_limit_per_day
    CompanyMax   \* report_rate_limit_per_company_per_week

VARIABLES
    day,      \* the row report:day:<user>: [n: count, over: window_started_at is of an earlier day]
    week,     \* the row report:co:<user>:<company>: [n, over: it is seven days old]
    request,  \* where a request stands: [at, user, company]
    passed    \* ghost: reports of a user that have passed the day's limit today

limitVars == <<day, week, request, passed>>

NoRequest == [at |-> "idle", user |-> Nobody, company |-> Anonymous]
Counts == [n : 1 .. (IF DayMax > CompanyMax THEN DayMax ELSE CompanyMax) + Cardinality(Requests),
           over : BOOLEAN]
Steps == {"idle", "day", "day add", "day set", "week", "week add", "week set"}

LimitsTypeOK ==
    /\ day \in [Reporters -> Counts \cup {NoCount}]
    /\ week \in [Reporters \X Companies -> Counts \cup {NoCount}]
    /\ request \in [Requests -> [at : Steps, user : Reporters \cup {Nobody},
                                 company : Companies \cup {Anonymous}]]
    /\ passed \in [Reporters -> Nat]

LimitsInit ==
    /\ day = [u \in Reporters |-> NoCount]
    /\ week = [k \in Reporters \X Companies |-> NoCount]
    /\ request = [r \in Requests |-> NoRequest]
    /\ passed = [u \in Reporters |-> 0]
-----------------------------------------------------------------------------
\* A row that opens its window anew and one that has counted one more; and what a
\* SELECT of a row decides: refuse, count + 1, or begin the window.
First == [n |-> 1, over |-> FALSE]
Added(row) == [row EXCEPT !.n = @ + 1]
Fresh(row) == row # NoCount /\ ~ row.over

\* Slip: the limit itself still passes, for ReportsBounded.
SlipRefuses(row, max) == Fresh(row) /\ row.n > max

Refuses(row, max) == Fresh(row) /\ row.n >= max
Plan(row) == IF Fresh(row) THEN "add" ELSE "set"

To(r, at) == request' = [request EXCEPT ![r].at = at]
Ends(r) == request' = [request EXCEPT ![r] = NoRequest]

\* report_job on a job that exists.
StartReport(r, u, co) ==
    /\ request[r].at = "idle"
    /\ request' = [request EXCEPT ![r] = [at |-> "day", user |-> u, company |-> co]]
    /\ UNCHANGED <<day, week, passed>>

ReadDay(r) ==
    LET row == day[request[r].user] IN
    /\ request[r].at = "day"
    /\ \/ Refuses(row, DayMax) /\ Ends(r)
       \/ ~ Refuses(row, DayMax) /\ To(r, IF Plan(row) = "add" THEN "day add" ELSE "day set")
    /\ UNCHANGED <<day, week, passed>>

\* UPDATE ... count + 1 keeps the window; the upsert begins it with a count of one,
\* whatever another report has stored since.  An UPDATE that comes after midnight
\* still counts for the day before.
WriteDay(r) ==
    LET u == request[r].user IN
    /\ request[r].at \in {"day add", "day set"}
    /\ day' = [day EXCEPT ![u] = IF request[r].at = "day set" THEN First ELSE Added(day[u])]
    /\ passed' = [passed EXCEPT ![u] = IF Fresh(day'[u]) THEN @ + 1 ELSE @]
    /\ IF request[r].company = Anonymous THEN Ends(r) ELSE To(r, "week")
    /\ UNCHANGED week

\* Slip: the company's count is never compared, for TypeOK.
SlipReadWeek(r) ==
    LET row == week[<<request[r].user, request[r].company>>] IN
    /\ request[r].at = "week"
    /\ To(r, IF Plan(row) = "add" THEN "week add" ELSE "week set")
    /\ UNCHANGED <<day, week, passed>>

\* The company's refusal leaves the day charged.
ReadWeek(r) ==
    LET row == week[<<request[r].user, request[r].company>>] IN
    /\ request[r].at = "week"
    /\ \/ Refuses(row, CompanyMax) /\ Ends(r)
       \/ ~ Refuses(row, CompanyMax) /\ To(r, IF Plan(row) = "add" THEN "week add" ELSE "week set")
    /\ UNCHANGED <<day, week, passed>>

\* The report itself, which follows, is SubmitReport of JobLifecycle.
WriteWeek(r) ==
    LET k == <<request[r].user, request[r].company>> IN
    /\ request[r].at \in {"week add", "week set"}
    /\ week' = [week EXCEPT ![k] = IF request[r].at = "week set" THEN First ELSE Added(week[k])]
    /\ Ends(r)
    /\ UNCHANGED <<day, passed>>

\* Midnight, for the user whose row it ends; requests under way go on.
NewDay(u) ==
    /\ Fresh(day[u])
    /\ day' = [day EXCEPT ![u].over = TRUE]
    /\ passed' = [passed EXCEPT ![u] = 0]
    /\ UNCHANGED <<week, request>>

NewWeek(k) ==
    /\ Fresh(week[k])
    /\ week' = [week EXCEPT ![k].over = TRUE]
    /\ UNCHANGED <<day, request, passed>>

Reports(r) == ReadDay(r) \/ WriteDay(r) \/ ReadWeek(r) \/ WriteWeek(r)

Calendar == (\E u \in Reporters : NewDay(u)) \/ (\E k \in Reporters \X Companies : NewWeek(k))

LimitsNext ==
    \/ \E r \in Requests : Reports(r) \/ \E u \in Reporters, co \in Companies \cup {Anonymous} :
                                            StartReport(r, u, co)
    \/ Calendar

LimitsSpec == LimitsInit /\ [][LimitsNext]_limitVars
-----------------------------------------------------------------------------
\* Reports that overlap pass a limit that is full and begin a count again that
\* has begun.  Even so one count lets DayMax reports through and those that were
\* compared with it before, and no request begins it twice in a day.
ReportsBounded ==
    LET overlap == Cardinality(Requests)
    IN  \A u \in Reporters : passed[u] <= overlap * (DayMax + overlap - 1)
=============================================================================
