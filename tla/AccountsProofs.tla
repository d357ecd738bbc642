---------------------------- MODULE AccountsProofs ----------------------------
(***************************************************************************)
(* Proofs about sessions, for any browsers, tokens and users, and about    *)
(* signed-in reporters, whose sessions are those of Sessions.              *)
(***************************************************************************)
EXTENDS Accounts, FiniteSetTheorems, TLAPS

\* A form keeps the cookie it came with; it has a token to hand over only before its
\* answer, and once its old session is ended that token has no row again.
FormsInOrder ==
    \A b \in Browsers :
        /\ form[b].at # "reply" => form[b].issued = None
        /\ form[b].at # "idle" => form[b].token = cookie[b]
        /\ form[b].at \in {"issue", "reply", "left"} /\ form[b].token # None
              => session[form[b].token] = None

IInv == SessionsTypeOK /\ FormsInOrder /\ SessionsHeld

LEMMA InitIInv == SessionsInit => IInv
BY SessionsAssumption
   DEF SessionsInit, IInv, SessionsTypeOK, FormsInOrder, SessionsHeld, Live, Idle, Forms

\* Posting a form changes no session.
LEMMA OpensIInv ==
  ASSUME IInv, NEW b \in Browsers, Opens(b)
  PROVE  IInv'
<1>1. \E at \in {"drop", "leave", "revoke"}, u \in Users \cup {None} :
         /\ form[b].at = "idle" /\ Post(b, at, u)
         /\ account' \in SUBSET Users
         /\ UNCHANGED <<session, lapsed, cookie, lost>>
  BY DEF Opens, SigninPasses, SignupPasses, PostLogout, PostRevoke, UserOf, Live, IInv, SessionsTypeOK
<1>2. PICK at \in {"drop", "leave", "revoke"}, u \in Users \cup {None} :
         /\ form[b].at = "idle" /\ Post(b, at, u)
         /\ account' \in SUBSET Users
         /\ UNCHANGED <<session, lapsed, cookie, lost>>
  BY <1>1
<1>3. form' = [form EXCEPT ![b] = [at |-> at, user |-> u, token |-> cookie[b], issued |-> None]]
  BY <1>2 DEF Post
<1>4. form[b].issued = None
  BY <1>2 DEF IInv, FormsInOrder
<1>5. SessionsTypeOK'
  BY <1>2, <1>3 DEF IInv, SessionsTypeOK, Forms
<1>6. FormsInOrder'
  BY <1>2, <1>3 DEF IInv, FormsInOrder, SessionsTypeOK
<1>7. SessionsHeld'
  BY <1>2, <1>3, <1>4 DEF IInv, SessionsHeld, SessionsTypeOK, Live
<1>. QED  BY <1>5, <1>6, <1>7 DEF IInv

\* Whatever a form does next, its server stopping included.
LEMMA ContinuesIInv ==
  ASSUME IInv, NEW b \in Browsers, Continues(b)
  PROVE  IInv'
<1>. USE SessionsAssumption DEF IInv, SessionsTypeOK, FormsInOrder, Ended, Forms
<1>1. CASE DropStale(b)
  <2>1. SessionsTypeOK'
    BY <1>1 DEF DropStale
  <2>2. FormsInOrder'
    BY <1>1 DEF DropStale
  <2>3. SessionsHeld'
    BY <1>1 DEF DropStale, SessionsHeld, Live
  <2>. QED  BY <2>1, <2>2, <2>3
<1>2. CASE IssueSession(b)
  <2>1. PICK t \in Tokens :
          /\ Unused(t)
          /\ session' = [session EXCEPT ![t] = form[b].user]
          /\ form' = [form EXCEPT ![b].at = "reply", ![b].issued = t]
    BY <1>2 DEF IssueSession
  <2>2. form'[b].at = "reply" /\ form'[b].issued = t /\ form'[b].token = form[b].token
        /\ form'[b].user = form[b].user
    BY <2>1
  <2>3. SessionsTypeOK'
    BY <1>2, <2>1 DEF IssueSession
  <2>4. FormsInOrder'
    BY <1>2, <2>1, <2>2 DEF IssueSession, Unused
  <2>5. \A x \in Live' \ lost : x = t \/ x \in Live
    BY <1>2, <2>1 DEF IssueSession, Live
  <2>6. SessionsHeld'
    BY <1>2, <2>1, <2>2, <2>5 DEF IssueSession, SessionsHeld, Live
  <2>. QED  BY <2>3, <2>4, <2>6
<1>3. CASE EndSession(b)
  <2>1. SessionsTypeOK'
    BY <1>3 DEF EndSession
  <2>2. FormsInOrder'
    BY <1>3 DEF EndSession
  <2>3. SessionsHeld'
    BY <1>3 DEF EndSession, SessionsHeld, Live
  <2>. QED  BY <2>1, <2>2, <2>3
<1>4. CASE RevokeOthers(b)
  <2>1. SessionsTypeOK'
    BY <1>4 DEF RevokeOthers, Idle
  <2>2. FormsInOrder'
    BY <1>4 DEF RevokeOthers, Idle
  <2>3. SessionsHeld'
    BY <1>4 DEF RevokeOthers, SessionsHeld, Live, Idle
  <2>. QED  BY <2>1, <2>2, <2>3
\* The cookie that is replaced has no row any more: FormsInOrder.
<1>5. CASE Answered(b)
  <2>1. SessionsTypeOK'
    BY <1>5 DEF Answered, Idle
  <2>2. FormsInOrder'
    BY <1>5 DEF Answered, Idle
  <2>3. cookie[b] \notin Live
    BY <1>5 DEF Answered, Live
  <2>4. form[b].issued # None => cookie'[b] = form[b].issued
    BY <1>5 DEF Answered
  <2>5. SessionsHeld'
    BY <1>5, <2>3, <2>4 DEF Answered, SessionsHeld, Live, Idle
  <2>. QED  BY <2>1, <2>2, <2>5
<1>6. CASE Unanswered(b)
  <2>1. SessionsTypeOK'
    BY <1>6 DEF Unanswered, Idle
  <2>2. FormsInOrder'
    BY <1>6 DEF Unanswered, Idle
  <2>3. SessionsHeld'
    BY <1>6 DEF Unanswered, SessionsHeld, Live, Idle
  <2>. QED  BY <2>1, <2>2, <2>3
<1>. QED  BY <1>1, <1>2, <1>3, <1>4, <1>5, <1>6 DEF Continues

\* Other pages, the administrator and time.
LEMMA ElsewhereIInv ==
  ASSUME IInv, Elsewhere
  PROVE  IInv'
<1>. USE SessionsAssumption DEF IInv, SessionsTypeOK, FormsInOrder, Ended, Forms, SessionsHeld, Live
<1>1. ASSUME NEW b \in Browsers, VisitLapsed(b) PROVE IInv'
  BY <1>1 DEF VisitLapsed
<1>2. ASSUME NEW b \in Browsers, CookieExpires(b) PROVE IInv'
  BY <1>2 DEF CookieExpires
<1>3. ASSUME NEW t \in Tokens, Terminate(t) PROVE IInv'
  BY <1>3 DEF Terminate
<1>4. ASSUME NEW t \in Tokens, Lapse(t) PROVE IInv'
  BY <1>4 DEF Lapse
<1>. QED  BY <1>1, <1>2, <1>3, <1>4 DEF Elsewhere

\* Sign-ins, sign-ups, logouts and revocations of several browsers overlap, at any
\* point of which the server stops: the three parts hold throughout.
THEOREM SessionsInvariant == SessionsSpec => []IInv
<1>1. IInv /\ [SessionsNext]_sessionVars => IInv'
  <2>1. IInv /\ UNCHANGED sessionVars => IInv'
    BY DEF IInv, SessionsTypeOK, FormsInOrder, SessionsHeld, Live, sessionVars
  <2>. QED  BY <2>1, OpensIInv, ContinuesIInv, ElsewhereIInv DEF SessionsNext
<1>. QED  BY <1>1, InitIInv, PTL DEF SessionsSpec

\* What a signed-in reporter does to the sessions is what Sessions allows
\* (auth_middleware lets a report in and changes no session).
THEOREM AccountsImplementSessions == Spec => SessionsSpec
<1>1. [Next]_vars => [SessionsNext]_sessionVars
  BY DEF Next, SessionsNext, PostForm, Report, vars
<1>. QED  BY <1>1, PTL DEF Spec, Init, SessionsSpec

\* No live session is left that neither a browser's cookie nor an answer on its way
\* holds, unless that answer was lost (signin_submit drops the session it replaces).
THEOREM LiveSessionsAreHeld == Spec => []SessionsHeld
<1>1. IInv => SessionsHeld  BY DEF IInv
<1>. QED  BY <1>1, SessionsInvariant, AccountsImplementSessions, PTL

\* Accounts, sessions, cookies and forms keep their types.
THEOREM SessionTypesHold == Spec => []SessionsTypeOK
<1>1. IInv => SessionsTypeOK  BY DEF IInv
<1>. QED  BY <1>1, SessionsInvariant, AccountsImplementSessions, PTL

-----------------------------------------------------------------------------
(* The limits of reports.  Reports that overlap are counted by what they   *)
(* have read: those about to add to a row, and those about to begin one.   *)

R == Cardinality(Browsers)
Full == DayMax + R - 1      \* the most a day's row can count

Rows == [n : Nat \ {0}, over : BOOLEAN]
Key(b) == <<request[b].user, request[b].company>>

Adding(u)  == {b \in Browsers : request[b].at = "day add" /\ request[b].user = u}
Setting(u) == {b \in Browsers : request[b].at = "day set" /\ request[b].user = u}
WeekAdding(k) == {b \in Browsers : request[b].at = "week add" /\ Key(b) = k}

RequestsOK ==
  /\ request \in [Browsers -> [at : Limits!Steps, user : Users \cup {None},
                               company : Companies \cup {Anonymous}]]
  /\ \A b \in Browsers :
       /\ request[b].at # "idle" => request[b].user \in Users
       /\ request[b].at \in {"week", "week add", "week set"} => request[b].company \in Companies
       /\ request[b].at = "day add" => day[request[b].user] # NoCount
       /\ request[b].at = "week add" => week[Key(b)] # NoCount

DayOK ==
  /\ day \in [Users -> Rows \cup {NoCount}]
  /\ \A u \in Users : day[u] # NoCount => day[u].n + Cardinality(Adding(u)) <= Full

WeekOK ==
  /\ week \in [Users \X Companies -> Rows \cup {NoCount}]
  /\ \A k \in Users \X Companies :
        week[k] # NoCount => week[k].n + Cardinality(WeekAdding(k)) <= CompanyMax + R - 1

\* While a row counts for today, every report that passed is in it or in one of the
\* rows that were begun before it by reports no longer under way.
PassedOK ==
  /\ passed \in [Users -> Nat]
  /\ \A u \in Users :
        IF Limits!Fresh(day[u])
        THEN passed[u] <= (R - 1 - Cardinality(Setting(u))) * Full + day[u].n
        ELSE passed[u] = 0

LimitsInv == RequestsOK /\ DayOK /\ WeekOK /\ PassedOK

LEMMA Sizes == IsFiniteSet(Browsers) /\ R \in Nat /\ DayMax \in Nat \ {0} /\ CompanyMax \in Nat \ {0}
BY LimitsAssumption, FS_CardinalityType DEF R

LEMMA SubsetSize ==
  ASSUME NEW S \in SUBSET Browsers
  PROVE  IsFiniteSet(S) /\ Cardinality(S) \in Nat /\ Cardinality(S) <= R
BY Sizes, FS_Subset, FS_CardinalityType DEF R

LEMMA InsertSize ==
  ASSUME NEW S \in SUBSET Browsers, NEW b \in Browsers \ S
  PROVE  Cardinality(S \cup {b}) = Cardinality(S) + 1 /\ Cardinality(S) + 1 <= R
<1>1. Cardinality(S \cup {b}) = Cardinality(S) + 1
  BY SubsetSize, FS_AddElement
<1>2. S \cup {b} \in SUBSET Browsers
  OBVIOUS
<1>3. Cardinality(S \cup {b}) <= R
  BY <1>2, SubsetSize
<1>. QED  BY <1>1, <1>3

LEMMA RemoveSize ==
  ASSUME NEW S \in SUBSET Browsers, NEW b \in S
  PROVE  Cardinality(S \ {b}) = Cardinality(S) - 1 /\ Cardinality(S) >= 1
<1>1. Cardinality(S \ {b}) = Cardinality(S) - 1
  BY SubsetSize, FS_RemoveElement
<1>2. S \ {b} \in SUBSET Browsers
  OBVIOUS
<1>3. Cardinality(S \ {b}) \in Nat
  BY <1>2, SubsetSize
<1>. QED  BY <1>1, <1>3, SubsetSize

LEMMA NoCountIsNoRow == NoCount \notin Rows
BY LimitsAssumption DEF Rows

\* The rows a report writes, and the end of a window.
LEMMA BegunRow ==
  Limits!First \in Rows /\ Limits!First.n = 1 /\ Limits!First # NoCount /\ Limits!Fresh(Limits!First)
<1>. USE NoCountIsNoRow DEF Rows, Limits!First, Limits!Fresh
<1>1. 1 \in Nat \ {0}
  OBVIOUS
<1>2. Limits!First \in Rows /\ Limits!First.n = 1 /\ ~ Limits!First.over
  BY <1>1, Zenon
<1>. QED  BY <1>2, Zenon

LEMMA AddedRow ==
  ASSUME NEW row \in Rows, NEW more, more = Limits!Added(row)
  PROVE  /\ more \in Rows /\ more # NoCount /\ more.n = row.n + 1 /\ row.n \in Nat \ {0}
         /\ Limits!Fresh(more) <=> Limits!Fresh(row)
<1>. USE NoCountIsNoRow DEF Rows, Limits!Fresh, Limits!Added
<1>1. row.n + 1 \in Nat \ {0} /\ more = [row EXCEPT !.n = row.n + 1] /\ row.n \in Nat \ {0}
  OBVIOUS
<1>2. \A m \in Nat \ {0} : [row EXCEPT !.n = m] \in Rows /\ [row EXCEPT !.n = m].n = m
  BY Zenon
<1>3. more.over = row.over
  BY Zenon
<1>4. more \in Rows /\ more.n = row.n + 1
  BY <1>1, <1>2
<1>. QED  BY <1>1, <1>3, <1>4

LEMMA EndedRow ==
  ASSUME NEW row \in Rows, NEW old, old = [row EXCEPT !.over = TRUE]
  PROVE  old \in Rows /\ old # NoCount /\ old.n = row.n /\ ~ Limits!Fresh(old)
<1>. USE NoCountIsNoRow DEF Rows, Limits!Fresh
<1>1. old \in Rows /\ old.n = row.n
  OBVIOUS
<1>2. old.over = TRUE
  BY Zenon
<1>. QED  BY <1>1, <1>2

\* Where a report stands changes alone.
LEMMA Moved ==
  ASSUME RequestsOK, NEW b \in Browsers, NEW at \in Limits!Steps, Limits!To(b, at)
  PROVE  /\ request' \in [Browsers -> [at : Limits!Steps, user : Users \cup {None},
                                       company : Companies \cup {Anonymous}]]
         /\ request'[b].at = at
         /\ request'[b].user = request[b].user /\ request'[b].company = request[b].company
         /\ \A c \in Browsers \ {b} : request'[c] = request[c]
BY DEF RequestsOK, Limits!To

LEMMA Over ==
  ASSUME RequestsOK, NEW b \in Browsers, Limits!Ends(b)
  PROVE  /\ request' \in [Browsers -> [at : Limits!Steps, user : Users \cup {None},
                                       company : Companies \cup {Anonymous}]]
         /\ request'[b].at = "idle"
         /\ \A c \in Browsers \ {b} : request'[c] = request[c]
BY DEF RequestsOK, Limits!Ends, Limits!NoRequest, Limits!Steps

\* A step that writes no row and enters no counted state keeps the counts.
LEMMA QuietKeepsLimits ==
  ASSUME LimitsInv, NEW b \in Browsers, UNCHANGED <<day, week, passed>>,
         request' \in [Browsers -> [at : Limits!Steps, user : Users \cup {None},
                                    company : Companies \cup {Anonymous}]],
         \A c \in Browsers \ {b} : request'[c] = request[c],
         request[b].at \notin {"day add", "day set", "week add"},
         request'[b].at \notin {"day add", "day set", "week add"},
         request'[b].at # "idle" => request'[b].user \in Users,
         request'[b].at \in {"week", "week set"} => request'[b].company \in Companies
  PROVE  LimitsInv'
<1>1. \A u : Adding(u)' = Adding(u) /\ Setting(u)' = Setting(u)
  BY DEF Adding, Setting
<1>2. \A k : WeekAdding(k)' = WeekAdding(k)
  BY DEF WeekAdding, Key
<1>3. RequestsOK'
  <2>1. ASSUME NEW c \in Browsers
        PROVE  /\ request'[c].at # "idle" => request'[c].user \in Users
               /\ request'[c].at \in {"week", "week add", "week set"} => request'[c].company \in Companies
               /\ request'[c].at = "day add" => day'[request'[c].user] # NoCount
               /\ request'[c].at = "week add" => week'[Key(c)'] # NoCount
    <3>1. CASE c = b
      BY <3>1
    <3>2. CASE c # b
      BY <3>2 DEF LimitsInv, RequestsOK, Key
    <3>. QED  BY <3>1, <3>2
  <2>. QED  BY <2>1 DEF RequestsOK
<1>4. DayOK' /\ WeekOK'
  BY <1>1, <1>2 DEF LimitsInv, DayOK, WeekOK
<1>5. PassedOK'
  BY <1>1 DEF LimitsInv, PassedOK
<1>. QED  BY <1>3, <1>4, <1>5 DEF LimitsInv

LEMMA StartKeepsLimits ==
  ASSUME LimitsInv, NEW b \in Browsers, NEW u \in Users, NEW co \in Companies \cup {Anonymous},
         Limits!StartReport(b, u, co)
  PROVE  LimitsInv'
<1>. DEFINE new == [at |-> "day", user |-> u, company |-> co]
<1>1. /\ request[b].at = "idle" /\ request' = [request EXCEPT ![b] = new]
      /\ UNCHANGED <<day, week, passed>>
  BY DEF Limits!StartReport
<1>2. /\ new \in [at : Limits!Steps, user : Users \cup {None}, company : Companies \cup {Anonymous}]
      /\ new.at = "day" /\ new.user = u
  BY DEF Limits!Steps
<1>. HIDE DEF new
<1>3. request'[b] = new /\ \A c \in Browsers \ {b} : request'[c] = request[c]
  BY <1>1 DEF LimitsInv, RequestsOK
<1>4. request' \in [Browsers -> [at : Limits!Steps, user : Users \cup {None},
                                 company : Companies \cup {Anonymous}]]
  BY <1>1, <1>2 DEF LimitsInv, RequestsOK
<1>. QED  BY <1>1, <1>2, <1>3, <1>4, QuietKeepsLimits

\* A report that found the day's row fresh and not full adds to it later: it is
\* counted from now on.
LEMMA ReadDayKeepsLimits ==
  ASSUME LimitsInv, NEW b \in Browsers, Limits!ReadDay(b)
  PROVE  LimitsInv'
<1>0. PICK u \in Users : u = request[b].user
  BY DEF Limits!ReadDay, LimitsInv, RequestsOK
<1>1. request[b].at = "day" /\ UNCHANGED <<day, week, passed>>
  BY DEF Limits!ReadDay
<1>2. CASE Limits!Ends(b)
  BY <1>1, <1>2, Over, QuietKeepsLimits DEF LimitsInv
<1>3. CASE Limits!Fresh(day[u]) /\ ~ (day[u].n >= DayMax) /\ Limits!To(b, "day add")
  <2>1. /\ request' \in [Browsers -> [at : Limits!Steps, user : Users \cup {None},
                                      company : Companies \cup {Anonymous}]]
        /\ request'[b].at = "day add" /\ request'[b].user = u
        /\ \A c \in Browsers \ {b} : request'[c] = request[c]
    BY <1>0, <1>3, Moved DEF Limits!Steps, LimitsInv
  <2>2. day[u] \in Rows /\ day[u] # NoCount /\ day[u].n \in Nat
    BY <1>3 DEF LimitsInv, DayOK, Limits!Fresh, Rows
  <2>3. /\ Adding(u)' = Adding(u) \cup {b} /\ b \notin Adding(u)
        /\ \A v \in Users \ {u} : Adding(v)' = Adding(v)
        /\ \A v : Setting(v)' = Setting(v)
        /\ \A k : WeekAdding(k)' = WeekAdding(k)
    BY <1>0, <1>1, <2>1 DEF Adding, Setting, WeekAdding, Key
  <2>4. RequestsOK'
    <3>1. ASSUME NEW c \in Browsers
          PROVE  /\ request'[c].at # "idle" => request'[c].user \in Users
                 /\ request'[c].at \in {"week", "week add", "week set"} => request'[c].company \in Companies
                 /\ request'[c].at = "day add" => day'[request'[c].user] # NoCount
                 /\ request'[c].at = "week add" => week'[Key(c)'] # NoCount
      <4>1. CASE c = b
        BY <1>1, <2>1, <2>2, <4>1
      <4>2. CASE c # b
        BY <1>1, <2>1, <4>2 DEF LimitsInv, RequestsOK, Key
      <4>. QED  BY <4>1, <4>2
    <3>. QED  BY <2>1, <3>1 DEF RequestsOK
  <2>5. DayOK'
    <3>1. Adding(u) \in SUBSET Browsers
      BY DEF Adding
    <3>2. Cardinality(Adding(u) \cup {b}) <= R /\ Cardinality(Adding(u) \cup {b}) \in Nat
      BY <3>1, SubsetSize
    <3>3. day[u].n + Cardinality(Adding(u) \cup {b}) <= Full
      <4>1. ~ (day[u].n >= DayMax) /\ DayMax \in Nat
        BY <1>3, Sizes
      <4>2. R \in Nat
        BY Sizes
      <4>. QED  BY <2>2, <3>2, <4>1, <4>2 DEF Full
    <3>4. ASSUME NEW v \in Users, day'[v] # NoCount
          PROVE  day'[v].n + Cardinality(Adding(v)') <= Full
      <4>1. CASE v = u
        BY <1>1, <2>3, <3>3, <4>1
      <4>2. CASE v # u
        BY <1>1, <2>3, <3>4, <4>2 DEF LimitsInv, DayOK
      <4>. QED  BY <4>1, <4>2
    <3>. QED  BY <1>1, <3>4 DEF LimitsInv, DayOK
  <2>6. WeekOK' /\ PassedOK'
    BY <1>1, <2>3 DEF LimitsInv, WeekOK, PassedOK
  <2>. QED  BY <2>4, <2>5, <2>6 DEF LimitsInv
<1>4. CASE ~ Limits!Fresh(day[u]) /\ Limits!To(b, "day set")
  <2>1. /\ request' \in [Browsers -> [at : Limits!Steps, user : Users \cup {None},
                                      company : Companies \cup {Anonymous}]]
        /\ request'[b].at = "day set" /\ request'[b].user = u
        /\ \A c \in Browsers \ {b} : request'[c] = request[c]
    BY <1>0, <1>4, Moved DEF Limits!Steps, LimitsInv
  <2>2. /\ \A v \in Users \ {u} : Setting(v)' = Setting(v)
        /\ \A v : Adding(v)' = Adding(v)
        /\ \A k : WeekAdding(k)' = WeekAdding(k)
    BY <1>0, <1>1, <2>1 DEF Adding, Setting, WeekAdding, Key
  <2>3. RequestsOK'
    <3>1. ASSUME NEW c \in Browsers
          PROVE  /\ request'[c].at # "idle" => request'[c].user \in Users
                 /\ request'[c].at \in {"week", "week add", "week set"} => request'[c].company \in Companies
                 /\ request'[c].at = "day add" => day'[request'[c].user] # NoCount
                 /\ request'[c].at = "week add" => week'[Key(c)'] # NoCount
      <4>1. CASE c = b
        BY <1>1, <2>1, <4>1
      <4>2. CASE c # b
        BY <1>1, <2>1, <4>2 DEF LimitsInv, RequestsOK, Key
      <4>. QED  BY <4>1, <4>2
    <3>. QED  BY <2>1, <3>1 DEF RequestsOK
  <2>4. DayOK' /\ WeekOK'
    BY <1>1, <2>2 DEF LimitsInv, DayOK, WeekOK
  <2>5. PassedOK'
    BY <1>1, <1>4, <2>2 DEF LimitsInv, PassedOK
  <2>. QED  BY <2>3, <2>4, <2>5 DEF LimitsInv
<1>. QED  BY <1>0, <1>2, <1>3, <1>4 DEF Limits!ReadDay, Limits!Refuses, Limits!Plan

\* Every report between its read and its write belongs to one row; its write takes it
\* out of the counts.
LEMMA WriteDayKeepsLimits ==
  ASSUME LimitsInv, NEW b \in Browsers, Limits!WriteDay(b)
  PROVE  LimitsInv'
<1>0. PICK u \in Users : u = request[b].user
  BY DEF Limits!WriteDay, LimitsInv, RequestsOK
<1>. DEFINE row == day[u]
            S == Cardinality(Setting(u))
            A == Cardinality(Adding(u))
<1>1. /\ request[b].at \in {"day add", "day set"} /\ week' = week
      /\ request[b].at = "day add" => row # NoCount
  BY <1>0 DEF Limits!WriteDay, LimitsInv, RequestsOK
<1>2. /\ request' \in [Browsers -> [at : Limits!Steps, user : Users \cup {None},
                                    company : Companies \cup {Anonymous}]]
      /\ request'[b].at \in {"idle", "week"}
      /\ request'[b].at # "idle" => request'[b].user \in Users /\ request'[b].company \in Companies
      /\ \A c \in Browsers \ {b} : request'[c] = request[c]
  <2>1. CASE request[b].company = Anonymous
    BY <2>1, Over DEF Limits!WriteDay, LimitsInv
  <2>2. CASE request[b].company # Anonymous
    <3>1. request[b].company \in Companies
      BY <2>2 DEF LimitsInv, RequestsOK
    <3>. QED  BY <1>0, <1>1, <2>2, <3>1, Moved DEF Limits!WriteDay, LimitsInv, Limits!Steps
  <2>. QED  BY <2>1, <2>2
<1>3. /\ Adding(u)' = Adding(u) \ {b} /\ Setting(u)' = Setting(u) \ {b}
      /\ \A v \in Users \ {u} : Adding(v)' = Adding(v) /\ Setting(v)' = Setting(v)
      /\ \A k : WeekAdding(k)' = WeekAdding(k)
      /\ request[b].at = "day add" => b \in Adding(u) /\ b \notin Setting(u)
      /\ request[b].at = "day set" => b \in Setting(u) /\ b \notin Adding(u)
  <2>1. \A c \in Browsers \ {b} : request'[c] = request[c]
    BY <1>2
  <2>2. request'[b].at \notin {"day add", "day set", "week add"}
    BY <1>2
  <2>3. Adding(u)' = Adding(u) \ {b}
    BY <2>1, <2>2 DEF Adding
  <2>4. Setting(u)' = Setting(u) \ {b}
    BY <2>1, <2>2 DEF Setting
  <2>5. \A v \in Users \ {u} : Adding(v)' = Adding(v)
    BY <1>0, <2>1, <2>2 DEF Adding
  <2>6. \A v \in Users \ {u} : Setting(v)' = Setting(v)
    BY <1>0, <2>1, <2>2 DEF Setting
  <2>7. \A k : WeekAdding(k)' = WeekAdding(k)
    BY <1>1, <2>1, <2>2 DEF WeekAdding, Key
  <2>8. /\ request[b].at = "day add" => b \in Adding(u) /\ b \notin Setting(u)
        /\ request[b].at = "day set" => b \in Setting(u) /\ b \notin Adding(u)
    BY <1>0 DEF Adding, Setting
  <2>. QED  BY <2>3, <2>4, <2>5, <2>6, <2>7, <2>8
<1>4. Adding(u) \in SUBSET Browsers /\ Setting(u) \in SUBSET Browsers
  BY DEF Adding, Setting
<1>5. S \in Nat /\ A \in Nat /\ S <= R /\ A <= R /\ R \in Nat /\ DayMax \in Nat \ {0} /\ Full \in Int
  BY <1>4, SubsetSize, Sizes DEF Full
<1>6. /\ day' = [day EXCEPT ![u] = IF request[b].at = "day set" THEN Limits!First
                                   ELSE Limits!Added(day[u])]
      /\ passed' = [passed EXCEPT ![u] = IF Limits!Fresh(day'[u]) THEN @ + 1 ELSE @]
  BY <1>0 DEF Limits!WriteDay
<1>7. /\ row \in Rows \cup {NoCount} /\ passed[u] \in Nat
      /\ row # NoCount => row \in Rows /\ row.n \in Nat \ {0} /\ row.n + A <= Full
  BY DEF LimitsInv, DayOK, PassedOK, Rows
<1>8. /\ \A v \in Users \ {u} : day'[v] = day[v] /\ passed'[v] = passed[v]
      /\ passed'[u] = (IF Limits!Fresh(day'[u]) THEN passed[u] + 1 ELSE passed[u])
      /\ request[b].at = "day set" => day'[u] = Limits!First
      /\ request[b].at = "day add" => day'[u] = Limits!Added(row)
  <2>1. day \in [Users -> Rows \cup {NoCount}] /\ passed \in [Users -> Nat]
    BY DEF LimitsInv, DayOK, PassedOK
  <2>2. ASSUME NEW new, day' = [day EXCEPT ![u] = new] PROVE day'[u] = new
    BY <2>1, <2>2
  <2>3. ASSUME NEW new, passed' = [passed EXCEPT ![u] = new] PROVE passed'[u] = new
    BY <2>1, <2>3
  <2>4. \A v \in Users \ {u} : day'[v] = day[v] /\ passed'[v] = passed[v]
    BY <1>6, <2>1
  <2>. DEFINE new == IF request[b].at = "day set" THEN Limits!First
                     ELSE Limits!Added(day[u])
  <2>5. day' = [day EXCEPT ![u] = new]
    BY <1>6, Zenon
  <2>6. /\ request[b].at = "day set" => new = Limits!First
        /\ request[b].at = "day add" => new = Limits!Added(row)
    OBVIOUS
  <2>. HIDE DEF new
  <2>9. day'[u] = new
    BY <2>2, <2>5
  <2>7. passed' = [passed EXCEPT ![u] = IF Limits!Fresh(day'[u]) THEN passed[u] + 1 ELSE passed[u]]
    BY <1>6
  <2>8. passed'[u] = (IF Limits!Fresh(day'[u]) THEN passed[u] + 1 ELSE passed[u])
    BY <2>3, <2>7
  <2>. QED  BY <2>4, <2>6, <2>8, <2>9
<1>9. RequestsOK'
  <2>1. day'[u] # NoCount
    <3>1. CASE request[b].at = "day set"
      BY <1>8, <3>1, BegunRow
    <3>2. CASE request[b].at = "day add"
      <4>1. row \in Rows /\ day'[u] = Limits!Added(row)
        BY <1>1, <1>7, <1>8, <3>2
      <4>. QED  BY <4>1, AddedRow
    <3>. QED  BY <1>1, <3>1, <3>2
  <2>2. ASSUME NEW c \in Browsers
        PROVE  /\ request'[c].at # "idle" => request'[c].user \in Users
               /\ request'[c].at \in {"week", "week add", "week set"} => request'[c].company \in Companies
               /\ request'[c].at = "day add" => day'[request'[c].user] # NoCount
               /\ request'[c].at = "week add" => week'[Key(c)'] # NoCount
    <3>1. CASE c = b
      BY <1>2, <3>1
    <3>2. CASE c # b
      <4>1. request'[c] = request[c] /\ Key(c)' = Key(c)
        BY <1>2, <3>2 DEF Key
      <4>2. request[c].at = "day add" => day'[request[c].user] # NoCount
        BY <1>8, <2>1 DEF LimitsInv, RequestsOK
      <4>. QED  BY <1>1, <4>1, <4>2 DEF LimitsInv, RequestsOK
    <3>. QED  BY <3>1, <3>2
  <2>. QED  BY <1>2, <2>2 DEF RequestsOK
<1>10. WeekOK'
  BY <1>1, <1>3 DEF LimitsInv, WeekOK
<1>11. passed' \in [Users -> Nat]
  <2>1. passed' = [passed EXCEPT ![u] = passed'[u]]
    BY <1>6, <1>8 DEF LimitsInv, PassedOK
  <2>2. passed'[u] \in Nat
    <3>1. passed'[u] = passed[u] + 1 \/ passed'[u] = passed[u]
      BY <1>8
    <3>. QED  BY <1>7, <3>1
  <2>. QED  BY <2>1, <2>2 DEF LimitsInv, PassedOK
<1>. HIDE DEF row, S, A
<1>12. CASE request[b].at = "day add"
  <2>1. row \in Rows /\ day'[u] = Limits!Added(row) /\ b \in Adding(u) /\ Setting(u)' = Setting(u)
    BY <1>1, <1>3, <1>7, <1>8, <1>12
  <2>2. /\ day'[u] \in Rows /\ day'[u].n = row.n + 1
        /\ Limits!Fresh(day'[u]) <=> Limits!Fresh(row)
    BY <2>1, AddedRow
  <2>3. Cardinality(Adding(u)') = A - 1
    BY <1>3, <1>4, <2>1, RemoveSize DEF A
  <2>4. day'[u].n + Cardinality(Adding(u)') <= Full
    BY <1>5, <1>7, <2>1, <2>2, <2>3, NoCountIsNoRow
  <2>5. DayOK'
    <3>1. day' \in [Users -> Rows \cup {NoCount}]
      BY <1>6, <2>2 DEF LimitsInv, DayOK
    <3>2. ASSUME NEW v \in Users, day'[v] # NoCount
          PROVE  day'[v].n + Cardinality(Adding(v)') <= Full
      BY <1>3, <1>8, <2>4, <3>2 DEF LimitsInv, DayOK
    <3>. QED  BY <3>1, <3>2 DEF DayOK
  <2>6. IF Limits!Fresh(day'[u])
        THEN passed'[u] <= (R - 1 - S) * Full + day'[u].n
        ELSE passed'[u] = 0
    <3>1. IF Limits!Fresh(row) THEN passed[u] <= (R - 1 - S) * Full + row.n ELSE passed[u] = 0
      BY <1>1 DEF LimitsInv, PassedOK, row, S
    <3>2. (R - 1 - S) * Full \in Int
      BY <1>5
    <3>. DEFINE P == (R - 1 - S) * Full
    <3>. HIDE DEF P
    <3>3. P \in Int /\ (Limits!Fresh(row) => passed[u] <= P + row.n) /\ (~ Limits!Fresh(row) => passed[u] = 0)
      BY <3>1, <3>2 DEF P
    <3>4. row.n \in Nat /\ passed[u] \in Nat
      BY <1>7, <2>1, NoCountIsNoRow
    <3>5. IF Limits!Fresh(day'[u]) THEN passed'[u] <= P + day'[u].n ELSE passed'[u] = 0
      <4>1. CASE Limits!Fresh(row)
        <5>1. passed'[u] = passed[u] + 1 /\ day'[u].n = row.n + 1 /\ passed[u] <= P + row.n
          BY <1>8, <2>2, <3>3, <4>1
        <5>2. passed'[u] <= P + day'[u].n
          BY <3>3, <3>4, <5>1
        <5>. QED  BY <2>2, <4>1, <5>2
      <4>2. CASE ~ Limits!Fresh(row)
        BY <1>8, <2>2, <3>3, <4>2
      <4>. QED  BY <4>1, <4>2
    <3>. QED  BY <3>5 DEF P
  <2>7. PassedOK'
    <3>1. ASSUME NEW v \in Users
          PROVE  IF Limits!Fresh(day'[v])
                 THEN passed'[v] <= (R - 1 - Cardinality(Setting(v)')) * Full + day'[v].n
                 ELSE passed'[v] = 0
      <4>1. CASE v = u
        BY <2>1, <2>6, <4>1 DEF S
      <4>2. CASE v # u
        BY <1>3, <1>8, <4>2 DEF LimitsInv, PassedOK
      <4>. QED  BY <4>1, <4>2
    <3>. QED  BY <1>11, <3>1 DEF PassedOK
  <2>. QED  BY <1>9, <1>10, <2>5, <2>7 DEF LimitsInv
<1>13. CASE request[b].at = "day set"
  <2>1. day'[u] = Limits!First /\ b \in Setting(u) /\ b \notin Adding(u) /\ Adding(u)' = Adding(u)
    BY <1>3, <1>8, <1>13
  <2>2. day'[u] \in Rows /\ day'[u].n = 1 /\ Limits!Fresh(day'[u])
    BY <2>1, BegunRow
  <2>3. Cardinality(Setting(u)') = S - 1 /\ S >= 1
    BY <1>3, <1>4, <2>1, RemoveSize DEF S
  <2>4. A + 1 <= R
    BY <1>4, <2>1, InsertSize DEF A
  <2>5. day'[u].n + Cardinality(Adding(u)') <= Full
    BY <1>5, <2>1, <2>2, <2>4 DEF A, Full
  <2>6. DayOK'
    <3>1. day' \in [Users -> Rows \cup {NoCount}]
      BY <1>6, <1>8, <2>2 DEF LimitsInv, DayOK
    <3>2. ASSUME NEW v \in Users, day'[v] # NoCount
          PROVE  day'[v].n + Cardinality(Adding(v)') <= Full
      BY <1>3, <1>8, <2>5, <3>2 DEF LimitsInv, DayOK
    <3>. QED  BY <3>1, <3>2 DEF DayOK
  <2>7. passed'[u] <= (R - 1 - (S - 1)) * Full + 1
    <3>1. IF Limits!Fresh(row) THEN passed[u] <= (R - 1 - S) * Full + row.n ELSE passed[u] = 0
      BY <1>1 DEF LimitsInv, PassedOK, row, S
    <3>2. passed'[u] = passed[u] + 1 /\ passed[u] \in Nat
      BY <1>7, <1>8, <2>2
    <3>3. Full \in Nat /\ R - 1 - (S - 1) \in Nat
      BY <1>5, <2>3, <2>4 DEF Full
    <3>4. (R - 1 - (S - 1)) * Full = (R - 1 - S) * Full + Full /\ (R - 1 - S) * Full \in Int
      BY <1>5, <3>3
    <3>5. (R - 1 - (S - 1)) * Full >= 0
      BY <3>3
    <3>6. CASE Limits!Fresh(row)
      <4>1. row.n <= Full /\ row.n \in Nat
        BY <1>5, <1>7, <3>6 DEF Limits!Fresh
      <4>2. passed[u] <= (R - 1 - S) * Full + Full
        BY <1>5, <3>1, <3>2, <3>3, <3>4, <3>6, <4>1
      <4>. QED  BY <3>2, <3>4, <4>2, <3>3
    <3>7. CASE ~ Limits!Fresh(row)
      <4>1. passed'[u] = 1
        BY <3>1, <3>2, <3>7
      <4>2. (R - 1 - (S - 1)) * Full \in Int
        BY <3>3
      <4>. QED  BY <3>5, <4>1, <4>2
    <3>. QED  BY <3>6, <3>7
  <2>8. PassedOK'
    <3>1. ASSUME NEW v \in Users
          PROVE  IF Limits!Fresh(day'[v])
                 THEN passed'[v] <= (R - 1 - Cardinality(Setting(v)')) * Full + day'[v].n
                 ELSE passed'[v] = 0
      <4>1. CASE v = u
        BY <2>2, <2>3, <2>7, <4>1
      <4>2. CASE v # u
        BY <1>3, <1>8, <4>2 DEF LimitsInv, PassedOK
      <4>. QED  BY <4>1, <4>2
    <3>. QED  BY <1>11, <3>1 DEF PassedOK
  <2>. QED  BY <1>9, <1>10, <2>6, <2>8 DEF LimitsInv
<1>. QED  BY <1>1, <1>12, <1>13

LEMMA ReadWeekKeepsLimits ==
  ASSUME LimitsInv, NEW b \in Browsers, Limits!ReadWeek(b)
  PROVE  LimitsInv'
<1>0. PICK k \in Users \X Companies : k = Key(b)
  BY DEF Limits!ReadWeek, LimitsInv, RequestsOK, Key
<1>1. request[b].at = "week" /\ UNCHANGED <<day, week, passed>> /\ k = <<request[b].user, request[b].company>>
  BY <1>0 DEF Limits!ReadWeek, Key
<1>2. CASE Limits!Ends(b)
  BY <1>1, <1>2, Over, QuietKeepsLimits DEF LimitsInv
<1>3. CASE Limits!Fresh(week[k]) /\ ~ (week[k].n >= CompanyMax) /\ Limits!To(b, "week add")
  <2>1. /\ request' \in [Browsers -> [at : Limits!Steps, user : Users \cup {None},
                                      company : Companies \cup {Anonymous}]]
        /\ request'[b].at = "week add" /\ request'[b].user = request[b].user
        /\ request'[b].company = request[b].company
        /\ \A c \in Browsers \ {b} : request'[c] = request[c]
    BY <1>3, Moved DEF Limits!Steps, LimitsInv
  <2>2. week[k] \in Rows /\ week[k] # NoCount /\ week[k].n \in Nat
    BY <1>3 DEF LimitsInv, WeekOK, Limits!Fresh, Rows
  <2>3. /\ WeekAdding(k)' = WeekAdding(k) \cup {b}
        /\ \A q \in (Users \X Companies) \ {k} : WeekAdding(q)' = WeekAdding(q)
        /\ \A v : Adding(v)' = Adding(v) /\ Setting(v)' = Setting(v)
    BY <1>1, <2>1 DEF Adding, Setting, WeekAdding, Key
  <2>4. RequestsOK'
    <3>1. ASSUME NEW c \in Browsers
          PROVE  /\ request'[c].at # "idle" => request'[c].user \in Users
                 /\ request'[c].at \in {"week", "week add", "week set"} => request'[c].company \in Companies
                 /\ request'[c].at = "day add" => day'[request'[c].user] # NoCount
                 /\ request'[c].at = "week add" => week'[Key(c)'] # NoCount
      <4>1. CASE c = b
        <5>1. Key(b)' = k
          BY <1>1, <2>1 DEF Key
        <5>. QED  BY <1>1, <2>1, <2>2, <4>1, <5>1 DEF LimitsInv, RequestsOK
      <4>2. CASE c # b
        BY <1>1, <2>1, <4>2 DEF LimitsInv, RequestsOK, Key
      <4>. QED  BY <4>1, <4>2
    <3>. QED  BY <2>1, <3>1 DEF RequestsOK
  <2>5. WeekOK'
    <3>1. WeekAdding(k) \cup {b} \in SUBSET Browsers
      BY DEF WeekAdding
    <3>2. Cardinality(WeekAdding(k) \cup {b}) <= R /\ Cardinality(WeekAdding(k) \cup {b}) \in Nat
      BY <3>1, SubsetSize
    <3>3. week[k].n + Cardinality(WeekAdding(k) \cup {b}) <= CompanyMax + R - 1
      <4>1. ~ (week[k].n >= CompanyMax) /\ CompanyMax \in Nat /\ R \in Nat
        BY <1>3, Sizes
      <4>. QED  BY <2>2, <3>2, <4>1
    <3>4. ASSUME NEW q \in Users \X Companies, week'[q] # NoCount
          PROVE  week'[q].n + Cardinality(WeekAdding(q)') <= CompanyMax + R - 1
      <4>1. CASE q = k
        BY <1>1, <2>3, <3>3, <4>1
      <4>2. CASE q # k
        BY <1>1, <2>3, <3>4, <4>2 DEF LimitsInv, WeekOK
      <4>. QED  BY <4>1, <4>2
    <3>. QED  BY <1>1, <3>4 DEF LimitsInv, WeekOK
  <2>6. DayOK' /\ PassedOK'
    BY <1>1, <2>3 DEF LimitsInv, DayOK, PassedOK
  <2>. QED  BY <2>4, <2>5, <2>6 DEF LimitsInv
<1>4. CASE ~ Limits!Fresh(week[k]) /\ Limits!To(b, "week set")
  <2>1. /\ request' \in [Browsers -> [at : Limits!Steps, user : Users \cup {None},
                                      company : Companies \cup {Anonymous}]]
        /\ request'[b].at = "week set" /\ request'[b].user = request[b].user
        /\ request'[b].company = request[b].company
        /\ \A c \in Browsers \ {b} : request'[c] = request[c]
    BY <1>4, Moved DEF Limits!Steps, LimitsInv
  <2>2. request[b].user \in Users /\ request[b].company \in Companies
    BY <1>1 DEF LimitsInv, RequestsOK
  <2>. QED  BY <1>1, <2>1, <2>2, QuietKeepsLimits
<1>. QED  BY <1>1, <1>2, <1>3, <1>4 DEF Limits!ReadWeek, Limits!Refuses, Limits!Plan

LEMMA WriteWeekKeepsLimits ==
  ASSUME LimitsInv, NEW b \in Browsers, Limits!WriteWeek(b)
  PROVE  LimitsInv'
<1>0. PICK k \in Users \X Companies : k = Key(b)
  BY DEF Limits!WriteWeek, LimitsInv, RequestsOK, Key
<1>1. /\ request[b].at \in {"week add", "week set"} /\ UNCHANGED <<day, passed>>
      /\ k = <<request[b].user, request[b].company>> /\ Limits!Ends(b)
      /\ request[b].at = "week add" => week[k] # NoCount
  BY <1>0 DEF Limits!WriteWeek, Key, LimitsInv, RequestsOK
<1>2. week' = [week EXCEPT ![k] = IF request[b].at = "week set" THEN Limits!First
                                  ELSE Limits!Added(week[k])]
  BY <1>1 DEF Limits!WriteWeek
<1>3. /\ request' \in [Browsers -> [at : Limits!Steps, user : Users \cup {None},
                                    company : Companies \cup {Anonymous}]]
      /\ request'[b].at = "idle"
      /\ \A c \in Browsers \ {b} : request'[c] = request[c]
  BY <1>1, Over DEF LimitsInv
<1>4. /\ WeekAdding(k)' = WeekAdding(k) \ {b}
      /\ \A q \in (Users \X Companies) \ {k} : WeekAdding(q)' = WeekAdding(q)
  BY <1>1, <1>3 DEF WeekAdding, Key
<1>5. \A v : Adding(v)' = Adding(v) /\ Setting(v)' = Setting(v)
  BY <1>1, <1>3 DEF Adding, Setting
<1>6. /\ request[b].at = "week add" => b \in WeekAdding(k)
      /\ request[b].at = "week set" => b \notin WeekAdding(k)
  BY <1>1 DEF WeekAdding, Key
<1>7. WeekAdding(k) \in SUBSET Browsers
  BY DEF WeekAdding
<1>8. /\ week[k] \in Rows \cup {NoCount}
      /\ week[k] # NoCount => week[k].n + Cardinality(WeekAdding(k)) <= CompanyMax + R - 1
  BY DEF LimitsInv, WeekOK
<1>. DEFINE new == IF request[b].at = "week set" THEN Limits!First ELSE Limits!Added(week[k])
<1>9. /\ request[b].at = "week set" => new = Limits!First
      /\ request[b].at = "week add" => new = Limits!Added(week[k])
      /\ week' = [week EXCEPT ![k] = new]
  BY <1>2
<1>. HIDE DEF new
<1>10. new \in Rows /\ new # NoCount /\ new.n + Cardinality(WeekAdding(k)') <= CompanyMax + R - 1
  <2>1. CASE request[b].at = "week set"
    <3>1. new \in Rows /\ new # NoCount /\ new.n = 1
      BY <1>9, <2>1, BegunRow
    <3>2. WeekAdding(k)' = WeekAdding(k)
      BY <1>4, <1>6, <2>1
    <3>3. Cardinality(WeekAdding(k)) \in Nat /\ Cardinality(WeekAdding(k)) + 1 <= R
      BY <1>6, <1>7, <2>1, SubsetSize, InsertSize
    <3>4. CompanyMax \in Nat \ {0} /\ R \in Nat
      BY Sizes
    <3>. QED  BY <3>1, <3>2, <3>3, <3>4
  <2>2. CASE request[b].at = "week add"
    <3>1. week[k] \in Rows
      BY <1>1, <1>8, <2>2
    <3>2. new \in Rows /\ new # NoCount /\ new.n = week[k].n + 1 /\ week[k].n \in Nat
      BY <1>9, <2>2, <3>1, AddedRow
    <3>3. Cardinality(WeekAdding(k)') = Cardinality(WeekAdding(k)) - 1 /\ Cardinality(WeekAdding(k)) \in Nat
      BY <1>4, <1>6, <1>7, <2>2, RemoveSize, SubsetSize
    <3>4. week[k].n + Cardinality(WeekAdding(k)) <= CompanyMax + R - 1
      BY <1>1, <1>8, <2>2
    <3>5. CompanyMax \in Nat /\ R \in Nat
      BY Sizes
    <3>. QED  BY <3>2, <3>3, <3>4, <3>5
  <2>. QED  BY <1>1, <2>1, <2>2
<1>11. week'[k] = new /\ \A q \in (Users \X Companies) \ {k} : week'[q] = week[q]
  BY <1>9 DEF LimitsInv, WeekOK
<1>12. RequestsOK'
  <2>1. ASSUME NEW c \in Browsers
        PROVE  /\ request'[c].at # "idle" => request'[c].user \in Users
               /\ request'[c].at \in {"week", "week add", "week set"} => request'[c].company \in Companies
               /\ request'[c].at = "day add" => day'[request'[c].user] # NoCount
               /\ request'[c].at = "week add" => week'[Key(c)'] # NoCount
    <3>1. CASE c = b
      BY <1>3, <3>1
    <3>2. CASE c # b
      <4>1. request'[c] = request[c] /\ Key(c)' = Key(c)
        BY <1>3, <3>2 DEF Key
      <4>2. request[c].at = "week add" => Key(c) \in Users \X Companies /\ week'[Key(c)] # NoCount
        BY <1>10, <1>11 DEF LimitsInv, RequestsOK, Key
      <4>. QED  BY <1>1, <4>1, <4>2 DEF LimitsInv, RequestsOK
    <3>. QED  BY <3>1, <3>2
  <2>. QED  BY <1>3, <2>1 DEF RequestsOK
<1>13. WeekOK'
  <2>1. week' \in [Users \X Companies -> Rows \cup {NoCount}]
    BY <1>9, <1>10 DEF LimitsInv, WeekOK
  <2>2. ASSUME NEW q \in Users \X Companies, week'[q] # NoCount
        PROVE  week'[q].n + Cardinality(WeekAdding(q)') <= CompanyMax + R - 1
    <3>1. CASE q = k
      BY <1>10, <1>11, <3>1
    <3>2. CASE q # k
      BY <1>4, <1>11, <2>2, <3>2 DEF LimitsInv, WeekOK
    <3>. QED  BY <3>1, <3>2
  <2>. QED  BY <2>1, <2>2 DEF WeekOK
<1>14. DayOK' /\ PassedOK'
  BY <1>1, <1>5 DEF LimitsInv, DayOK, PassedOK
<1>. QED  BY <1>12, <1>13, <1>14 DEF LimitsInv

\* Midnight and the end of a company's seven days end a row; reports under way go on.
LEMMA CalendarKeepsLimits ==
  ASSUME LimitsInv, Limits!Calendar
  PROVE  LimitsInv'
<1>1. ASSUME NEW u \in Users, Limits!NewDay(u)
      PROVE  LimitsInv'
  <2>1. /\ Limits!Fresh(day[u]) /\ UNCHANGED <<week, request>>
        /\ day' = [day EXCEPT ![u].over = TRUE] /\ passed' = [passed EXCEPT ![u] = 0]
    BY <1>1 DEF Limits!NewDay
  <2>2. day[u] \in Rows /\ day[u] # NoCount
    BY <2>1 DEF LimitsInv, DayOK, Limits!Fresh
  <2>3. PICK old : old = [day[u] EXCEPT !.over = TRUE]
    OBVIOUS
  <2>4. old \in Rows /\ old # NoCount /\ old.n = day[u].n /\ ~ Limits!Fresh(old)
    BY <2>2, <2>3, EndedRow
  <2>5. /\ day' = [day EXCEPT ![u] = old] /\ day'[u] = old
        /\ \A v \in Users \ {u} : day'[v] = day[v]
    BY <2>1, <2>3 DEF LimitsInv, DayOK
  <2>6. \A v : /\ Adding(v)' = Adding(v) /\ Setting(v)' = Setting(v) /\ WeekAdding(v)' = WeekAdding(v)
    BY <2>1 DEF Adding, Setting, WeekAdding, Key
  <2>7. RequestsOK'
    <3>1. ASSUME NEW c \in Browsers, request[c].at = "day add" PROVE day'[request[c].user] # NoCount
      BY <2>4, <2>5, <3>1 DEF LimitsInv, RequestsOK
    <3>2. \A c \in Browsers : Key(c)' = Key(c)
      BY <2>1 DEF Key
    <3>. QED  BY <2>1, <3>1, <3>2 DEF LimitsInv, RequestsOK
  <2>8. DayOK'
    <3>1. day' \in [Users -> Rows \cup {NoCount}]
      BY <2>4, <2>5 DEF LimitsInv, DayOK
    <3>2. ASSUME NEW v \in Users, day'[v] # NoCount
          PROVE  day'[v].n + Cardinality(Adding(v)') <= Full
      BY <2>2, <2>4, <2>5, <2>6, <3>2 DEF LimitsInv, DayOK
    <3>. QED  BY <3>1, <3>2 DEF DayOK
  <2>9. WeekOK'
    BY <2>1, <2>6 DEF LimitsInv, WeekOK
  <2>10. PassedOK'
    <3>1. passed' \in [Users -> Nat] /\ passed'[u] = 0 /\ \A v \in Users \ {u} : passed'[v] = passed[v]
      BY <2>1 DEF LimitsInv, PassedOK
    <3>2. ASSUME NEW v \in Users
          PROVE  IF Limits!Fresh(day'[v])
                 THEN passed'[v] <= (R - 1 - Cardinality(Setting(v)')) * Full + day'[v].n
                 ELSE passed'[v] = 0
      <4>1. CASE v = u
        BY <2>4, <2>5, <3>1, <4>1
      <4>2. CASE v # u
        BY <2>5, <2>6, <3>1, <4>2 DEF LimitsInv, PassedOK
      <4>. QED  BY <4>1, <4>2
    <3>. QED  BY <3>1, <3>2 DEF PassedOK
  <2>. QED  BY <2>7, <2>8, <2>9, <2>10 DEF LimitsInv
<1>2. ASSUME NEW k \in Users \X Companies, Limits!NewWeek(k)
      PROVE  LimitsInv'
  <2>1. /\ Limits!Fresh(week[k]) /\ UNCHANGED <<day, request, passed>>
        /\ week' = [week EXCEPT ![k].over = TRUE]
    BY <1>2 DEF Limits!NewWeek
  <2>2. week[k] \in Rows /\ week[k] # NoCount
    BY <2>1 DEF LimitsInv, WeekOK, Limits!Fresh
  <2>3. PICK old : old = [week[k] EXCEPT !.over = TRUE]
    OBVIOUS
  <2>4. old \in Rows /\ old # NoCount /\ old.n = week[k].n
    BY <2>2, <2>3, EndedRow
  <2>5. /\ week' = [week EXCEPT ![k] = old] /\ week'[k] = old
        /\ \A q \in (Users \X Companies) \ {k} : week'[q] = week[q]
    BY <2>1, <2>3 DEF LimitsInv, WeekOK
  <2>6. \A v : /\ Adding(v)' = Adding(v) /\ Setting(v)' = Setting(v) /\ WeekAdding(v)' = WeekAdding(v)
    BY <2>1 DEF Adding, Setting, WeekAdding, Key
  <2>7. RequestsOK'
    <3>1. ASSUME NEW c \in Browsers, request[c].at = "week add" PROVE week'[Key(c)] # NoCount
      <4>1. Key(c) \in Users \X Companies
        BY <3>1 DEF LimitsInv, RequestsOK, Key
      <4>. QED  BY <2>4, <2>5, <3>1, <4>1 DEF LimitsInv, RequestsOK
    <3>2. \A c \in Browsers : Key(c)' = Key(c)
      BY <2>1 DEF Key
    <3>. QED  BY <2>1, <3>1, <3>2 DEF LimitsInv, RequestsOK
  <2>8. WeekOK'
    <3>1. week' \in [Users \X Companies -> Rows \cup {NoCount}]
      BY <2>4, <2>5 DEF LimitsInv, WeekOK
    <3>2. ASSUME NEW q \in Users \X Companies, week'[q] # NoCount
          PROVE  week'[q].n + Cardinality(WeekAdding(q)') <= CompanyMax + R - 1
      BY <2>2, <2>4, <2>5, <2>6, <3>2 DEF LimitsInv, WeekOK
    <3>. QED  BY <3>1, <3>2 DEF WeekOK
  <2>9. DayOK' /\ PassedOK'
    BY <2>1, <2>6 DEF LimitsInv, DayOK, PassedOK
  <2>. QED  BY <2>7, <2>8, <2>9 DEF LimitsInv
<1>. QED  BY <1>1, <1>2 DEF Limits!Calendar

LEMMA InitLimits == Limits!LimitsInit => LimitsInv
<1>. SUFFICES ASSUME Limits!LimitsInit PROVE LimitsInv
  OBVIOUS
<1>. USE DEF Limits!LimitsInit
<1>1. RequestsOK
  BY DEF RequestsOK, Limits!NoRequest, Limits!Steps
<1>2. DayOK /\ WeekOK
  BY DEF DayOK, WeekOK
<1>3. PassedOK
  BY DEF PassedOK, Limits!Fresh
<1>. QED  BY <1>1, <1>2, <1>3 DEF LimitsInv

\* Reports of any number of browsers overlap at every statement, and days and weeks
\* end meanwhile: the counts stay within what the reports under way can add.
THEOREM LimitsInvariant == Spec => []LimitsInv
<1>1. LimitsInv /\ SessionsTypeOK /\ [Next]_vars => LimitsInv'
  <2>. SUFFICES ASSUME LimitsInv, SessionsTypeOK, [Next]_vars PROVE LimitsInv'
    OBVIOUS
  <2>1. CASE UNCHANGED limitVars
    BY <2>1 DEF LimitsInv, RequestsOK, DayOK, WeekOK, PassedOK, Adding, Setting, WeekAdding, Key, limitVars
  <2>2. ASSUME NEW b \in Browsers, Report(b) PROVE LimitsInv'
    <3>1. UserOf(b) \in Users
      BY <2>2 DEF Report, UserOf, SessionsTypeOK, Live
    <3>. QED  BY <2>2, <3>1, StartKeepsLimits DEF Report
  <2>3. ASSUME NEW b \in Browsers, Limits!Reports(b) PROVE LimitsInv'
    BY <2>3, ReadDayKeepsLimits, WriteDayKeepsLimits, ReadWeekKeepsLimits, WriteWeekKeepsLimits
       DEF Limits!Reports
  <2>. QED  BY <2>1, <2>2, <2>3, CalendarKeepsLimits DEF Next, PostForm, vars
<1>. QED  BY <1>1, InitLimits, SessionTypesHold, PTL DEF Spec, Init

\* The instance counts browsers as this module does.
LEMMA OneCardinality == Limits!Cardinality(Browsers) = R
BY DEF Limits!Cardinality, Cardinality, R, Limits!IsFiniteSet, IsFiniteSet

\* The users, sessions and cookies of SessionTypesHold; a count in
\* user_action_rate_limits never passes its limit by more than the reports that may
\* be under way at once (_check_rate_limits).
THEOREM TypesHold == Spec => []TypeOK
<1>1. LimitsInv => Limits!LimitsTypeOK
  <2>. SUFFICES ASSUME LimitsInv PROVE Limits!LimitsTypeOK
    OBVIOUS
  <2>. DEFINE top == (IF DayMax > CompanyMax THEN DayMax ELSE CompanyMax) + R
  <2>1. top \in Nat /\ DayMax + R - 1 <= top /\ CompanyMax + R - 1 <= top
    BY Sizes
  <2>2. Limits!Counts = [n : 1 .. top, over : BOOLEAN]
    BY OneCardinality DEF Limits!Counts, R
  <2>. HIDE DEF top
  <2>3. ASSUME NEW row \in Rows, row.n <= top PROVE row \in Limits!Counts
    <3>1. row.n \in 1 .. top
      BY <2>1, <2>3 DEF Rows
    <3>. QED  BY <2>2, <3>1, Zenon DEF Rows
  <2>4. ASSUME NEW u \in Users PROVE day[u] \in Limits!Counts \cup {NoCount}
    <3>1. CASE day[u] # NoCount
      <4>1. day[u] \in Rows /\ day[u].n + Cardinality(Adding(u)) <= Full
        BY <3>1 DEF LimitsInv, DayOK
      <4>2. Cardinality(Adding(u)) \in Nat
        BY SubsetSize DEF Adding
      <4>3. day[u].n <= top
        BY <2>1, <4>1, <4>2, Sizes DEF Full, Rows
      <4>. QED  BY <2>3, <4>1, <4>3
    <3>. QED  BY <3>1
  <2>5. ASSUME NEW k \in Users \X Companies PROVE week[k] \in Limits!Counts \cup {NoCount}
    <3>1. CASE week[k] # NoCount
      <4>1. week[k] \in Rows /\ week[k].n + Cardinality(WeekAdding(k)) <= CompanyMax + R - 1
        BY <3>1 DEF LimitsInv, WeekOK
      <4>2. Cardinality(WeekAdding(k)) \in Nat
        BY SubsetSize DEF WeekAdding
      <4>3. week[k].n <= top
        BY <2>1, <4>1, <4>2, Sizes DEF Rows
      <4>. QED  BY <2>3, <4>1, <4>3
    <3>. QED  BY <3>1
  <2>. QED  BY <2>4, <2>5 DEF Limits!LimitsTypeOK, LimitsInv, RequestsOK, DayOK, WeekOK, PassedOK
<1>. QED  BY <1>1, LimitsInvariant, SessionTypesHold, PTL DEF TypeOK

\* However many reports overlap, those of one user that pass the day's limit are at
\* most R rows of DayMax + R - 1 each: _check_rate_limits compares a count that other
\* reports are about to raise, and may begin it again once for each of them.
THEOREM ReportsStayBounded == Spec => []ReportsBounded
<1>1. LimitsInv => ReportsBounded
  <2>. SUFFICES ASSUME LimitsInv, NEW u \in Users PROVE passed[u] <= R * Full
    BY OneCardinality DEF ReportsBounded, Limits!ReportsBounded, R, Full
  <2>1. PICK S \in Nat : S = Cardinality(Setting(u)) /\ S <= R
    BY SubsetSize DEF Setting
  <2>2. R \in Nat /\ DayMax \in Nat \ {0} /\ Full \in Int
    BY Sizes DEF Full
  <2>3. CASE Limits!Fresh(day[u])
    <3>1. day[u] \in Rows /\ day[u].n + Cardinality(Adding(u)) <= Full
      BY <2>3 DEF LimitsInv, DayOK, Limits!Fresh
    <3>2. Cardinality(Adding(u)) \in Nat
      BY SubsetSize DEF Adding
    <3>3. day[u].n \in Nat /\ day[u].n <= Full /\ Full \in Nat
      BY <2>2, <3>1, <3>2 DEF Rows
    <3>4. passed[u] \in Nat /\ passed[u] <= (R - 1 - S) * Full + day[u].n
      BY <2>1, <2>3 DEF LimitsInv, PassedOK
    <3>5. S * Full \in Nat /\ R * Full \in Nat
      BY <2>2, <3>3
    <3>6. \A x, y, z \in Int : (x - 1 - y) * z = x * z - z - y * z
      OBVIOUS
    <3>7. (R - 1 - S) * Full = R * Full - Full - S * Full
      BY <2>2, <3>3, <3>6
    <3>. QED  BY <3>3, <3>4, <3>5, <3>7
  <2>4. CASE ~ Limits!Fresh(day[u])
    <3>1. passed[u] = 0
      BY <2>4 DEF LimitsInv, PassedOK
    <3>2. CASE R = 0
      BY <2>2, <3>1, <3>2
    <3>3. CASE R # 0
      <4>1. Full \in Nat
        BY <2>2, <3>3 DEF Full
      <4>2. R * Full \in Nat
        BY <2>2, <4>1
      <4>. QED  BY <3>1, <4>2
    <3>. QED  BY <3>2, <3>3
  <2>. QED  BY <2>3, <2>4
<1>. QED  BY <1>1, LimitsInvariant, PTL
=============================================================================
