------------------------------- MODULE Sessions -------------------------------
(***************************************************************************)
(* Accounts, sessions (auth_sessions) and the browsers that hold them.     *)
(*                                                                         *)
(* A form post is several SQL statements, each its own commit, then an     *)
(* answer that sets or deletes the cookie.  The server may stop, or the    *)
(* browser go away, between any two of them.  A browser posts one form at  *)
(* a time.  What the counters of AttemptCounters refuse starts no form.    *)
(***************************************************************************)
EXTENDS Integers, FiniteSets

CONSTANTS
    Browsers,
    Tokens,   \* the tokens that secrets.token_urlsafe may still issue
    Users,    \* normalised e-mail addresses, unique in the table users
    None      \* no session, no cookie, no user

ASSUME SessionsAssumption == None \notin Tokens \cup Users

VARIABLES
    account,  \* users that have signed up
    session,  \* auth_sessions: the user of each token
    lapsed,   \* tokens whose expires_at has passed
    cookie,   \* the token each browser sends
    form,     \* the form each browser has posted: [at, user, token: the cookie it
              \* came with, issued: the token its answer sets]
    lost      \* tokens whose answer never reached the browser

sessionVars == <<account, session, lapsed, cookie, form, lost>>

Idle == [at |-> "idle", user |-> None, token |-> None, issued |-> None]
Forms == [at : {"idle", "drop", "issue", "reply", "leave", "left", "revoke"},
          user : Users \cup {None}, token : Tokens \cup {None}, issued : Tokens \cup {None}]

SessionsTypeOK ==
    /\ account \subseteq Users
    /\ session \in [Tokens -> Users \cup {None}]
    /\ lapsed \subseteq Tokens
    /\ cookie \in [Browsers -> Tokens \cup {None}]
    /\ form \in [Browsers -> Forms]
    /\ lost \subseteq Tokens

SessionsInit ==
    /\ account = {}
    /\ session = [t \in Tokens |-> None]
    /\ lapsed = {}
    /\ cookie = [b \in Browsers |-> None]
    /\ form = [b \in Browsers |-> Idle]
    /\ lost = {}
-----------------------------------------------------------------------------
\* Tokens with a row whose expires_at lies ahead.
Live == {t \in Tokens : session[t] # None /\ t \notin lapsed}

\* Whom validate_session finds behind a browser's cookie.
UserOf(b) == IF cookie[b] \in Live THEN session[cookie[b]] ELSE None

\* DELETE FROM auth_sessions
Ended(tokens) == session' = [t \in Tokens |-> IF t \in tokens THEN None ELSE session[t]]

Post(b, at, u) ==
    form' = [form EXCEPT ![b] = [at |-> at, user |-> u, token |-> cookie[b], issued |-> None]]

\* authenticate_user finds the password right.
SigninPasses(b, u) ==
    /\ form[b].at = "idle" /\ u \in account
    /\ Post(b, "drop", u)
    /\ UNCHANGED <<account, session, lapsed, cookie, lost>>

\* create_user: of two sign-ups with one address the second meets the UNIQUE
\* index and ends; a weak password ends before it.
SignupPasses(b, u) ==
    /\ form[b].at = "idle" /\ u \notin account
    /\ account' = account \cup {u}
    /\ Post(b, "drop", u)
    /\ UNCHANGED <<session, lapsed, cookie, lost>>

\* Slip: signing in over an old session leaves it, for SessionsHeld.
SlipDropStale(b) ==
    /\ form[b].at = "drop"
    /\ form' = [form EXCEPT ![b].at = "issue"]
    /\ UNCHANGED <<account, session, lapsed, cookie, lost>>

\* clear_session of the cookie the form came with.
DropStale(b) ==
    /\ form[b].at = "drop"
    /\ Ended({form[b].token})
    /\ form' = [form EXCEPT ![b].at = "issue"]
    /\ UNCHANGED <<account, lapsed, cookie, lost>>

\* create_session: a token nobody has had.
Unused(t) ==
    /\ session[t] = None /\ t \notin lapsed \cup lost
    /\ \A b \in Browsers : t \notin {cookie[b], form[b].token, form[b].issued}

IssueSession(b) ==
    /\ form[b].at = "issue"
    /\ \E t \in Tokens :
          /\ Unused(t)
          /\ session' = [session EXCEPT ![t] = form[b].user]
          /\ form' = [form EXCEPT ![b].at = "reply", ![b].issued = t]
    /\ UNCHANGED <<account, lapsed, cookie, lost>>

\* logout: validate_session, then clear_session.
PostLogout(b) ==
    /\ form[b].at = "idle" /\ cookie[b] # None
    /\ Post(b, "leave", None)
    /\ UNCHANGED <<account, session, lapsed, cookie, lost>>

EndSession(b) ==
    /\ form[b].at = "leave"
    /\ Ended({form[b].token})
    /\ form' = [form EXCEPT ![b].at = "left"]
    /\ UNCHANGED <<account, lapsed, cookie, lost>>

\* The answer arrives: the browser takes over the new cookie, or drops its own.
Answered(b) ==
    /\ form[b].at \in {"reply", "left"}
    /\ cookie' = [cookie EXCEPT ![b] = form[b].issued]
    /\ form' = [form EXCEPT ![b] = Idle]
    /\ UNCHANGED <<account, session, lapsed, lost>>

\* The server stops, or the browser goes away, at any point of the form.
Unanswered(b) ==
    /\ form[b].at # "idle"
    /\ lost' = lost \cup ({form[b].issued} \ {None})
    /\ form' = [form EXCEPT ![b] = Idle]
    /\ UNCHANGED <<account, session, lapsed, cookie>>

\* revoke_all_sessions: the session and the password are checked ...
PostRevoke(b) ==
    /\ form[b].at = "idle" /\ UserOf(b) # None
    /\ Post(b, "revoke", UserOf(b))
    /\ UNCHANGED <<account, session, lapsed, cookie, lost>>

\* ... then clear_all_sessions keeps the one that asked, if it still exists.
RevokeOthers(b) ==
    /\ form[b].at = "revoke"
    /\ Ended({t \in Tokens : session[t] = form[b].user} \ {form[b].token})
    /\ form' = [form EXCEPT ![b] = Idle]
    /\ UNCHANGED <<account, lapsed, cookie, lost>>

\* auth_middleware on any page: validate_session deletes the row of a cookie
\* whose session is over.
VisitLapsed(b) ==
    /\ cookie[b] \in lapsed /\ session[cookie[b]] # None
    /\ Ended({cookie[b]})
    /\ UNCHANGED <<account, lapsed, cookie, form, lost>>

\* admin_terminate_session, from the administrator's list of live sessions.
Terminate(t) ==
    /\ t \in Live
    /\ Ended({t})
    /\ UNCHANGED <<account, lapsed, cookie, form, lost>>

Lapse(t) ==
    /\ t \in Live
    /\ lapsed' = lapsed \cup {t}
    /\ UNCHANGED <<account, session, cookie, form, lost>>

\* The cookie's own max_age.
CookieExpires(b) ==
    /\ cookie[b] \in lapsed /\ form[b].at = "idle"
    /\ cookie' = [cookie EXCEPT ![b] = None]
    /\ UNCHANGED <<account, session, lapsed, form, lost>>

Opens(b) ==
    \/ \E u \in Users : SigninPasses(b, u) \/ SignupPasses(b, u)
    \/ PostLogout(b) \/ PostRevoke(b)

Continues(b) ==
    \/ DropStale(b) \/ IssueSession(b) \/ EndSession(b) \/ RevokeOthers(b)
    \/ Answered(b) \/ Unanswered(b)

Elsewhere ==
    \/ \E b \in Browsers : VisitLapsed(b) \/ CookieExpires(b)
    \/ \E t \in Tokens : Terminate(t) \/ Lapse(t)

SessionsNext == (\E b \in Browsers : Opens(b) \/ Continues(b)) \/ Elsewhere

SessionsSpec == SessionsInit /\ [][SessionsNext]_sessionVars
-----------------------------------------------------------------------------
\* Every live session is the cookie of a browser or about to become it; only
\* a lost answer leaves one that nobody can end but a revoke, the administrator
\* or its expiry.  Signing in again, logging out and revoking overlap freely.
SessionsHeld ==
    \A t \in Live \ lost : \E b \in Browsers : t \in {cookie[b], form[b].issued}
=============================================================================
