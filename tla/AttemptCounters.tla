--------------------------- MODULE AttemptCounters ---------------------------
(***************************************************************************)
(* The counters of failed sign-ins and of sign-ups (auth_rate_limits).     *)
(*                                                                         *)
(* Every request is a thread of its own and every SQL statement commits by *)
(* itself: _increment_bucket reads a row, adds one in Python and writes    *)
(* the row back, for one bucket after the other.  Time is kept as two      *)
(* marks of a row: its window is over, its lockout is over.                *)
(***************************************************************************)
EXTENDS Integers, Sequences

CONSTANTS
    Clients,   \* requests under way at the same time
    IpOf,      \* the address each client is seen from
    Emails,    \* normalised e-mail addresses
    Policies,  \* the values auth_policy may hold: a maximum for each kind of bucket
    NoRow,     \* the bucket has no row, or a request holds no row to write
    MaxCount   \* bound: failures counted in one row

Ips == {IpOf[c] : c \in Clients}
Kinds == {"pair", "email", "ip", "signup"}
Buckets == {<<"pair", i, e>> : i \in Ips, e \in Emails} \cup {<<"email", e>> : e \in Emails}
           \cup {<<"ip", i>> : i \in Ips} \cup {<<"signup", i>> : i \in Ips}
Kind(k) == k[1]

ASSUME CountersAssumption ==
    /\ Policies \subseteq [Kinds -> Nat \ {0}] /\ Policies # {}
    /\ MaxCount \in Nat \ {0}
    /\ NoRow \notin [n : Nat, over : BOOLEAN, locked : BOOLEAN]

VARIABLES
    bucket,  \* auth_rate_limits: [n: failed_attempts, over: the window that began at
             \* window_started_at has passed, locked: locked_until lies ahead]
    pc,      \* where the request stands
    queue,   \* the buckets it still has to count in
    draft    \* the row it is about to write into the first of them

vars == <<bucket, pc, queue, draft>>

Row == [n : 0 .. MaxCount, over : BOOLEAN, locked : BOOLEAN]
Queues == UNION {[1 .. l -> Buckets] : l \in 0 .. 3}

TypeOK ==
    /\ bucket \in [Buckets -> Row \cup {NoRow}]
    /\ pc \in [Clients -> {"idle", "read", "write", "forgive"}]
    /\ queue \in [Clients -> Queues]
    /\ draft \in [Clients -> Row \cup {NoRow}]

Init ==
    /\ bucket = [k \in Buckets |-> NoRow]
    /\ pc = [c \in Clients |-> "idle"]
    /\ queue = [c \in Clients |-> <<>>]
    /\ draft = [c \in Clients |-> NoRow]

-----------------------------------------------------------------------------
Pair(c, e) == <<"pair", IpOf[c], e>>
Signups(c) == <<"signup", IpOf[c]>>
Locked(k) == bucket[k] # NoRow /\ bucket[k].locked

\* is_signin_rate_limited
Limited(c, e) == \E k \in {Pair(c, e), <<"email", e>>, <<"ip", IpOf[c]>>} : Locked(k)

Goto(c, label) == pc' = [pc EXCEPT ![c] = label]

\* signin_submit with a wrong password: record_signin_failure goes through the
\* three buckets.  A limited request ends before it and is counted nowhere.
SigninFails(c, e) ==
    /\ pc[c] = "idle" /\ ~ Limited(c, e)
    /\ queue' = [queue EXCEPT ![c] = <<Pair(c, e), <<"email", e>>, <<"ip", IpOf[c]>> >>]
    /\ Goto(c, "read")
    /\ UNCHANGED <<bucket, draft>>

\* ... with the right one.
SigninPasses(c, e) ==
    /\ pc[c] = "idle" /\ ~ Limited(c, e)
    /\ queue' = [queue EXCEPT ![c] = <<Pair(c, e)>>]
    /\ Goto(c, "forgive")
    /\ UNCHANGED <<bucket, draft>>

\* clear_signin_failures: the pair's row only.
Forgive(c) ==
    /\ pc[c] = "forgive"
    /\ bucket' = [bucket EXCEPT ![Head(queue[c])] = NoRow]
    /\ queue' = [queue EXCEPT ![c] = <<>>]
    /\ Goto(c, "idle")
    /\ UNCHANGED draft

\* signup_submit counts every attempt, whatever becomes of it.
Signup(c) ==
    /\ pc[c] = "idle" /\ ~ Locked(Signups(c))
    /\ queue' = [queue EXCEPT ![c] = <<Signups(c)>>]
    /\ Goto(c, "read")
    /\ UNCHANGED <<bucket, draft>>

\* Slip: a count that is never begun again, for TypeOK.
SlipIncremented(row, max) ==
    [n |-> row.n + 1, over |-> FALSE, locked |-> row.n + 1 >= max]

\* What _increment_bucket makes of the row it reads: only a count that reaches
\* the maximum sets locked_until, every other one clears it.
Incremented(row, max) ==
    LET n == IF row.over THEN 1 ELSE row.n + 1
    IN  [n |-> n, over |-> FALSE, locked |-> n >= max]

\* Its SELECT.  The administrator edits the policy at any time, so the one the
\* request has read is any of them.
ReadBucket(c) ==
    LET k == Head(queue[c]) IN
    /\ pc[c] = "read"
    /\ \/ /\ bucket[k] = NoRow
          /\ UNCHANGED draft
       \/ /\ bucket[k] # NoRow /\ (bucket[k].over \/ bucket[k].n < MaxCount)
          /\ \E p \in Policies :
                draft' = [draft EXCEPT ![c] = Incremented(bucket[k], p[Kind(k)])]
    /\ Goto(c, "write")
    /\ UNCHANGED <<bucket, queue>>

Done(c) ==
    /\ Goto(c, IF Len(queue[c]) > 1 THEN "read" ELSE "idle")
    /\ queue' = [queue EXCEPT ![c] = Tail(@)]

\* A row it did not find is inserted, unless another request has inserted it
\* meanwhile: that error ends the request and its other buckets.
InsertRow(c) ==
    LET k == Head(queue[c]) IN
    /\ pc[c] = "write" /\ draft[c] = NoRow
    /\ \/ /\ bucket[k] = NoRow
          /\ bucket' = [bucket EXCEPT ![k] = [n |-> 1, over |-> FALSE, locked |-> FALSE]]
          /\ Done(c)
       \/ /\ bucket[k] # NoRow
          /\ Goto(c, "idle") /\ queue' = [queue EXCEPT ![c] = <<>>]
          /\ UNCHANGED bucket
    /\ UNCHANGED draft

\* A row it found is overwritten, unless it has been deleted meanwhile.
UpdateRow(c) ==
    /\ pc[c] = "write" /\ draft[c] # NoRow
    /\ bucket' = [bucket EXCEPT ![Head(queue[c])] = IF @ = NoRow THEN NoRow ELSE draft[c]]
    /\ draft' = [draft EXCEPT ![c] = NoRow]
    /\ Done(c)
-----------------------------------------------------------------------------
(* The administrator and time.                                             *)

\* admin_clear_failed_logins without an argument: the lockouts only.
ClearLockouts ==
    /\ \E k \in Buckets : Locked(k)
    /\ bucket' = [k \in Buckets |->
                    IF bucket[k] = NoRow THEN NoRow ELSE [bucket[k] EXCEPT !.locked = FALSE]]
    /\ UNCHANGED <<pc, queue, draft>>

\* ... and with an address or an e-mail: the rows that name it.  Its
\* DELETEs, one for each kind of bucket, are taken together.
ClearRows(of) ==
    /\ bucket' = [k \in Buckets |-> IF \E i \in 2 .. Len(k) : k[i] = of THEN NoRow ELSE bucket[k]]
    /\ bucket' # bucket
    /\ UNCHANGED <<pc, queue, draft>>

\* Slip: the count is reset and the lockout is left, for LockJustified.
SlipUnlock(k) ==
    /\ bucket[k] # NoRow
    /\ bucket' = [bucket EXCEPT ![k].n = 0]
    /\ UNCHANGED <<pc, queue, draft>>

\* admin_unlock_bucket
Unlock(k) ==
    /\ bucket[k] # NoRow
    /\ bucket' = [bucket EXCEPT ![k] = [n |-> 0, over |-> @.over, locked |-> FALSE]]
    /\ UNCHANGED <<pc, queue, draft>>

WindowEnds(k) ==
    /\ bucket[k] # NoRow /\ ~ bucket[k].over
    /\ bucket' = [bucket EXCEPT ![k].over = TRUE]
    /\ UNCHANGED <<pc, queue, draft>>

LockoutEnds(k) ==
    /\ Locked(k)
    /\ bucket' = [bucket EXCEPT ![k].locked = FALSE]
    /\ UNCHANGED <<pc, queue, draft>>

Submit(c) == Signup(c) \/ \E e \in Emails : SigninFails(c, e) \/ SigninPasses(c, e)
Step(c) == Forgive(c) \/ ReadBucket(c) \/ InsertRow(c) \/ UpdateRow(c)

Admin ==
    \/ ClearLockouts
    \/ \E of \in Emails \cup Ips : ClearRows(of)
    \/ \E k \in Buckets : Unlock(k)

Next ==
    \/ \E c \in Clients : Submit(c) \/ Step(c)
    \/ Admin
    \/ \E k \in Buckets : WindowEnds(k) \/ LockoutEnds(k)

Spec == Init /\ [][Next]_vars
-----------------------------------------------------------------------------
(* Properties.                                                             *)

\* A row that is locked has counted as many failures as some policy demands,
\* whatever requests, unlocks and clears overlap.
LockJustified ==
    \A k \in Buckets : Locked(k) => \E p \in Policies : bucket[k].n >= p[Kind(k)]
=============================================================================
