---------------------------- MODULE VerifierRuns ----------------------------
(***************************************************************************)
(* The runs of the availability verifier: the scheduler's ticks, the drain *)
(* after an ingestion and the admin's sweep pick jobs, write a row of      *)
(* verifier_runs, check the jobs in batches behind two semaphores and      *)
(* close the row.  A tick takes the verify lock; the admin's sweep only    *)
(* looks at the latest row.  The code between two awaits is one step, and  *)
(* "stop" comes from a thread of its own.                                  *)
(*                                                                         *)
(* What a check does to its job is JobLifecycle's matter; here it moves    *)
(* the job in the two orders the picks follow.  Detection is enabled:      *)
(* without it every drain returns at once.                                 *)
(***************************************************************************)
EXTENDS Integers, Sequences, FiniteSets

CONSTANTS
    Jobs,            \* rows of jobs
    AtsOf,           \* the ATS of each job: its matcher, and the host the limits count
    SweepTicks,      \* runs of _run_verify_sweep: at startup and every few minutes
    SuspectTicks,    \* runs of _run_verify_suspected
    DropDrains,      \* the drain of manifest drops after a daily ingestion
    AdminSweeps,     \* requests to run-sweep
    NoDrain,         \* nobody holds the verify lock
    NoRow,           \* no row was ever written
    SweepBatch,      \* jobs a sweep picks, the admin's too
    SuspectBatch,    \* jobs a suspected drain picks
    DropBatch,       \* jobs the drain of manifest drops picks
    GlobalLimit,     \* verifier_global_concurrency, also the size of a batch
    HostLimit,       \* verifier_per_host_concurrency
    Verdicts,        \* the answers a host gives, as Verdict classifies them
    MaxDisturbances  \* bound: stops, failing checks and restarts in a behaviour

Drains == SweepTicks \cup SuspectTicks \cup DropDrains \cup AdminSweeps
Hosts  == {AtsOf[j] : j \in Jobs}

\* Row ids grow for ever and only the latest row and those a drain still owns
\* are ever written again, so the others' ids are used anew.
Rows == 1 .. Cardinality(Drains) + 1

ASSUME VerifierAssumption ==
    /\ IsFiniteSet(Jobs) /\ IsFiniteSet(Drains)
    /\ NoDrain \notin Drains /\ NoRow \notin Rows
    /\ GlobalLimit \in Nat \ {0} /\ HostLimit \in Nat \ {0}
    /\ SweepBatch \in Nat \ {0} /\ SuspectBatch \in Nat \ {0} /\ DropBatch \in Nat \ {0}
    /\ MaxDisturbances \in Nat

VARIABLES
    standing,    \* jobs.verification_status
    byCheck,     \* the jobs by last_verified_at, never checked first
    bySuspicion, \* the suspected jobs by verification_status_at
    status,      \* verifier_runs.status, or "free" for an id not in use
    total,       \* verifier_runs.total_jobs
    checked,     \* verifier_runs.checked_jobs
    latest,      \* the row with the greatest id
    lock,        \* the drain that holds the verify lock
    row,         \* the row of each drain at work, else NoRow
    todo,        \* jobs the drain has not dispatched
    counted,     \* its results["checked"]
    checks,      \* coroutines of verify_job under way
    backoff,     \* hosts whose backoff has not run out
    disturbed    \* stops, failing checks and restarts so far

jobVars == <<standing, byCheck, bySuspicion>>
rowVars == <<status, total, checked, latest>>
runVars == <<row, todo, counted>>
vars == <<jobVars, rowVars, runVars, lock, checks, backoff, disturbed>>

Live == {"running", "cancel_requested"}
Check == [drain : Drains, job : Jobs,
          phase : {"created", "queued", "admitted", "sent"}, closed : BOOLEAN]

Orders == UNION {[1 .. n -> Jobs] : n \in 0 .. Cardinality(Jobs)}

TypeOK ==
    /\ standing \in [Jobs -> {"active", "suspected", "expired"}]
    /\ byCheck \in Orders /\ bySuspicion \in Orders
    /\ status \in [Rows -> Live \cup {"free", "cancelled", "completed"}]
    /\ total \in [Rows -> 0 .. Cardinality(Jobs)]
    /\ checked \in [Rows -> 0 .. Cardinality(Jobs)]
    /\ latest \in Rows \cup {NoRow}
    /\ lock \in SweepTicks \cup SuspectTicks \cup DropDrains \cup {NoDrain}
    /\ row \in [Drains -> Rows \cup {NoRow}]
    /\ todo \in [Drains -> Orders]
    /\ counted \in [Drains -> 0 .. Cardinality(Jobs)]
    /\ checks \subseteq Check
    /\ backoff \subseteq Hosts
    /\ disturbed \in 0 .. MaxDisturbances

Init ==
    /\ standing = [j \in Jobs |-> "active"]
    /\ byCheck \in {s \in Orders : {s[i] : i \in 1 .. Len(s)} = Jobs}
    /\ bySuspicion = <<>>
    /\ status = [r \in Rows |-> "free"]
    /\ total = [r \in Rows |-> 0] /\ checked = [r \in Rows |-> 0]
    /\ latest = NoRow
    /\ lock = NoDrain
    /\ row = [d \in Drains |-> NoRow]
    /\ todo = [d \in Drains |-> <<>>] /\ counted = [d \in Drains |-> 0]
    /\ checks = {} /\ backoff = {} /\ disturbed = 0

-----------------------------------------------------------------------------
(* What the picks read and what a check changes.                           *)

First(n, s) == SubSeq(s, 1, IF Len(s) < n THEN Len(s) ELSE n)

\* An order holds a job once at most.
Holds(s, j) == \E i \in DOMAIN s : s[i] = j
Place(s, j) == CHOOSE i \in DOMAIN s : s[i] = j
Without(s, j) ==
    IF Holds(s, j)
    THEN SubSeq(s, 1, Place(s, j) - 1) \o SubSeq(s, Place(s, j) + 1, Len(s))
    ELSE s

\* Oldest-checked active jobs first.
Active == {j \in Jobs : standing[j] = "active"}
NotAfter(j) == {k \in Active : Place(byCheck, k) <= Place(byCheck, j)}
PickSweep ==
    First(SweepBatch, [n \in 1 .. Cardinality(Active) |->
                        CHOOSE j \in Active : Cardinality(NotAfter(j)) = n])

\* Jobs suspected longest first.
PickSuspected == First(SuspectBatch, bySuspicion)

SetStanding(j, new) ==
    /\ standing' = [standing EXCEPT ![j] = new]
    /\ bySuspicion' = LET others == Without(bySuspicion, j) IN
                      IF new = "suspected" THEN Append(others, j) ELSE others

\* The verdict on a response.  root: the request was redirected to the listing
\* of all jobs; body: "closed" holds an expiry phrase of the ATS's own matcher,
\* "form" an application form that Greenhouse's or Lever's matcher knows.
NoBodyMatcher == {"other"}
KnowsForm == {"greenhouse", "lever"}
Verdict(ats, code, root, body) ==
    IF code = 429 THEN "unknown"
    ELSE IF \/ code \in {404, 410}
            \/ root
            \/ body = "closed" /\ ats \notin NoBodyMatcher
         THEN "expired"
    ELSE IF \/ body = "form" /\ ats \in KnowsForm
            \/ code \in 200 .. 299
         THEN "active"
    ELSE "unknown"

\* Slip: only a definite result is stamped, for EveryActiveChecked.
SlipApplyResult(j, result) ==
    /\ byCheck' = IF result \in {"active", "expired"} THEN Append(Without(byCheck, j), j) ELSE byCheck
    /\ \/ result = "expired" /\ standing[j] # "expired" /\ SetStanding(j, "expired")
       \/ result = "active" /\ standing[j] = "suspected" /\ SetStanding(j, "active")
       \/ /\ ~ (result = "active" /\ standing[j] = "suspected")
          /\ UNCHANGED <<standing, bySuspicion>>

\* on_http_check: any result moves the job to the end of the sweep's order.  An
\* expired result may be kept from the job by the kill switch or the breaker.
ApplyResult(j, result) ==
    /\ byCheck' = Append(Without(byCheck, j), j)
    /\ \/ result = "expired" /\ standing[j] # "expired" /\ SetStanding(j, "expired")
       \/ result = "active" /\ standing[j] = "suspected" /\ SetStanding(j, "active")
       \/ /\ ~ (result = "active" /\ standing[j] = "suspected")
          /\ UNCHANGED <<standing, bySuspicion>>
-----------------------------------------------------------------------------
(* Starting a drain.                                                       *)

Idle(d) == row[d] = NoRow

Owned(r) == \E d \in Drains : row[d] = r

\* Slip: the live rows are not ended first, for OneLiveRow.
SlipStartRun(d, jobs) ==
    LET r == CHOOSE r \in Rows : r # latest /\ ~ Owned(r) /\ status[r] \notin Live IN
    /\ status' = [status EXCEPT ![r] = "running"]
    /\ total' = [total EXCEPT ![r] = Len(jobs)]
    /\ checked' = [checked EXCEPT ![r] = 0]
    /\ latest' = r
    /\ row' = [row EXCEPT ![d] = r]
    /\ todo' = [todo EXCEPT ![d] = jobs]
    /\ counted' = [counted EXCEPT ![d] = 0]

\* _start_run: every live row is ended before the new one is inserted.
StartRun(d, jobs) ==
    LET r == CHOOSE r \in Rows : r # latest /\ ~ Owned(r) IN
    /\ status' = [s \in Rows |->
                    IF s = r THEN "running"
                    ELSE IF status[s] \in Live THEN "cancelled"
                    ELSE IF Owned(s) THEN status[s] ELSE "free"]
    /\ total' = [s \in Rows |-> IF s = r THEN Len(jobs) ELSE IF Owned(s) THEN total[s] ELSE 0]
    /\ checked' = [s \in Rows |-> IF s # r /\ Owned(s) THEN checked[s] ELSE 0]
    /\ latest' = r
    /\ row' = [row EXCEPT ![d] = r]
    /\ todo' = [todo EXCEPT ![d] = jobs]
    /\ counted' = [counted EXCEPT ![d] = 0]

\* A tick that finds the lock taken, or nothing to pick, changes nothing.
SweepTick(d) ==
    /\ Idle(d) /\ lock = NoDrain
    /\ PickSweep # <<>>
    /\ lock' = d
    /\ StartRun(d, PickSweep)
    /\ UNCHANGED <<jobVars, checks, backoff, disturbed>>

SuspectTick(d) ==
    /\ Idle(d) /\ lock = NoDrain
    /\ PickSuspected # <<>>
    /\ lock' = d
    /\ StartRun(d, PickSuspected)
    /\ UNCHANGED <<jobVars, checks, backoff, disturbed>>

\* The daily ingestion waits for the lock.  The jobs it found missing twice are
\* suspected first and checked after.
DropDrain(d) ==
    /\ Idle(d) /\ lock = NoDrain
    /\ \E missing \in Orders :
        /\ Len(missing) \in 1 .. DropBatch
        /\ \A i, k \in DOMAIN missing : i # k => missing[i] # missing[k]
        /\ \A i \in DOMAIN missing : standing[missing[i]] = "active"
        /\ standing' = [j \in Jobs |-> IF \E i \in DOMAIN missing : missing[i] = j
                                       THEN "suspected" ELSE standing[j]]
        /\ bySuspicion' = bySuspicion \o missing
        /\ StartRun(d, missing)
    /\ lock' = d
    /\ UNCHANGED <<byCheck, checks, backoff, disturbed>>

\* get_run_state: whether the latest row is live.
Running == latest # NoRow /\ status[latest] \in Live

\* run-sweep looks at the row and not at the lock.
AdminSweep(d) ==
    /\ Idle(d) /\ ~ Running
    /\ PickSweep # <<>>
    /\ StartRun(d, PickSweep)
    /\ UNCHANGED <<jobVars, lock, checks, backoff, disturbed>>
-----------------------------------------------------------------------------
(* The drain's loop and its checks.                                        *)

Own(d) == {c \in checks : c.drain = d /\ ~ c.closed}

\* Slip: the lock is not given back, for RunSettles.
SlipRelease(d) == UNCHANGED lock

Release(d) == lock' = IF lock = d THEN NoDrain ELSE lock

\* Slip: the batch stays in the list of jobs to check, for TypeOK.
SlipDispatch(d) ==
    /\ ~ Idle(d) /\ Own(d) = {} /\ todo[d] # <<>>
    /\ status[row[d]] # "cancel_requested"
    /\ LET batch == First(GlobalLimit, todo[d]) IN
        checks' = checks \cup {[drain |-> d, job |-> batch[i], phase |-> "created",
                                closed |-> FALSE] : i \in DOMAIN batch}
    /\ checked' \in {checked, [checked EXCEPT ![row[d]] = counted[d]]}
    /\ UNCHANGED <<jobVars, status, total, latest, row, todo, counted, lock, backoff, disturbed>>

\* Before every batch the row is read for a stop request.
Dispatch(d) ==
    /\ ~ Idle(d) /\ Own(d) = {} /\ todo[d] # <<>>
    /\ status[row[d]] # "cancel_requested"
    /\ LET batch == First(GlobalLimit, todo[d]) IN
        /\ checks' = checks \cup {[drain |-> d, job |-> batch[i], phase |-> "created",
                                   closed |-> FALSE] : i \in DOMAIN batch}
        /\ todo' = [todo EXCEPT ![d] = SubSeq(@, Len(batch) + 1, Len(@))]
    \* Progress is written after a batch unless it was written just before.
    /\ checked' \in {checked, [checked EXCEPT ![row[d]] = counted[d]]}
    /\ UNCHANGED <<jobVars, status, total, latest, row, counted, lock, backoff, disturbed>>

\* Slip: the progress is not written once more at the end, for CompletedCounted.
SlipFinish(d) ==
    /\ ~ Idle(d) /\ Own(d) = {}
    /\ todo[d] = <<>> \/ status[row[d]] = "cancel_requested"
    /\ status' = [status EXCEPT ![row[d]] = IF todo[d] = <<>> THEN "completed" ELSE "cancelled"]
    /\ row' = [row EXCEPT ![d] = NoRow]
    /\ todo' = [todo EXCEPT ![d] = <<>>] /\ counted' = [counted EXCEPT ![d] = 0]
    /\ Release(d)
    /\ UNCHANGED <<jobVars, total, checked, latest, checks, backoff, disturbed>>

Finish(d) ==
    /\ ~ Idle(d) /\ Own(d) = {}
    /\ todo[d] = <<>> \/ status[row[d]] = "cancel_requested"
    /\ status' = [status EXCEPT ![row[d]] = IF todo[d] = <<>> THEN "completed" ELSE "cancelled"]
    /\ checked' = [checked EXCEPT ![row[d]] = counted[d]]
    /\ row' = [row EXCEPT ![d] = NoRow]
    /\ todo' = [todo EXCEPT ![d] = <<>>] /\ counted' = [counted EXCEPT ![d] = 0]
    /\ Release(d)
    /\ UNCHANGED <<jobVars, total, latest, checks, backoff, disturbed>>

MoveTo(c, phase) == checks' = (checks \ {c}) \cup {[c EXCEPT !.phase = phase]}

\* The end of a check: on_http_check, and the count of a drain that still waits.
Record(c, result) ==
    /\ checks' = checks \ {c}
    /\ ApplyResult(c.job, result)
    /\ counted' = IF c.closed THEN counted ELSE [counted EXCEPT ![c.drain] = @ + 1]

\* The semaphores: the global slot is taken first and kept while the host's is
\* awaited.
AtWork == {x \in checks : x.phase \in {"admitted", "sent"}}
OnWire(host) == {x \in checks : x.phase = "sent" /\ AtsOf[x.job] = host}

PhaseWithSlot(c) ==
    IF Cardinality(OnWire(AtsOf[c.job])) < HostLimit THEN "sent" ELSE "admitted"

\* The backoff is tested once, before the check queues for a slot.
Enter(c) ==
    /\ c.phase = "created"
    /\ \/ /\ AtsOf[c.job] \in backoff
          /\ Record(c, "unknown")
       \/ /\ AtsOf[c.job] \notin backoff
          /\ MoveTo(c, IF Cardinality(AtWork) < GlobalLimit THEN PhaseWithSlot(c) ELSE "queued")
          /\ UNCHANGED <<jobVars, counted>>
    /\ UNCHANGED <<rowVars, row, todo, lock, backoff, disturbed>>

\* A slot came free.
Proceed(c) ==
    /\ c.phase = "queued" => Cardinality(AtWork) < GlobalLimit
    /\ c.phase \in {"queued", "admitted"} /\ PhaseWithSlot(c) # c.phase
    /\ MoveTo(c, PhaseWithSlot(c))
    /\ UNCHANGED <<jobVars, rowVars, runVars, lock, backoff, disturbed>>

\* A request that outlived its drain finds the client closed and is an error.
Answer(c) ==
    /\ c.phase = "sent"
    /\ \/ /\ Record(c, "error")
          /\ UNCHANGED backoff
       \/ /\ ~ c.closed
          /\ \E v \in Verdicts :
              /\ Record(c, Verdict(AtsOf[c.job], v.code, v.root, v.body))
              /\ backoff' = IF v.code = 429 THEN backoff \cup {AtsOf[c.job]} ELSE backoff
    /\ UNCHANGED <<rowVars, row, todo, lock, disturbed>>

\* on_http_check raises: the drain ends there, its row stays as it is and its
\* other checks go on without it.
CheckFails(c) ==
    /\ c.phase = "sent" /\ ~ c.closed
    /\ disturbed < MaxDisturbances /\ disturbed' = disturbed + 1
    /\ LET d == c.drain IN
        /\ checks' = {[x EXCEPT !.closed = @ \/ x.drain = d] : x \in checks \ {c}}
        /\ row' = [row EXCEPT ![d] = NoRow]
        /\ todo' = [todo EXCEPT ![d] = <<>>] /\ counted' = [counted EXCEPT ![d] = 0]
        /\ Release(d)
    /\ UNCHANGED <<jobVars, rowVars, backoff>>
-----------------------------------------------------------------------------
(* Threads, time and the process.                                          *)

\* Slip: the stop is written whatever the row's status, for ImplementsBoard.
SlipStop ==
    /\ latest # NoRow
    /\ disturbed < MaxDisturbances /\ disturbed' = disturbed + 1
    /\ status' = [status EXCEPT ![latest] = "cancel_requested"]
    /\ UNCHANGED <<jobVars, total, checked, latest, runVars, lock, checks, backoff>>

\* stop-sweep.
Stop ==
    /\ \E r \in Rows : status[r] = "running"
    /\ disturbed < MaxDisturbances /\ disturbed' = disturbed + 1
    /\ status' = [r \in Rows |-> IF status[r] = "running" THEN "cancel_requested" ELSE status[r]]
    /\ UNCHANGED <<jobVars, total, checked, latest, runVars, lock, checks, backoff>>

\* A user's report makes an active job suspected.
Report(j) ==
    /\ standing[j] = "active"
    /\ SetStanding(j, "suspected")
    /\ UNCHANGED <<byCheck, rowVars, runVars, lock, checks, backoff, disturbed>>

\* An hour after the 429.
BackoffEnds(h) ==
    /\ h \in backoff
    /\ backoff' = backoff \ {h}
    /\ UNCHANGED <<jobVars, rowVars, runVars, lock, checks, disturbed>>

\* The server is restarted: locks, coroutines and backoffs are gone, rows stay.
Restart ==
    /\ disturbed < MaxDisturbances /\ disturbed' = disturbed + 1
    /\ lock' = NoDrain /\ checks' = {} /\ backoff' = {}
    /\ row' = [d \in Drains |-> NoRow]
    /\ todo' = [d \in Drains |-> <<>>] /\ counted' = [d \in Drains |-> 0]
    /\ UNCHANGED <<jobVars, rowVars>>

Begin ==
    \/ \E d \in SweepTicks : SweepTick(d)
    \/ \E d \in SuspectTicks : SuspectTick(d)
    \/ \E d \in DropDrains : DropDrain(d)
    \/ \E d \in AdminSweeps : AdminSweep(d)

Advance(d) == Dispatch(d) \/ Finish(d)
CheckStep(c) == Enter(c) \/ Proceed(c) \/ Answer(c)

Next ==
    \/ Begin
    \/ \E d \in Drains : Advance(d)
    \/ \E c \in checks : CheckStep(c) \/ CheckFails(c)
    \/ Stop
    \/ \E j \in Jobs : Report(j)
    \/ \E h \in Hosts : BackoffEnds(h)
    \/ Restart

Spec == Init /\ [][Next]_vars

\* A drain and its checks run on: every request ends by its timeout.  The ticks
\* come round for ever, and a tick that finds the lock taken is lost: one of
\* them finds it free in the end.
Fairness ==
    /\ \A d \in Drains : WF_vars(Advance(d))
    /\ \A d \in Drains, j \in Jobs :
        WF_vars(\E c \in checks : c.drain = d /\ c.job = j /\ CheckStep(c))
    /\ \A d \in SweepTicks : SF_vars(SweepTick(d))
    /\ \A d \in SuspectTicks : SF_vars(SuspectTick(d))

FairSpec == Spec /\ Fairness
-----------------------------------------------------------------------------
(* Properties.                                                             *)

\* However ticks, drains, admins and restarts overlap, at most one row of
\* verifier_runs is live, and it is the one get_run_state reports.
OneLiveRow == \A r \in Rows : status[r] \in Live => r = latest

\* A row that says completed has counted every job it was started with, also
\* when another drain had marked it cancelled meanwhile.
CompletedCounted ==
    \A r \in Rows : status[r] = "completed" => checked[r] = total[r]

\* A live row is ended in the end, also after its drain failed or the server
\* was restarted: by the drain or by the next tick that finds a job.
RunSettles ==
    \A r \in Rows : status[r] \in Live
        ~> (status[r] \notin Live \/ \A j \in Jobs : standing[j] = "expired")

\* The latest row as get_run_state reports it.
Board == INSTANCE RunBoard WITH
            shown <- IF latest = NoRow THEN "idle" ELSE status[latest],
            done  <- IF latest = NoRow THEN 0 ELSE checked[latest],
            of    <- IF latest = NoRow THEN 0 ELSE total[latest]

\* The state shown to the admin keeps the board's promises: whatever drain
\* writes, the run shown never goes back, is cancelled only after a stop and
\* completed only with every job counted.
ImplementsBoard == Board!Spec

\* "Every job gets touched": a job that stays active is checked again and again.
EveryActiveChecked ==
    \A j \in Jobs : []<>(standing[j] # "active" \/ byCheck[Len(byCheck)] = j)

\* A reported job is looked at by the suspected ticks, as the README has it.
EverySuspectChecked ==
    \A j \in Jobs : []<>(standing[j] # "suspected" \/ byCheck[Len(byCheck)] = j)

\* After a 429 no request goes to the host until the backoff has run out.
BackoffRespected ==
    [][\A c \in checks' : c.phase = "sent" /\ c \notin checks
            => AtsOf[c.job] \notin backoff]_vars
=============================================================================
