---------------------------- MODULE JobLifecycle ----------------------------
(***************************************************************************)
(* The availability lifecycle of a job row: active, suspected, expired.     *)
(*                                                                          *)
(* Every connection runs in autocommit, so a handler is a sequence of       *)
(* statements and each statement is an atomic step that other threads may   *)
(* separate from the next one.  A process is either a threadpool thread     *)
(* that serves report, withdraw and bulk-delete requests, or a verifier     *)
(* coroutine on the event loop.  The lifecycle functions contain no await:  *)
(* coroutines never interleave inside one, but threads interleave with      *)
(* every statement of it.                                                   *)
(*                                                                          *)
(* Log and audit inserts, timestamps and detail texts are left out.         *)
(***************************************************************************)
EXTENDS Integers, FiniteSets

CONSTANTS
  Jobs,             \* ids of rows of the jobs table
  Users,            \* users that report jobs
  Ats,              \* values of jobs.ats_type that have a circuit breaker
  NoAts,            \* an empty or NULL ats_type
  NoJob,            \* no job is being worked on
  AtsOf,            \* the ats_type of each job
  Threads,          \* threadpool threads running request handlers
  Checks,           \* verifier coroutines on the event loop
  DetectionEnabled, \* settings.expired_detection_enabled
  AutoMarking,      \* settings.verifier_auto_marking_enabled
  Threshold,        \* settings.verifier_circuit_breaker_threshold
  MaxHour,          \* bound: the clock stops at this hour
  MaxMissed,        \* bound: missed_ingest_cycles is not counted beyond this
  MaxBumps          \* bound: increments of one breaker counter

ASSUME AtsAssumption ==
  /\ NoAts \notin Ats /\ NoJob \notin Jobs
  /\ AtsOf \in [Jobs -> Ats \cup {NoAts}]
ASSUME ProcessAssumption ==
  /\ IsFiniteSet(Threads) /\ IsFiniteSet(Checks)
  /\ Threads \cap Checks = {}
ASSUME UsersAssumption == IsFiniteSet(Users)
ASSUME SettingsAssumption ==
  /\ DetectionEnabled \in BOOLEAN /\ AutoMarking \in BOOLEAN
  /\ Threshold \in Nat
ASSUME BoundsAssumption ==
  MaxHour \in Nat /\ MaxMissed \in Nat /\ MaxBumps \in Nat

Procs   == Threads \cup Checks
Hours   == 0..MaxHour
Buckets == Ats \X Hours

NoBucket == <<NoAts, 0>>

Statuses == {"active", "suspected", "expired"}
Kinds  == {"report", "withdraw", "drop", "check", "live", "dead", "unclear",
           "purge", "none"}
View   == [status : Statuses, missed : Nat, count : Nat]
NoView == [status |-> "active", missed |-> 0, count |-> 0]
Causes == {"drop", "http", "admin"}

VARIABLES
  status,       \* jobs.verification_status, "gone" once the row is deleted
  missed,       \* jobs.missed_ingest_cycles
  reportCount,  \* jobs.report_count
  reports,      \* job_reports, as <<user, job>> pairs
  bumps,        \* verifier_circuit_breaker.expire_count per bucket
  tripped,      \* buckets with tripped_at set
  cleared,      \* buckets with cleared_at set
  hour,         \* the current hour bucket of the clock
  pc,           \* the statement each process executes next
  kind,         \* what each process is doing
  job,          \* the job it is doing it to
  seen,         \* what it has read of that job so far
  bucket,       \* the breaker bucket it has bumped
  doomed,       \* the ids its bulk delete has selected
  granted,      \* history: permissions to expire given out per bucket
  cause         \* history: what may justify that a job is expired

jobVars == <<status, missed, reportCount, reports>>
brVars  == <<bumps, tripped, cleared, hour, granted>>
locVars == <<kind, job, seen, bucket, doomed>>
vars    == <<status, missed, reportCount, reports, bumps, tripped, cleared,
             hour, pc, kind, job, seen, bucket, doomed, granted, cause>>

Labels == {"idle", "count", "store", "fetch", "read", "distinct", "tripped",
           "bump", "reread", "trip", "suspect", "activate", "expire", "purge"}

\* The tables and the clock have their types.
TablesOK ==
  /\ status \in [Jobs -> Statuses \cup {"gone"}]
  /\ missed \in [Jobs -> Nat]
  /\ reportCount \in [Jobs -> Nat]
  /\ reports \subseteq Users \X Jobs
  /\ bumps \in [Buckets -> Nat]
  /\ granted \in [Buckets -> Nat]
  /\ tripped \subseteq Buckets
  /\ cleared \subseteq Buckets
  /\ hour \in Hours
  /\ cause \in [Jobs -> SUBSET Causes]

\* So have the locals, and a process that needs a job or a bucket has one.
LocalsOK ==
  /\ pc \in [Procs -> Labels]
  /\ kind \in [Procs -> Kinds]
  /\ job \in [Procs -> Jobs \cup {NoJob}]
  /\ seen \in [Procs -> View]
  /\ bucket \in [Procs -> Buckets \cup {NoBucket}]
  /\ doomed \in [Procs -> SUBSET Jobs]
  /\ \A p \in Procs :
       /\ pc[p] \notin {"idle", "purge"} => job[p] \in Jobs
       /\ pc[p] = "purge" => kind[p] = "purge"
       /\ pc[p] = "bump" => AtsOf[job[p]] \in Ats
       /\ pc[p] \in {"reread", "trip"} => bucket[p] \in Buckets

\* Type invariant of the tables, the breaker and the processes' locals.
TypeOK == TablesOK /\ LocalsOK

Init ==
  /\ status = [j \in Jobs |-> "active"]
  /\ missed = [j \in Jobs |-> 0]
  /\ reportCount = [j \in Jobs |-> 0]
  /\ reports = {}
  /\ bumps = [b \in Buckets |-> 0]
  /\ granted = [b \in Buckets |-> 0]
  /\ tripped = {}
  /\ cleared = {}
  /\ hour = 0
  /\ pc = [p \in Procs |-> "idle"]
  /\ kind = [p \in Procs |-> "none"]
  /\ job = [p \in Procs |-> NoJob]
  /\ seen = [p \in Procs |-> NoView]
  /\ bucket = [p \in Procs |-> NoBucket]
  /\ doomed = [p \in Procs |-> {}]
  /\ cause = [j \in Jobs |-> {}]

Exists(j)    == status[j] # "gone"
Expired      == {j \in Jobs : status[j] = "expired"}
Reporters(j) == {u \in Users : <<u, j>> \in reports}

-----------------------------------------------------------------------------
(* Control of a process. *)

Goto(p, label) == pc' = [pc EXCEPT ![p] = label]

\* The coroutine that signalled a manifest drop goes on to fetch the job's
\* page; every other process is done and forgets what it has read.
Finish(p) ==
  IF kind[p] = "drop"
  THEN /\ Goto(p, "fetch")
       /\ kind' = [kind EXCEPT ![p] = "check"]
       /\ seen' = [seen EXCEPT ![p] = NoView]
       /\ bucket' = [bucket EXCEPT ![p] = NoBucket]
       /\ UNCHANGED <<job, doomed>>
  ELSE /\ Goto(p, "idle")
       /\ kind' = [kind EXCEPT ![p] = "none"]
       /\ job' = [job EXCEPT ![p] = NoJob]
       /\ seen' = [seen EXCEPT ![p] = NoView]
       /\ bucket' = [bucket EXCEPT ![p] = NoBucket]
       /\ doomed' = [doomed EXCEPT ![p] = {}]

\* Continue at a label, or finish when the function returns early.
Continue(p, label) ==
  IF label = "idle" THEN Finish(p)
  ELSE Goto(p, label) /\ UNCHANGED locVars

\* No other coroutine is inside a lifecycle function.
LoopFree(c) == \A d \in Checks \ {c} : pc[d] \in {"idle", "fetch"}

-----------------------------------------------------------------------------
(* POST and DELETE /api/jobs/{id}/report on a thread. *)

\* The job row exists and the rate limits let the report through; the upsert
\* of the (user, job) row is the first statement with an effect here.  A row
\* deleted before the upsert makes it fail on the foreign key: no effect.
InsertReport(t, j, u) ==
  /\ pc[t] = "idle" /\ Exists(j)
  /\ reports' = reports \cup {<<u, j>>}
  /\ Goto(t, "count")
  /\ kind' = [kind EXCEPT ![t] = "report"]
  /\ job' = [job EXCEPT ![t] = j]
  /\ UNCHANGED <<status, missed, reportCount, brVars, seen, bucket, doomed, cause>>

\* A withdrawal neither checks the job nor reverts its status.
DeleteReport(t, j, u) ==
  /\ pc[t] = "idle" /\ <<u, j>> \in reports
  /\ reports' = reports \ {<<u, j>>}
  /\ Goto(t, "count")
  /\ kind' = [kind EXCEPT ![t] = "withdraw"]
  /\ job' = [job EXCEPT ![t] = j]
  /\ UNCHANGED <<status, missed, reportCount, brVars, seen, bucket, doomed, cause>>

CountReports(t) ==
  /\ pc[t] = "count"
  /\ seen' = [seen EXCEPT ![t].count = Cardinality(Reporters(job[t]))]
  /\ Goto(t, "store")
  /\ UNCHANGED <<jobVars, brVars, kind, job, bucket, doomed, cause>>

\* Slip: the count is not stored again after a withdrawal.
StoreCountOfReports(t) ==
  /\ pc[t] = "store"
  /\ reportCount' = IF Exists(job[t]) /\ kind[t] = "report"
                    THEN [reportCount EXCEPT ![job[t]] = seen[t].count]
                    ELSE reportCount
  /\ Continue(t, IF kind[t] = "report" /\ DetectionEnabled THEN "read" ELSE "idle")
  /\ UNCHANGED <<status, missed, reports, brVars, cause>>

StoreCount(t) ==
  /\ pc[t] = "store"
  /\ reportCount' = IF Exists(job[t])
                    THEN [reportCount EXCEPT ![job[t]] = seen[t].count]
                    ELSE reportCount
  /\ Continue(t, IF kind[t] = "report" /\ DetectionEnabled THEN "read" ELSE "idle")
  /\ UNCHANGED <<status, missed, reports, brVars, cause>>

-----------------------------------------------------------------------------
(* The verifier's coroutines. *)

\* drain_manifest_drops picks rows that missed two cycles and are active; it
\* hands the picked counter to on_manifest_drop.
PickDropped(c, j) ==
  /\ DetectionEnabled
  /\ pc[c] = "idle" /\ LoopFree(c)
  /\ missed[j] >= 2 /\ status[j] = "active"
  /\ Goto(c, "read")
  /\ kind' = [kind EXCEPT ![c] = "drop"]
  /\ job' = [job EXCEPT ![c] = j]
  /\ seen' = [seen EXCEPT ![c].missed = missed[j]]
  /\ UNCHANGED <<jobVars, brVars, bucket, doomed, cause>>

\* The suspected and periodic drains pick suspected or active rows.
PickForCheck(c, j) ==
  /\ DetectionEnabled
  /\ pc[c] = "idle" /\ LoopFree(c)
  /\ status[j] \in {"active", "suspected"}
  /\ Goto(c, "fetch")
  /\ kind' = [kind EXCEPT ![c] = "check"]
  /\ job' = [job EXCEPT ![c] = j]
  /\ UNCHANGED <<jobVars, brVars, seen, bucket, doomed, cause>>

\* verify_job returns: the page is live, dead, or the answer says nothing.
Respond(c, answer) ==
  /\ pc[c] = "fetch" /\ LoopFree(c)
  /\ Goto(c, "read")
  /\ kind' = [kind EXCEPT ![c] = answer]
  /\ cause' = IF answer = "dead" THEN [cause EXCEPT ![job[c]] = @ \cup {"http"}]
              ELSE cause
  /\ UNCHANGED <<jobVars, brVars, job, seen, bucket, doomed>>

-----------------------------------------------------------------------------
(* on_user_report, on_manifest_drop and on_http_check. *)

\* One weak signal makes an active job suspected.
Escalates(k, v) ==
  /\ v.status = "active"
  /\ k = "report" \/ (k = "drop" /\ v.missed >= 2)

\* The signals that would expire the job, with auto-marking on.
Condemns(k, v) ==
  /\ AutoMarking
  /\ \/ k = "report" /\ v.status = "suspected" /\ v.count >= 2
     \/ k = "drop" /\ v.status = "suspected" /\ v.missed >= 2 /\ v.count >= 1
     \/ k = "dead" /\ v.status # "expired"

Decision(k, v) ==
  IF Escalates(k, v) THEN "suspect"
  ELSE IF Condemns(k, v) THEN "tripped"
  ELSE IF k = "live" /\ v.status = "suspected" THEN "activate"
  ELSE "idle"

\* _current_status.  A drop signal keeps the counter its pick has read.  The report
\* path has one more query before it decides and needs what it has read later; the
\* others decide at once.
ReadStatus(p) ==
  /\ pc[p] = "read"
  /\ UNCHANGED <<jobVars, brVars, cause>>
  /\ LET j == job[p]
         v == [status |-> status[j],
               missed |-> IF kind[p] = "drop" THEN seen[p].missed ELSE missed[j],
               count  |-> reportCount[j]]
     IN  IF ~Exists(j) THEN Finish(p)
         ELSE IF kind[p] = "report"
         THEN /\ seen' = [seen EXCEPT ![p] = v]
              /\ Goto(p, "distinct")
              /\ UNCHANGED <<kind, job, bucket, doomed>>
         ELSE Continue(p, Decision(kind[p], v))

CountReporters(p) ==
  /\ pc[p] = "distinct"
  /\ UNCHANGED <<jobVars, brVars, cause>>
  /\ Continue(p, Decision("report",
                   [seen[p] EXCEPT !.count = Cardinality(Reporters(job[p]))]))

-----------------------------------------------------------------------------
(* The circuit breaker. *)

AtsOfProc(p) == AtsOf[job[p]]
Current(p)   == <<AtsOfProc(p), hour>>

\* Slip: two reports are enough, without a manifest drop.
CheckTrippedOnly(p) ==
  /\ pc[p] = "tripped"
  /\ Continue(p, IF Current(p) \in tripped \ cleared THEN "idle"
                 ELSE IF AtsOfProc(p) = NoAts THEN "expire" ELSE "bump")
  /\ UNCHANGED <<jobVars, brVars, cause>>

\* Slip: the breaker is looked at but the expiration is not counted.
CheckTrippedUncounted(p) ==
  /\ pc[p] = "tripped"
  /\ Continue(p, IF \/ Current(p) \in tripped \ cleared
                    \/ kind[p] = "report" /\ seen[p].missed < 2
                 THEN "idle" ELSE "expire")
  /\ UNCHANGED <<jobVars, brVars, cause>>

\* _circuit_breaker_tripped, then the report path asks for two missed cycles.
CheckTripped(p) ==
  /\ pc[p] = "tripped"
  /\ Continue(p, IF \/ Current(p) \in tripped \ cleared
                    \/ kind[p] = "report" /\ seen[p].missed < 2
                 THEN "idle"
                 ELSE IF AtsOfProc(p) = NoAts THEN "expire" ELSE "bump")
  /\ UNCHANGED <<jobVars, brVars, cause>>

\* Slip: the bucket of the upsert is not kept for the read that follows.
BumpForgetful(p) ==
  /\ pc[p] = "bump" /\ bumps[Current(p)] < MaxBumps
  /\ bumps' = [bumps EXCEPT ![Current(p)] = @ + 1]
  /\ Goto(p, "reread")
  /\ UNCHANGED <<jobVars, tripped, cleared, hour, granted, locVars, cause>>

\* _bump_circuit_breaker: upsert, read back, maybe trip.
Bump(p) ==
  /\ pc[p] = "bump" /\ bumps[Current(p)] < MaxBumps
  /\ bumps' = [bumps EXCEPT ![Current(p)] = @ + 1]
  /\ bucket' = [bucket EXCEPT ![p] = Current(p)]
  /\ Goto(p, "reread")
  /\ UNCHANGED <<jobVars, tripped, cleared, hour, granted, kind, job, seen, doomed, cause>>

\* Slip: the threshold is compared with the counter as it was before the bump.
RereadLate(p) ==
  /\ pc[p] = "reread"
  /\ LET over    == bumps[bucket[p]] - 1 > Threshold
         already == bucket[p] \in tripped
     IN  /\ Continue(p, IF already THEN "idle" ELSE IF over THEN "trip" ELSE "expire")
         /\ granted' = IF already \/ over THEN granted
                       ELSE [granted EXCEPT ![bucket[p]] = @ + 1]
  /\ UNCHANGED <<jobVars, bumps, tripped, cleared, hour, cause>>

Reread(p) ==
  /\ pc[p] = "reread"
  /\ LET over    == bumps[bucket[p]] > Threshold
         already == bucket[p] \in tripped
     IN  /\ Continue(p, IF already THEN "idle" ELSE IF over THEN "trip" ELSE "expire")
         /\ granted' = IF already \/ over THEN granted
                       ELSE [granted EXCEPT ![bucket[p]] = @ + 1]
  /\ UNCHANGED <<jobVars, bumps, tripped, cleared, hour, cause>>

Trip(p) ==
  /\ pc[p] = "trip"
  /\ tripped' = tripped \cup {bucket[p]}
  /\ Finish(p)
  /\ UNCHANGED <<jobVars, bumps, cleared, hour, granted, cause>>

-----------------------------------------------------------------------------
(* _set_status: an unconditional UPDATE by id. *)

Target(label) ==
  CASE label = "suspect"  -> "suspected"
    [] label = "activate" -> "active"
    [] label = "expire"   -> "expired"

SetStatus(p) ==
  /\ pc[p] \in {"suspect", "activate", "expire"}
  /\ status' = IF Exists(job[p]) THEN [status EXCEPT ![job[p]] = Target(pc[p])]
               ELSE status
  /\ Finish(p)
  /\ UNCHANGED <<missed, reportCount, reports, brVars, cause>>

-----------------------------------------------------------------------------
(* Admin handlers.  All but the bulk delete write with one statement.       *)

AdminExpire(j) ==
  /\ Exists(j)
  /\ status' = [status EXCEPT ![j] = "expired"]
  /\ cause' = [cause EXCEPT ![j] = @ \cup {"admin"}]
  /\ UNCHANGED <<missed, reportCount, reports, brVars, pc, locVars>>

\* One job forced back to active, or the expired jobs a filter matches.
Reactivate(S) ==
  /\ status' = [j \in Jobs |-> IF j \in S THEN "active" ELSE status[j]]
  /\ missed' = [j \in Jobs |-> IF j \in S THEN 0 ELSE missed[j]]
  /\ UNCHANGED <<reportCount, reports, brVars, pc, locVars, cause>>

AdminReactivate(j) == Exists(j) /\ Reactivate({j})

BulkReactivate(S) == S # {} /\ S \subseteq Expired /\ Reactivate(S)

\* Rows deleted from jobs; their reports keep no job id.
DeleteRows(S) ==
  /\ status' = [j \in Jobs |-> IF j \in S THEN "gone" ELSE status[j]]
  /\ reports' = {r \in reports : r[2] \notin S}

\* Bulk delete: the ids of matching expired jobs are selected ...
SelectDoomed(t, S) ==
  /\ pc[t] = "idle"
  /\ S # {} /\ S \subseteq Expired
  /\ doomed' = [doomed EXCEPT ![t] = S]
  /\ kind' = [kind EXCEPT ![t] = "purge"]
  /\ Goto(t, "purge")
  /\ UNCHANGED <<jobVars, brVars, job, seen, bucket, cause>>

\* ... and then deleted by id.
Purge(t) ==
  /\ pc[t] = "purge"
  /\ DeleteRows(doomed[t])
  /\ Finish(t)
  /\ UNCHANGED <<missed, reportCount, brVars, cause>>

\* Clears every tripped bucket of the ATS that is not cleared yet.
ClearBreaker(a) ==
  /\ cleared' = cleared \cup {b \in tripped : b[1] = a}
  /\ UNCHANGED <<jobVars, bumps, tripped, hour, granted, pc, locVars, cause>>

-----------------------------------------------------------------------------
(* Ingestion and the clock. *)

\* The upsert of a row that is in the manifest.
SeenInManifest(j) ==
  /\ Exists(j)
  /\ missed' = [missed EXCEPT ![j] = 0]
  /\ UNCHANGED <<status, reportCount, reports, brVars, pc, locVars, cause>>

\* mark_manifest_drops counts a cycle the row was not seen in.
MissCycle(j) ==
  /\ Exists(j) /\ missed[j] < MaxMissed
  /\ missed' = [missed EXCEPT ![j] = @ + 1]
  /\ cause' = IF missed[j] + 1 >= 2 THEN [cause EXCEPT ![j] = @ \cup {"drop"}]
              ELSE cause
  /\ UNCHANGED <<status, reportCount, reports, brVars, pc, locVars>>

\* prune_old deletes rows by date, whatever their status.
PruneOld(j) ==
  /\ Exists(j)
  /\ DeleteRows({j})
  /\ UNCHANGED <<missed, reportCount, brVars, pc, locVars, cause>>

Tick ==
  /\ hour < MaxHour
  /\ hour' = hour + 1
  /\ UNCHANGED <<jobVars, bumps, tripped, cleared, granted, pc, locVars, cause>>

-----------------------------------------------------------------------------
Serve(t) ==
  \/ \E j \in Jobs, u \in Users : InsertReport(t, j, u) \/ DeleteReport(t, j, u)
  \/ CountReports(t)
  \/ StoreCount(t)
  \/ CountReporters(t)
  \/ \E S \in SUBSET Jobs : SelectDoomed(t, S)
  \/ Purge(t)

Verify(c) ==
  \/ \E j \in Jobs : PickDropped(c, j) \/ PickForCheck(c, j)
  \/ \E answer \in {"live", "dead", "unclear"} : Respond(c, answer)

Lifecycle(p) ==
  ReadStatus(p) \/ CheckTripped(p) \/ Bump(p) \/ Reread(p) \/ Trip(p) \/ SetStatus(p)

Environment ==
  \/ \E j \in Jobs : \/ AdminExpire(j) \/ AdminReactivate(j)
                     \/ SeenInManifest(j) \/ MissCycle(j) \/ PruneOld(j)
  \/ \E S \in SUBSET Jobs : BulkReactivate(S)
  \/ \E a \in Ats : ClearBreaker(a)
  \/ Tick

Next ==
  \/ \E t \in Threads : Serve(t)
  \/ \E c \in Checks : Verify(c)
  \/ \E p \in Procs : Lifecycle(p)
  \/ Environment

Spec == Init /\ [][Next]_vars

-----------------------------------------------------------------------------
(* Properties. *)

\* However requests, checks, clears and hours interleave, at most Threshold
\* permissions to write 'expired' are given out per ATS and hour: the bump is
\* an upsert followed by a separate read of the shared counter.
ExpiryBudget == \A b \in Buckets : granted[b] <= Threshold

\* A storm of user reports alone never expires a job: an expired job was once
\* missed by two cycles, or found dead over HTTP, or expired by an admin; and
\* with auto-marking off only an admin expires jobs.
ExpiryHasCause ==
  \A j \in Jobs : status[j] = "expired" =>
    \/ "admin" \in cause[j]
    \/ AutoMarking /\ cause[j] \ {"admin"} # {}

\* A request still working on the report count of a job.
Recounting(j) == \E p \in Procs : pc[p] \in {"count", "store"} /\ job[p] = j

\* report_count is the number of distinct users whose reports stand, whenever
\* no request is between changing the reports and storing their number.
ReportCountExact ==
  \A j \in Jobs : Exists(j) /\ ~Recounting(j) => reportCount[j] = Cardinality(Reporters(j))

\* A single HTTP check that finds the page live lifts a suspicion; it never
\* brings an expired job back.
HttpNeverRevives ==
  [][\A p \in Procs : SetStatus(p) /\ pc[p] = "activate" => status[job[p]] # "expired"]_vars

\* A bulk delete of expired jobs is about to delete expired jobs only.
PurgeOnlyExpired ==
  \A p \in Procs : \A j \in doomed[p] : status[j] \in {"expired", "gone"}

\* Once an admin has cleared a bucket it no longer holds back expirations.
ClearLiftsHalt ==
  [][\A p \in Procs : Reread(p) /\ bucket[p] \in cleared => pc'[p] = "expire"]_vars

\* A tripped breaker halts the expirations of its ATS until it is cleared.
HaltUntilCleared ==
  [][\A a \in Ats, h \in Hours :
       granted'[<<a, h>>] # granted[<<a, h>>] =>
         \A g \in Hours : <<a, g>> \in tripped => <<a, g>> \in cleared]_vars

-----------------------------------------------------------------------------
(* Refinement. *)

\* A process about to write 'expired' holds a permit for its job.
Permit == [p \in Procs |-> IF pc[p] = "expire" THEN {job[p]} ELSE {}]

Ledger == INSTANCE ExpiryLedger WITH Holders <- Procs, permit <- Permit

\* The statements of all handlers together implement the ledger: no automatic
\* expiry without a permit, no permit without a cause or beyond the budget.
ImplementsLedger == Ledger!Spec
=============================================================================
